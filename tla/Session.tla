------------------------------- MODULE Session -------------------------------
(***************************************************************************)
(* The sessions of one account: the manager of session.ts over the         *)
(* ket_session table of sessionstore.ts, and sessionRecordOf of boot.ts,   *)
(* which reconciles the session of a request with what resolveSession says *)
(* of the account now.  Requests, logins and revocations interleave        *)
(* between any two statements.  A context is the number of the change of   *)
(* the account that made it: companies and branches are not told apart.    *)
(***************************************************************************)
EXTENDS Naturals

CONSTANTS
    SsIds,          \* the session ids
    SsRequests,     \* the requests there can be at a time
    IdleTtl,        \* idleTtlMs
    AbsoluteTtl,    \* absoluteTtlMs
    SsInstants,     \* bound: the clock stops here
    SsChanges,      \* bound: the changes of the account
    Unused, Gone,   \* an id with no session yet, and one whose row was deleted
    NoSession       \* nothing read, resolved or served

ASSUME SessionAssumption ==
    /\ IdleTtl \in Nat \ {0} /\ AbsoluteTtl \in Nat \ {0}
    /\ SsInstants \in Nat /\ SsChanges \in Nat

VARIABLES
    ssClock,        \* now()
    ssAccount,      \* what resolveSession would say: context and securityVersion
    ssRow,          \* ket_session, by id
    ssLogin,        \* the account as a login read it, before its session is stored
    ssRevoked,      \* endUser: the ids it has listed and not destroyed yet
    ssRequest       \* the requests

ssVars == <<ssClock, ssAccount, ssRow, ssLogin, ssRevoked, ssRequest>>

Account == [context : 0 .. SsChanges, version : 0 .. SsChanges]
NothingYet == [context |-> 0, version |-> 0]
SsRow == [context : 0 .. SsChanges, version : 0 .. SsChanges, revision : Nat, created : Nat, expires : Nat]

\* No session is none of the values that stand for no session.
ASSUME SessionNulls ==
    Unused # Gone /\ \A none \in {Unused, Gone, NoSession} : none \notin SsRow /\ none \notin Account

\* begun and late are what was so when the request came: the account, and whether
\* the session had ended.  again: the second manager.of.
Request == [step : {"read", "touch", "destroy", "resolve", "update", "reread", "answered"},
            id : SsIds, raw : SsRow \union {NoSession}, resolved : Account \union {NoSession},
            until : Nat, again : BOOLEAN, served : SsRow \union {NoSession},
            begun : Account, late : BOOLEAN]

SsInit ==
    /\ ssClock = 0
    /\ ssAccount = NothingYet
    /\ ssRow = [i \in SsIds |-> Unused]
    /\ ssLogin = NoSession
    /\ ssRevoked = {}
    /\ ssRequest = [r \in SsRequests |-> NoSession]

-----------------------------------------------------------------------------
Held(i) == ssRow[i] \notin {Unused, Gone}
SsExpired(row) == row.expires <= ssClock
Ceiling(row) == row.created + AbsoluteTtl
SsLeast(a, b) == IF a <= b THEN a ELSE b

At(r, step) == ssRequest[r] # NoSession /\ ssRequest[r].step = step
SsGoes(r, q) == ssRequest' = [ssRequest EXCEPT ![r] = q]

\* What a request no longer looks at is forgotten, and all of it once it has nothing to serve.
SsForgets(q, step) == [q EXCEPT !.step = step, !.raw = NoSession, !.until = 0]
SsEmptyHanded(q) == [q EXCEPT !.begun = NothingYet, !.late = FALSE]
Answers(r, row) ==
    LET q == [SsForgets(ssRequest[r], "answered") EXCEPT !.served = row, !.resolved = NoSession, !.again = FALSE]
    IN  SsGoes(r, IF row = NoSession THEN SsEmptyHanded(q) ELSE q)
Deletes(i) == ssRow' = [ssRow EXCEPT ![i] = Gone]

SsElapse ==
    /\ ssClock < SsInstants
    /\ ssClock' = ssClock + 1
    /\ UNCHANGED <<ssAccount, ssRow, ssLogin, ssRevoked, ssRequest>>

\* The companies of the account change, or its security version does.
AccountChanges(version) ==
    /\ ssAccount.context < SsChanges
    /\ ssAccount' = [context |-> ssAccount.context + 1, version |-> ssAccount.version + version]
    /\ UNCHANGED <<ssClock, ssRow, ssLogin, ssRevoked, ssRequest>>

\* start: the application has read the account some time before.
LoginReads ==
    /\ ssLogin = NoSession
    /\ ssLogin' = ssAccount
    /\ UNCHANGED <<ssClock, ssAccount, ssRow, ssRevoked, ssRequest>>

SsStart(i) ==
    /\ ssLogin # NoSession /\ ssRow[i] = Unused
    /\ ssRow' = [ssRow EXCEPT ![i] = [context |-> ssLogin.context, version |-> ssLogin.version, revision |-> 0,
                                      created |-> ssClock, expires |-> ssClock + IdleTtl]]
    /\ ssLogin' = NoSession
    /\ UNCHANGED <<ssClock, ssAccount, ssRevoked, ssRequest>>

-----------------------------------------------------------------------------
(* sessionRecordOf                                                         *)

Arrives(r, i) ==
    /\ ssRequest[r] = NoSession /\ ssRow[i] # Unused
    /\ LET ended == ~Held(i) \/ SsExpired(ssRow[i]) \/ Ceiling(ssRow[i]) <= ssClock
       IN  SsGoes(r, [step |-> "read", id |-> i, raw |-> NoSession, resolved |-> NoSession, until |-> 0,
                      again |-> FALSE, served |-> NoSession, late |-> ended,
                      begun |-> IF ended THEN NothingYet ELSE ssAccount])
    /\ UNCHANGED <<ssClock, ssAccount, ssRow, ssLogin, ssRevoked>>

SameContext(row, account) == row.context = account.context /\ row.version = account.version

\* Mutant: the session a parallel request has reconciled is taken as it is.
LatestAsItIs(q, row) == row
\* What sessionRecordOf returns of the second manager.of.
Latest(q, row) == IF SameContext(row, q.resolved) THEN row ELSE NoSession

Over(row) == SsExpired(row) \/ Ceiling(row) <= ssClock

\* What follows manager.of: the account is asked, or the second reading is compared.
AfterOf(r, row) ==
    LET q == ssRequest[r] IN
    IF q.again THEN Answers(r, Latest(q, row)) ELSE SsGoes(r, [SsForgets(q, "resolve") EXCEPT !.raw = row])

\* store.read, and what manager.of makes of it.
Fetches(r) ==
    /\ At(r, "read")
    /\ LET q == ssRequest[r]
           row == ssRow[q.id]
           next == SsLeast(ssClock + IdleTtl, Ceiling(row))
       IN IF ~Held(q.id) THEN Answers(r, NoSession)
          ELSE IF Over(row) THEN SsGoes(r, SsEmptyHanded(SsForgets(q, "destroy")))
          ELSE IF next > row.expires
               THEN SsGoes(r, [q EXCEPT !.step = "touch", !.raw = row, !.until = next])
          ELSE AfterOf(r, row)
    /\ UNCHANGED <<ssClock, ssAccount, ssRow, ssLogin, ssRevoked>>

TouchesLive(row) == ~SsExpired(row)

\* UPDATE .. SET expires_at .. AND expires_at > now
Touch(r) ==
    /\ At(r, "touch")
    /\ LET q == ssRequest[r] IN
       IF Held(q.id) /\ TouchesLive(ssRow[q.id])
       THEN /\ ssRow' = [ssRow EXCEPT ![q.id].expires = q.until]
            /\ AfterOf(r, [q.raw EXCEPT !.expires = q.until])
       ELSE Answers(r, NoSession) /\ UNCHANGED ssRow
    /\ UNCHANGED <<ssClock, ssAccount, ssLogin, ssRevoked>>

\* DELETE: the session has ended, or the account has another security version.
Destroy(r) ==
    /\ At(r, "destroy")
    /\ Deletes(ssRequest[r].id)
    /\ Answers(r, NoSession)
    /\ UNCHANGED <<ssClock, ssAccount, ssLogin, ssRevoked>>

Revokes(row, account) == account.version # row.version

\* resolveSession
Resolve(r) ==
    /\ At(r, "resolve")
    /\ LET q == ssRequest[r] IN
       IF Revokes(q.raw, ssAccount) THEN SsGoes(r, SsEmptyHanded(SsForgets(q, "destroy")))
       ELSE IF SameContext(q.raw, ssAccount) THEN Answers(r, q.raw)
       ELSE SsGoes(r, [q EXCEPT !.step = "update", !.resolved = ssAccount])
    /\ UNCHANGED <<ssClock, ssAccount, ssRow, ssLogin, ssRevoked>>

\* Mutant: the statement does not name the revision.
UpdatesStored(row, raw) == ~SsExpired(row)

Updates(row, raw) == row.revision = raw.revision /\ ~SsExpired(row)

\* UPDATE .. AND revision = what was read; then SELECT, or manager.of again.
Update(r) ==
    /\ At(r, "update")
    /\ LET q == ssRequest[r] IN
       IF Held(q.id) /\ Updates(ssRow[q.id], q.raw)
       THEN /\ ssRow' = [ssRow EXCEPT ![q.id] = [ssRow[q.id] EXCEPT !.context = q.resolved.context,
                                                                   !.version = q.resolved.version, !.revision = @ + 1]]
            /\ SsGoes(r, SsForgets(q, "reread"))
       ELSE SsGoes(r, [SsForgets(q, "read") EXCEPT !.again = TRUE]) /\ UNCHANGED ssRow
    /\ UNCHANGED <<ssClock, ssAccount, ssLogin, ssRevoked>>

Reread(r) ==
    /\ At(r, "reread")
    /\ IF Held(ssRequest[r].id) THEN Answers(r, ssRow[ssRequest[r].id])
       ELSE SsGoes(r, [SsForgets(ssRequest[r], "read") EXCEPT !.again = TRUE])
    /\ UNCHANGED <<ssClock, ssAccount, ssRow, ssLogin, ssRevoked>>

\* The request is over, or fails on the way.
RequestEnds(r) ==
    /\ ssRequest[r] # NoSession
    /\ SsGoes(r, NoSession)
    /\ UNCHANGED <<ssClock, ssAccount, ssRow, ssLogin, ssRevoked>>

-----------------------------------------------------------------------------
(* The other operations of the manager.                                    *)

\* end, for the cookie of a request.
SsEnd(i) ==
    /\ Held(i)
    /\ Deletes(i)
    /\ UNCHANGED <<ssClock, ssAccount, ssLogin, ssRevoked, ssRequest>>

\* listUser deletes what has expired, and so does sweep.
SsSweep ==
    /\ \E i \in SsIds : Held(i) /\ SsExpired(ssRow[i])
    /\ ssRow' = [i \in SsIds |-> IF Held(i) /\ SsExpired(ssRow[i]) THEN Gone ELSE ssRow[i]]
    /\ UNCHANGED <<ssClock, ssAccount, ssLogin, ssRevoked, ssRequest>>

\* endUser and endUserExcept of a tenant: the sessions are listed, then destroyed one by one.
EndUser(keep) ==
    /\ ssRevoked = {}
    /\ ssRow' = [i \in SsIds |-> IF Held(i) /\ SsExpired(ssRow[i]) THEN Gone ELSE ssRow[i]]
    /\ ssRevoked' = { i \in SsIds : Held(i) /\ ~SsExpired(ssRow[i]) } \ keep
    /\ UNCHANGED <<ssClock, ssAccount, ssLogin, ssRequest>>

EndOne(i) ==
    /\ i \in ssRevoked
    /\ ssRow' = [ssRow EXCEPT ![i] = IF Held(i) THEN Gone ELSE @]
    /\ ssRevoked' = ssRevoked \ {i}
    /\ UNCHANGED <<ssClock, ssAccount, ssLogin, ssRequest>>

SsNext ==
    \/ SsElapse \/ LoginReads \/ SsSweep \/ EndUser({})
    \/ \E version \in {0, 1} : AccountChanges(version)
    \/ \E i \in SsIds : SsStart(i) \/ SsEnd(i) \/ EndUser({i}) \/ EndOne(i) \/ (\E r \in SsRequests : Arrives(r, i))
    \/ \E r \in SsRequests : \/ Fetches(r) \/ Touch(r) \/ Destroy(r) \/ Resolve(r)
                             \/ Update(r) \/ Reread(r) \/ RequestEnds(r)

SsSpec == SsInit /\ [][SsNext]_ssVars

-----------------------------------------------------------------------------
SsTypeOK ==
    /\ ssClock \in 0 .. SsInstants
    /\ ssAccount \in Account
    /\ ssRow \in [SsIds -> SsRow \union {Unused, Gone}]
    /\ ssLogin \in Account \union {NoSession}
    /\ ssRevoked \subseteq SsIds
    /\ ssRequest \in [SsRequests -> Request \union {NoSession}]

\* No request is served with what was no longer so when it came: a session that had ended, or
\* was revoked by another security version, or companies the account had lost; whatever other
\* requests reconcile, extend or destroy the same session meanwhile.
ServedIsCurrent ==
    \A r \in SsRequests : At(r, "answered") /\ ssRequest[r].served # NoSession =>
        LET q == ssRequest[r] IN
        ~q.late /\ q.served.version >= q.begun.version /\ q.served.context >= q.begun.context

\* A stored session only moves forward: one that has expired or was destroyed is never revived,
\* its security version stays, and no request writes an older context over a newer one.
SessionMovesForward ==
    [][ \A i \in SsIds :
          /\ ssRow[i] = Gone => ssRow'[i] = Gone
          /\ Held(i) /\ ssRow'[i] # Gone =>
               /\ ssRow'[i].version = ssRow[i].version /\ ssRow'[i].context >= ssRow[i].context
               /\ SsExpired(ssRow[i]) => ssRow'[i] = ssRow[i] ]_ssRow
=============================================================================
