------------------------------- MODULE MCClients -------------------------------
(***************************************************************************)
(* What goes by clocks, callbacks, notifications and answers that come     *)
(* late, each as a small instance: the recurring schedules, the sessions, a *)
(* stream and a client that follows it, the hub of notifications, and of a *)
(* client the mirror of its views, the graph of its signals and a store.   *)
(* They share no variable, so a behaviour exercises one of them, the part  *)
(* it starts with, and leaves the others as they begin.                    *)
(***************************************************************************)
EXTENDS Schedule, Session, Stream, Notify, Mirror, Signals, Store, TLC

CONSTANTS
    x1, x2, s1, s2,             \* interchangeable
    jobA, jobB, r1, r2,         \* the schedules and their replicas
    third, id,                  \* one listener, reader or run more, and a session
    a1, c1                      \* a signal and a computed value

VARIABLE part

PairX == {x1, x2}
MCScopes == {s1, s2}
Symmetry == Permutations(PairX) \union Permutations(MCScopes)

MCJobs == <<jobA, jobB>>
MCPeriod == (jobA :> 1) @@ (jobB :> 2)
MCReplicas == {r1, r2}
MCMortal == {r1}

MCSessions == {id}
MCListeners == {x1, x2, third}
MCReaders == {third}
MCSources == {a1}
MCComputeds == {c1}

MCInit ==
    /\ part \in {"schedule", "session", "stream", "notify", "mirror", "signals", "store"}
    /\ SchedInit /\ SsInit /\ StreamInit /\ NtInit /\ MiInit /\ SgInit /\ StInit
    /\ part # "notify" => ntShared
    /\ part # "mirror" => miPage.sharing = "queue"
    /\ part # "store" => stConcurrency = "latest"

\* Nothing changes outside the part.
Only(p) ==
    /\ part = p /\ UNCHANGED part
    /\ p # "schedule" => UNCHANGED schedVars
    /\ p # "session" => UNCHANGED ssVars
    /\ p # "stream" => UNCHANGED streamVars
    /\ p # "notify" => UNCHANGED ntVars
    /\ p # "mirror" => UNCHANGED miVars
    /\ p # "signals" => UNCHANGED sgVars
    /\ p # "store" => UNCHANGED stVars

MCNext ==
    \/ Only("schedule") /\ SchedNext
    \/ Only("session") /\ SsNext
    \/ Only("stream") /\ StreamNext
    \/ Only("notify") /\ NtNext
    \/ Only("mirror") /\ MiNext
    \/ Only("signals") /\ SgNext
    \/ Only("store") /\ StNext

MCSpec == MCInit /\ [][MCNext]_<<part, schedVars, ssVars, streamVars, ntVars, miVars, sgVars, stVars>>

\* The variables of every part keep their types.
TypesOK ==
    /\ part = "schedule" => SchedTypeOK
    /\ part = "session" => SsTypeOK
    /\ part = "stream" => StreamTypeOK
    /\ part = "notify" => NtTypeOK
    /\ part = "mirror" => MiTypeOK
    /\ part = "signals" => SgTypeOK
    /\ part = "store" => StTypeOK

\* What is newer is never replaced by what is older: the tick a schedule has come to, what a
\* session knows of its account, and what a mirror shows.
NothingGoesBack == LastTickMovesForward /\ SessionMovesForward /\ MirrorKeepsNewer
=============================================================================
