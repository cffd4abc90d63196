------------------------------- MODULE MCServer -------------------------------
(***************************************************************************)
(* The parts of a server process that must come to an end once they have   *)
(* begun to, each as a small instance: the calls of the adapter pool and   *)
(* of a SQLite connection, the closing of a WebSocket, and the shutdown of *)
(* HTTP; and the composition of what it serves, with its upgrade.  They    *)
(* share no variable, so a behaviour exercises one of them, the part it    *)
(* starts with, and leaves the others as they begin, where nothing that    *)
(* fairness asks for is enabled.                                           *)
(***************************************************************************)
EXTENDS AdapterPool, SqliteQueue, WebSocket, HttpServer, MCUpgrade

CONSTANTS store1, store2, e1, e2, e3, c1, c2, c3

VARIABLE part

MCDatastores == {store1, store2}
MCEntries == {e1, e2, e3}
MCCallers == {c1, c2}
MCConnections == {c1, c2, c3}

\* Aside, a deployment of no modules.
UpAside ==
    /\ upCheckout = "modelling" /\ upWorld = CHOOSE w \in MCRevisions("modelling") : w.mods = <<>>
    /\ upLive = Empty /\ upLast = Nothing

MCInit ==
    /\ \/ part \in {"pool", "sqlite", "socket", "http"} /\ UpAside
       \/ part = "upgrade" /\ UpInit
    /\ PoolInit /\ SqInit /\ WsInit /\ HsInit

\* Nothing changes outside the part.
Only(p) ==
    /\ part = p /\ UNCHANGED part
    /\ p # "pool" => UNCHANGED poolVars
    /\ p # "sqlite" => UNCHANGED sqVars
    /\ p # "socket" => UNCHANGED wsVars
    /\ p # "http" => UNCHANGED hsVars
    /\ p # "upgrade" => UNCHANGED upVars

MCNext ==
    \/ Only("pool") /\ PoolNext
    \/ Only("sqlite") /\ SqNext
    \/ Only("socket") /\ WsNext
    \/ Only("http") /\ HsNext
    \/ Only("upgrade") /\ UpNext

MCSpec ==
    /\ MCInit /\ [][MCNext]_<<part, poolVars, sqVars, wsVars, hsVars, upVars>>
    /\ PoolFairness /\ SqFairness /\ WsFairness /\ HsFairness

\* The variables of every part keep their types.
TypesOK == PoolTypeOK /\ SqTypeOK /\ WsTypeOK /\ HsTypeOK /\ UpTypeOK

\* What has begun to end ends, in each part: the calls of the pool and its close, the
\* closing handshake, the shutdown of HTTP, and the operations of a SQLite connection.
AllEnds == EveryCallEnds /\ WsEnds /\ HttpCloseEnds /\ SqAnswers
=============================================================================
