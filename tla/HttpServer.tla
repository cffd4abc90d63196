------------------------------ MODULE HttpServer ------------------------------
(***************************************************************************)
(* The end of an HTTP process: the connections of the server that          *)
(* packages/ketjs/src/server/http.ts makes, with what becomes of each when *)
(* close() is called while requests are served, streams are tailed and     *)
(* WebSockets are open or being opened.  Node's server is modelled from    *)
(* how http.ts uses it: close() keeps waiting for every connection, and    *)
(* closeAllConnections does not reach one that was upgraded.  What a       *)
(* WebSocket does once it is asked to leave is the module WebSocket.       *)
(***************************************************************************)
EXTENDS Naturals

CONSTANTS Connections

VARIABLES
    hsConn,     \* the connections
    hsPhase,    \* the server: listening, closing, or closed once close() resolved
    hsGrace,    \* the timer of shutdownGraceMs: none, running, fired or cleared
    hsAsked,    \* the WebSockets that were told 1001
    hsPeers,    \* peers
    hsStreams,  \* liveStreams
    hsLate      \* the connections with an upgrade under way, or refused, after close()

hsVars == <<hsConn, hsPhase, hsGrace, hsAsked, hsPeers, hsStreams, hsLate>>

\* upgrading: the upgrade handler awaits the rate limit or the route; refused: it wrote
\* an answer and ended its side.
ConnStates == {"none", "idle", "request", "stream", "upgrading", "refused", "socket", "gone"}

HsInit ==
    /\ hsConn = [c \in Connections |-> "none"]
    /\ hsPhase = "listening"
    /\ hsGrace = "none"
    /\ hsAsked = {} /\ hsPeers = {} /\ hsStreams = {} /\ hsLate = {}

-----------------------------------------------------------------------------
HsMoves(c, from, to) ==
    /\ hsConn[c] \in from
    /\ hsConn' = [hsConn EXCEPT ![c] = to]

Accept(c) ==
    /\ hsPhase = "listening"
    /\ HsMoves(c, {"none"}, "idle")
    /\ UNCHANGED <<hsPhase, hsGrace, hsAsked, hsPeers, hsStreams, hsLate>>

\* A request on a connection that is kept alive is served while the server closes, too.
Begins(c) ==
    /\ HsMoves(c, {"idle"}, "request")
    /\ UNCHANGED <<hsPhase, hsGrace, hsAsked, hsPeers, hsStreams, hsLate>>

\* isWebSocketUpgrade: the request leaves the HTTP path.
BeginsUpgrade(c) ==
    /\ HsMoves(c, {"idle"}, "upgrading")
    /\ hsLate' = IF hsPhase = "listening" THEN hsLate ELSE hsLate \union {c}
    /\ UNCHANGED <<hsPhase, hsGrace, hsAsked, hsPeers, hsStreams>>

Answer(c) ==
    /\ HsMoves(c, {"request"}, "idle") \/ HsMoves(c, {"request"}, "gone")
    /\ UNCHANGED <<hsPhase, hsGrace, hsAsked, hsPeers, hsStreams, hsLate>>

\* /_ket/stream, once resolveStream has answered
TailStream(c) ==
    /\ HsMoves(c, {"request"}, "stream")
    /\ hsStreams' = hsStreams \union {c}
    /\ UNCHANGED <<hsPhase, hsGrace, hsAsked, hsPeers, hsLate>>

\* The log ended or the tail timed out.
StreamEnds(c) ==
    /\ HsMoves(c, {"stream"}, "idle")
    /\ hsStreams' = hsStreams \ {c}
    /\ UNCHANGED <<hsPhase, hsGrace, hsAsked, hsPeers, hsLate>>

\* Mutant: an accepted socket is not among the peers.
JoinsNever(c) == hsPeers

JoinsPeers(c) == hsPeers \union {c}

\* The route answers an upgrade: with a WebSocket ..
AcceptSocket(c) ==
    /\ HsMoves(c, {"upgrading"}, "socket")
    /\ hsPeers' = JoinsPeers(c)
    /\ UNCHANGED <<hsPhase, hsGrace, hsAsked, hsStreams, hsLate>>

\* .. or with an answer, or it throws.
RejectUpgrade(c) ==
    /\ HsMoves(c, {"upgrading"}, "refused")
    /\ UNCHANGED <<hsPhase, hsGrace, hsAsked, hsPeers, hsStreams, hsLate>>

\* A WebSocket that was asked to leave ends; its observer's closed forgets it.
SocketLeaves(c) ==
    /\ c \in hsAsked
    /\ HsMoves(c, {"socket"}, "gone")
    /\ hsPeers' = hsPeers \ {c}
    /\ UNCHANGED <<hsPhase, hsGrace, hsAsked, hsStreams, hsLate>>

ClientLeaves(c) ==
    /\ HsMoves(c, ConnStates \ {"none", "gone"}, "gone")
    /\ hsPeers' = hsPeers \ {c} /\ hsStreams' = hsStreams \ {c}
    /\ UNCHANGED <<hsPhase, hsGrace, hsAsked, hsLate>>

-----------------------------------------------------------------------------
\* closeIdleConnections, after every stream was ended.
EndsAtOnce(state) == state \in {"idle", "stream"}

Close ==
    /\ hsPhase = "listening"
    /\ hsPhase' = "closing"
    /\ hsAsked' = hsPeers
    /\ hsStreams' = {}
    /\ hsGrace' = "running"
    /\ hsConn' = [c \in Connections |-> IF EndsAtOnce(hsConn[c]) THEN "gone" ELSE hsConn[c]]
    /\ hsLate' = { c \in Connections : hsConn[c] \in {"upgrading", "refused"} }
    /\ UNCHANGED hsPeers

\* Mutant: a stream that began after close() goes on.
DropsNoStream(state) == state \in {"idle", "request"}

\* What closeAllConnections reaches.
Drops(state) == state \in {"idle", "request", "stream"}

GraceEnds ==
    /\ hsGrace = "running"
    /\ hsGrace' = "fired"
    /\ hsConn' = [c \in Connections |-> IF Drops(hsConn[c]) THEN "gone" ELSE hsConn[c]]
    /\ hsStreams' = {}
    /\ UNCHANGED <<hsPhase, hsAsked, hsPeers, hsLate>>

\* The callback of server.close: the last connection is gone.
Closed ==
    /\ hsPhase = "closing"
    /\ \A c \in Connections : hsConn[c] \in {"none", "gone"}
    /\ hsPhase' = "closed"
    /\ hsGrace' = IF hsGrace = "running" THEN "cleared" ELSE hsGrace
    /\ UNCHANGED <<hsConn, hsAsked, hsPeers, hsStreams, hsLate>>

HsNext ==
    \/ \E c \in Connections :
         \/ Accept(c) \/ Begins(c) \/ BeginsUpgrade(c) \/ Answer(c) \/ TailStream(c) \/ StreamEnds(c)
         \/ AcceptSocket(c) \/ RejectUpgrade(c) \/ SocketLeaves(c) \/ ClientLeaves(c)
    \/ Close \/ GraceEnds \/ Closed

HsSpec == HsInit /\ [][HsNext]_hsVars

\* The timer fires, Node calls back when the last connection is gone, and a WebSocket that
\* was told to leave does (WsEnds); nothing is assumed of the clients or of the routes.
HsFairness ==
    /\ WF_hsVars(GraceEnds)
    /\ WF_hsVars(Closed)
    /\ \A c \in Connections : WF_hsVars(SocketLeaves(c))

HsFairSpec == HsSpec /\ HsFairness

-----------------------------------------------------------------------------
HsTypeOK ==
    /\ hsConn \in [Connections -> ConnStates]
    /\ hsPhase \in {"listening", "closing", "closed"}
    /\ hsGrace \in {"none", "running", "fired", "cleared"}
    /\ hsAsked \subseteq Connections /\ hsPeers \subseteq Connections
    /\ hsStreams \subseteq Connections /\ hsLate \subseteq Connections

\* A connection that close() has done what it can about: it is gone, or a WebSocket that was
\* told to leave, or its upgrade was under way, refused or begun when nothing in close() looks
\* at upgrades any more.
Reached(c) ==
    \/ hsConn[c] \in {"none", "gone"}
    \/ hsConn[c] = "socket" /\ c \in hsAsked
    \/ c \in hsLate

\* Whatever requests, streams and upgrades do while the server shuts down, an open WebSocket
\* was told to leave or came of a late upgrade; once the grace has ended nothing is left that
\* close() has not reached; and a server that is closed has no connection, stream or peer.
HttpKept ==
    /\ hsPhase # "listening" => \A c \in Connections : hsConn[c] = "socket" => Reached(c)
    /\ hsGrace = "fired" => \A c \in Connections : Reached(c)
    /\ hsPhase = "closed" =>
         /\ \A c \in Connections : hsConn[c] \in {"none", "gone"}
         /\ hsPeers = {} /\ hsStreams = {} /\ hsGrace # "running"

\* close() ends although requests hang, streams never end and clients hold on to their
\* connections and sockets, unless an upgrade was under way or refused when it was called,
\* or came after: nothing in it reaches those.
HttpCloseEnds == hsPhase = "closing" ~> hsPhase = "closed" \/ hsLate # {}

\* http.md: "close() on the server sends 1001 to every open socket."
EverySocketIsAsked ==
    hsPhase = "closing" => \A c \in Connections : hsConn[c] = "socket" => c \in hsAsked
=============================================================================
