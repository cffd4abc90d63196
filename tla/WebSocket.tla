------------------------------ MODULE WebSocket ------------------------------
(***************************************************************************)
(* One accepted connection of packages/ketjs/src/server/websocket.ts: the  *)
(* frames of a client are parsed and reassembled, the route sends and      *)
(* closes, a timer pings and another one ends a closing handshake the peer *)
(* does not answer.  Everything between two awaits of the event loop is    *)
(* one step, so that reading a frame is a step with the handler it calls.  *)
(*                                                                         *)
(* A payload is its size, in units, and the message and part it belongs    *)
(* to.  The client sends frames in any legal order and may break the       *)
(* protocol; after its close frame it sends nothing.                       *)
(***************************************************************************)
EXTENDS Naturals, Sequences

LOCAL INSTANCE SequencesExt

CONSTANTS
    Messages,       \* bound: the messages a client sends
    Parts,          \* bound: the frames of one message
    Sizes,          \* the sizes of a frame
    InFlight,       \* bound: the frames on their way
    Faulty,         \* whether the client may break the protocol
    MaxMessage,     \* maxMessageBytes
    MaxBuffered,    \* maxBufferedBytes
    NoCode          \* no close code yet

ASSUME WebSocketAssumption ==
    /\ Messages \in Nat \ {0} /\ Parts \in Nat \ {0}
    /\ Sizes \subseteq Nat \ {0} /\ InFlight \in Nat \ {0} /\ Faulty \in BOOLEAN
    /\ MaxMessage \in Nat \ {0} /\ MaxBuffered \in Nat
    /\ NoCode \notin Nat

VARIABLES
    wsServer,       \* what acceptWebSocket closes over, and its socket
    wsWire,         \* the frames on their way from the client
    wsSent,         \* the data frames the client has sent of each message, in order
    wsClient,       \* the client: the message it is in, and whether it is done
    wsDelivered     \* what session.message was called with: the frames of each message

wsVars == <<wsServer, wsWire, wsSent, wsClient, wsDelivered>>

Frame == [op : {"text", "cont", "close", "ping", "pong", "bad"}, fin : BOOLEAN,
          size : Sizes \union {0}, msg : 0 .. Messages, part : 0 .. Parts]

Control(op) == [op |-> op, fin |-> TRUE, size |-> 0, msg |-> 0, part |-> 0]
IsControl(f) == f.op \in {"close", "ping", "pong"}

NormalClosure == 1000
GoingAway == 1001
ProtocolError == 1002
AbnormalClosure == 1006
TooLarge == 1009
InternalError == 1011
Overflow == 1013
Codes == {NormalClosure, GoingAway, ProtocolError, AbnormalClosure, TooLarge, InternalError, Overflow}

Server ==
    [state     : {"asked", "refused", "open", "closing", "closed"},
     received  : {NoCode, NormalClosure},       \* the peer's close frame
     local     : Codes \union {NoCode},         \* localCode
     fragments : Seq(Frame),                    \* fragments, <<>> for null
     bytes     : Nat,                           \* fragmentBytes
     alive     : BOOLEAN,                       \* something arrived since the last ping
     timer     : BOOLEAN,                       \* closeTimer is set
     paused    : BOOLEAN,                       \* the socket is not read any more
     ended     : BOOLEAN,                       \* socket.end() was called
     destroyed : BOOLEAN,                       \* socket.destroy() was called
     buffered  : Nat,                           \* writableLength
     closes    : Nat,                           \* close frames written
     late      : BOOLEAN,                       \* the handlers were set on a socket that was gone
     afterwards : BOOLEAN,                      \* a frame was written after a close frame
     told      : Seq(Codes)]                    \* the calls of session.close

WsInit ==
    /\ wsServer = [state |-> "asked", received |-> NoCode, local |-> NoCode, fragments |-> <<>>,
                   bytes |-> 0, alive |-> TRUE, timer |-> FALSE, paused |-> FALSE, ended |-> FALSE,
                   destroyed |-> FALSE, buffered |-> 0, closes |-> 0, late |-> FALSE,
                   afterwards |-> FALSE, told |-> <<>>]
    /\ wsWire = <<>>
    /\ wsSent = [m \in 1 .. Messages |-> <<>>]
    /\ wsClient = [msg |-> 0, part |-> 0, done |-> FALSE, ended |-> FALSE]
    /\ wsDelivered = <<>>

-----------------------------------------------------------------------------
(* The functions of the module, as what they make of the server's state.   *)

\* write: nothing reaches a socket that was destroyed or ended.
Written(w, kind) ==
    IF w.destroyed \/ w.ended THEN w
    ELSE [w EXCEPT !.closes = IF kind = "close" THEN @ + 1 ELSE @,
                   !.afterwards = @ \/ w.closes > 0,
                   !.buffered = IF kind = "data" THEN @ + 1 ELSE @]

WrittenWhileOpen(w, kind) == IF w.state = "open" THEN Written(w, kind) ELSE w

\* terminate: the connection is dropped, without a handshake.
Terminated(w, code) ==
    [w EXCEPT !.local = IF @ = NoCode THEN code ELSE @, !.state = "closed", !.destroyed = TRUE]

\* startClose: the timer gives the peer a while to answer.
CloseStarted(w, code) ==
    IF w.state # "open" THEN w
    ELSE [Written(w, "close") EXCEPT !.state = "closing", !.local = code, !.timer = TRUE]

\* fail: nothing more of this peer is read.
Failed(w, code) == [CloseStarted(w, code) EXCEPT !.paused = TRUE]

Oversized(w, f) == ~IsControl(f) /\ w.bytes + f.size > MaxMessage

\* What the protocol forbids: a new message inside one, or the rest of none.
\* Mutant: a message may begin before the last one has ended.
OutOfTurnUnlessRest(w, f) == f.op = "bad" \/ (f.op = "cont" /\ w.fragments = <<>>)

OutOfTurn(w, f) ==
    \/ f.op = "bad"
    \/ f.op = "cont" /\ w.fragments = <<>>
    \/ f.op = "text" /\ w.fragments # <<>>

\* A message is whole with its last frame; only a fragmented one resets the count.
Joined(w, f) ==
    CASE f.op = "text" /\ f.fin  -> w
      [] f.op = "text" /\ ~f.fin -> [w EXCEPT !.fragments = <<f>>]
      [] f.op = "cont" /\ f.fin  -> [w EXCEPT !.fragments = <<>>, !.bytes = 0]
      [] OTHER                   -> [w EXCEPT !.fragments = Append(@, f)]

\* The peer's close frame is echoed, unless it is the answer to ours; then we end.
Echoed(w) ==
    [(IF w.state = "open" THEN [Written(w, "close") EXCEPT !.state = "closing"] ELSE w)
        EXCEPT !.received = NormalClosure, !.ended = TRUE]

\* handle, with the size check of parse before it.
Handled(w, f) ==
    LET counted == [w EXCEPT !.bytes = IF IsControl(f) THEN @ ELSE @ + f.size] IN
    CASE f.op = "close" -> Echoed(w)
      [] f.op = "ping"  -> WrittenWhileOpen(w, "pong")
      [] f.op = "pong"  -> w
      [] Oversized(w, f) -> Failed(w, TooLarge)
      [] OTHER -> IF OutOfTurn(counted, f) THEN Failed(counted, ProtocolError)
                  ELSE Joined(counted, f)

Delivers(w, f) == f.op \in {"text", "cont"} /\ f.fin /\ ~Oversized(w, f) /\ ~OutOfTurn(w, f)

-----------------------------------------------------------------------------
(* The client.                                                             *)

SendFrame(f, client) ==
    /\ ~wsClient.done /\ ~wsServer.destroyed
    /\ Len(wsWire) < InFlight
    /\ wsWire' = Append(wsWire, f)
    /\ wsSent' = IF f.op \in {"text", "cont"} THEN [wsSent EXCEPT ![f.msg] = Append(@, f)] ELSE wsSent
    /\ wsClient' = client
    /\ UNCHANGED <<wsServer, wsDelivered>>

\* A message begins; a faulty client begins one inside another and leaves that unfinished.
ClientMessage(size, fin) ==
    /\ wsClient.msg < Messages
    /\ wsClient.part = 0 \/ Faulty
    /\ fin \/ Parts > 1
    /\ SendFrame([op |-> "text", fin |-> fin, size |-> size, msg |-> wsClient.msg + 1, part |-> 1],
                 [wsClient EXCEPT !.msg = @ + 1, !.part = IF fin THEN 0 ELSE 1])

ClientContinue(size, fin) ==
    /\ wsClient.part \in 1 .. Parts - 1
    /\ fin \/ wsClient.part < Parts - 1
    /\ SendFrame([op |-> "cont", fin |-> fin, size |-> size, msg |-> wsClient.msg, part |-> wsClient.part + 1],
                 [wsClient EXCEPT !.part = IF fin THEN 0 ELSE @ + 1])

ClientControl == \E op \in {"ping", "pong"} : SendFrame(Control(op), wsClient)

ClientBreaksProtocol ==
    /\ Faulty
    /\ SendFrame(Control("bad"), [wsClient EXCEPT !.done = TRUE])

ClientCloses == SendFrame(Control("close"), [wsClient EXCEPT !.done = TRUE])

\* The client ends its side, with or without a close frame.
ClientEnds ==
    /\ ~wsClient.ended
    /\ wsClient' = [wsClient EXCEPT !.done = TRUE, !.ended = TRUE]
    /\ UNCHANGED <<wsServer, wsWire, wsSent, wsDelivered>>

\* The connection is reset.
ClientVanishes ==
    /\ ~wsServer.destroyed
    /\ wsServer' = [wsServer EXCEPT !.destroyed = TRUE]
    /\ wsClient' = [wsClient EXCEPT !.done = TRUE]
    /\ UNCHANGED <<wsWire, wsSent, wsDelivered>>

ClientReads ==
    /\ wsServer.buffered > 0
    /\ wsServer' = [wsServer EXCEPT !.buffered = 0]
    /\ UNCHANGED <<wsWire, wsSent, wsClient, wsDelivered>>

-----------------------------------------------------------------------------
(* The server.                                                             *)

Accepted(w) == w.state \notin {"asked", "refused"}

\* acceptWebSocket: the route has let the request in, after awaits of its own, and the
\* checks of the handshake pass; it does not ask whether the socket is still there, and
\* one whose 'close' was emitted before does not emit it again.
WsAccept ==
    /\ wsServer.state = "asked"
    /\ wsServer' = [wsServer EXCEPT !.state = "open", !.late = wsServer.destroyed]
    /\ UNCHANGED <<wsWire, wsSent, wsClient, wsDelivered>>

\* rejectUpgrade: the request is answered and the connection closed.
WsRefuse ==
    /\ wsServer.state = "asked"
    /\ wsServer' = [wsServer EXCEPT !.state = "refused", !.ended = TRUE]
    /\ UNCHANGED <<wsWire, wsSent, wsClient, wsDelivered>>

\* onData with one frame; the handler of the route is called in it.
OnData ==
    /\ wsWire # <<>> /\ Accepted(wsServer) /\ ~wsServer.paused /\ ~wsServer.destroyed
    /\ LET f == Head(wsWire)
           w == [wsServer EXCEPT !.alive = TRUE]
       IN /\ wsServer' = IF w.state = "closed" THEN w ELSE Handled(w, f)
          /\ wsDelivered' = IF w.state # "closed" /\ Delivers(w, f)
                            THEN Append(wsDelivered, Append(w.fragments, f))
                            ELSE wsDelivered
    /\ wsWire' = Tail(wsWire)
    /\ UNCHANGED <<wsSent, wsClient>>

\* The promise of the route's open or message rejects, now or later.
HandlerFails ==
    /\ Accepted(wsServer) /\ ~wsServer.paused /\ wsServer.told = <<>>
    /\ wsServer' = Failed(wsServer, InternalError)
    /\ UNCHANGED <<wsWire, wsSent, wsClient, wsDelivered>>

\* peer.send
PeerSend ==
    /\ wsServer.state = "open"
    /\ wsServer' = IF wsServer.buffered > MaxBuffered THEN Terminated(wsServer, Overflow)
                   ELSE Written(wsServer, "data")
    /\ UNCHANGED <<wsWire, wsSent, wsClient, wsDelivered>>

\* peer.close
PeerClose ==
    /\ wsServer.state = "open"
    /\ wsServer' = CloseStarted(wsServer, GoingAway)
    /\ UNCHANGED <<wsWire, wsSent, wsClient, wsDelivered>>

Silent(w) == ~w.alive

\* The ping timer: a peer that has sent nothing for a whole interval is dropped.
Heartbeat ==
    /\ Accepted(wsServer) /\ wsServer.told = <<>>
    /\ wsServer' = IF Silent(wsServer) THEN Terminated(wsServer, AbnormalClosure)
                   ELSE WrittenWhileOpen([wsServer EXCEPT !.alive = FALSE], "ping")
    /\ UNCHANGED <<wsWire, wsSent, wsClient, wsDelivered>>

CloseTimeout ==
    /\ wsServer.timer /\ wsServer.told = <<>> /\ ~wsServer.destroyed
    /\ wsServer' = [wsServer EXCEPT !.destroyed = TRUE]
    /\ UNCHANGED <<wsWire, wsSent, wsClient, wsDelivered>>

\* The socket's 'end', once what came before has been read.
SocketEnd ==
    /\ wsClient.ended /\ wsWire = <<>> /\ Accepted(wsServer)
    /\ ~wsServer.paused /\ ~wsServer.destroyed /\ ~wsServer.ended
    /\ wsServer' = [wsServer EXCEPT !.ended = TRUE]
    /\ UNCHANGED <<wsWire, wsSent, wsClient, wsDelivered>>

\* The socket's 'close': the code the route is told.
ToldCode(w) ==
    IF w.received # NoCode THEN w.received
    ELSE IF w.local = Overflow THEN Overflow ELSE AbnormalClosure

SocketClosed ==
    /\ Accepted(wsServer) /\ ~wsServer.late /\ wsServer.told = <<>>
    /\ wsServer.destroyed \/ (wsServer.ended /\ wsClient.ended /\ wsWire = <<>>)
    /\ wsServer' = [wsServer EXCEPT !.state = "closed", !.timer = FALSE, !.destroyed = TRUE,
                                    !.told = Append(@, ToldCode(wsServer))]
    /\ UNCHANGED <<wsWire, wsSent, wsClient, wsDelivered>>

WsNext ==
    \/ \E size \in Sizes, fin \in BOOLEAN : ClientMessage(size, fin) \/ ClientContinue(size, fin)
    \/ ClientControl \/ ClientBreaksProtocol \/ ClientCloses \/ ClientEnds \/ ClientVanishes \/ ClientReads
    \/ WsAccept \/ WsRefuse \/ OnData \/ HandlerFails \/ PeerSend \/ PeerClose
    \/ Heartbeat \/ CloseTimeout \/ SocketEnd \/ SocketClosed

WsSpec == WsInit /\ [][WsNext]_wsVars

\* The event loop fires its timers and emits 'close' on a socket it has destroyed;
\* nothing is assumed of the client or of the route.
WsFairness ==
    /\ WF_wsVars(Heartbeat)
    /\ WF_wsVars(CloseTimeout)
    /\ WF_wsVars(SocketClosed /\ wsServer.destroyed)

-----------------------------------------------------------------------------
WsTypeOK ==
    /\ wsServer \in Server
    /\ wsWire \in Seq(Frame)
    /\ wsSent \in [1 .. Messages -> Seq(Frame)]
    /\ wsClient \in [msg : 0 .. Messages, part : 0 .. Parts - 1, done : BOOLEAN, ended : BOOLEAN]
    /\ wsDelivered \in Seq(Seq(Frame))

\* What the route is given are the client's messages, each whole and in the order they were
\* sent, whatever control frames come between their parts and however the connection ends.
WsInOrder ==
    \A i \in DOMAIN wsDelivered :
        wsDelivered[i] = wsSent[i] /\ wsDelivered[i][Len(wsDelivered[i])].fin

\* At most one close frame is written and nothing follows it, whoever began the handshake and
\* whatever the route, the timers and the client do meanwhile; the route hears of the end once.
WsHandshake ==
    /\ wsServer.closes <= 1 /\ ~wsServer.afterwards
    /\ Len(wsServer.told) <= 1
    /\ wsServer.told # <<>> => wsServer.state = "closed" /\ ~wsServer.timer

\* What a connection keeps, for its route and for its peer: both of the above.
WsKept == WsInOrder /\ WsHandshake

\* A connection that has begun to close ends, and its route is told, although the client may
\* never answer, never end its side and never read; so does one whose client falls silent.
\* (Not one that was reset while the route was still deciding: WsToldOfEveryEnd.)
WsEnds ==
    Accepted(wsServer) /\ wsServer.state # "open" /\ ~wsServer.late ~> wsServer.told # <<>>

SizeOf(m) == FoldSeq(LAMBDA f, total : total + f.size, 0, wsSent[m])

\* http.md documents maxMessageBytes as the "Largest reassembled message; larger closes with
\* 1009": the connection is closed with 1009 only after a message larger than that.
WsLimitIsPerMessage ==
    wsServer.local = TooLarge => \E m \in 1 .. Messages : SizeOf(m) > MaxMessage
=============================================================================
