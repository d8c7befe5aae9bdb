--------------------------- MODULE CdpConnection ---------------------------
(***************************************************************************)
(* The runner's connection to the browser: the WebSocket client of ws.js   *)
(* and the commands of CdpConnection over it (cdp.js).                     *)
(*                                                                         *)
(* The socket carries units: the halves of the upgrade response, then for  *)
(* each frame its header half and the half that completes it.  TCP hands   *)
(* them over in chunks of any length, and a chunk is handled in one turn   *)
(* of the event loop.                                                      *)
(***************************************************************************)
EXTENDS Naturals, Sequences, SequencesExt

CONSTANTS
    Commands,      \* ids of CDP commands
    WireLimit      \* units in flight the browser side is explored to

VARIABLES
    wire,          \* units the browser wrote and the client has not received
    upgraded,      \* whether the browser answered the upgrade
    ended,         \* whether the browser's side of the socket has ended
    socket,        \* the client's half: readyState, buffer, fragments
    connect,       \* the promise of MiniWebSocket.connect
    pending,       \* CdpConnection._pending
    command,       \* what became of each command
    answered       \* commands the browser has answered

cdpVars == <<wire, upgraded, ended, socket, connect, pending, command, answered>>

Events == {"event"}
Texts  == Commands \cup Events
NoText == "none"
(* A unit: the opcode, the FIN bit, the message it belongs to, and whether *)
(* the frame is complete with it.                                          *)
Unit(op, fin, text) == <<[op |-> op, fin |-> fin, text |-> text, last |-> FALSE],
                         [op |-> op, fin |-> fin, text |-> text, last |-> TRUE]>>
Upgrade  == Unit("upgrade", TRUE, NoText)
Frame(t) == Unit("text", TRUE, t)
Split(t) == Unit("text", FALSE, t) \o Unit("cont", TRUE, t)
(* Control frames may come between the fragments of a message. *)
Interleaved(t) == Unit("text", FALSE, t) \o Unit("ping", TRUE, NoText) \o Unit("cont", TRUE, t)

TypeOK ==
    /\ Len(wire) <= WireLimit + 6
    /\ upgraded \in BOOLEAN /\ ended \in BOOLEAN
    /\ socket \in [state : {"connecting", "open", "closing", "closed"}, handshake : BOOLEAN,
                   header : BOOLEAN, fragment : Texts \cup {NoText}]
    /\ connect \in {"waiting", "open", "failed"}
    /\ pending \subseteq Commands /\ answered \subseteq Commands
    /\ command \in [Commands -> {"none", "sent", "ok", "timeout", "failed", "refused"}]

Init ==
    /\ wire = <<>> /\ upgraded = FALSE /\ ended = FALSE
    /\ socket = [state |-> "connecting", handshake |-> FALSE, header |-> FALSE, fragment |-> NoText]
    /\ connect = "waiting"
    /\ pending = {}
    /\ command = [c \in Commands |-> "none"]
    /\ answered = {}

-----------------------------------------------------------------------------
(* The browser.                                                            *)

Writes(units) ==
    /\ ~ended
    /\ Len(wire) <= WireLimit
    /\ wire' = wire \o units
    /\ UNCHANGED <<ended, socket, connect, pending, command>>

AnswersUpgrade ==
    /\ ~upgraded
    /\ Writes(Upgrade)
    /\ upgraded' = TRUE
    /\ UNCHANGED answered

Answers(c) ==
    /\ command[c] \in {"sent", "timeout"}
    /\ c \notin answered
    /\ \/ Writes(Frame(c)) \/ Writes(Split(c)) \/ Writes(Interleaved(c))
    /\ answered' = answered \cup {c}
    /\ UNCHANGED upgraded

Emits ==
    /\ upgraded
    /\ \/ Writes(Frame("event")) \/ Writes(Unit("close", TRUE, NoText)) \/ Writes(Unit("odd", TRUE, NoText))
    /\ UNCHANGED <<upgraded, answered>>

BrowserEnds ==
    /\ ~ended
    /\ ended' = TRUE
    /\ UNCHANGED <<wire, upgraded, socket, connect, pending, command, answered>>

-----------------------------------------------------------------------------
(* The client.  One unit changes what the client is; what it is within a   *)
(* chunk is a record of the client's variables.                            *)

Client == [socket |-> socket, connect |-> connect, pending |-> pending, command |-> command]

(* _rejectAll, on "close", "error" and dispose: nothing is left waiting.   *)
RejectAll(c) == [c EXCEPT !.pending = {},
                          !.command = [k \in Commands |-> IF k \in c.pending THEN "failed" ELSE @[k]]]

(* _fail and the close frame: the state is closed before anyone is told.   *)
Failed(c) == [RejectAll(c) EXCEPT !.socket.state = "closed",
                                  !.connect = IF @ = "waiting" THEN "failed" ELSE @]
Closed(c) == [RejectAll(c) EXCEPT !.socket.state = "closed"]

DeliveredInTurn(c, text) ==
    IF c.pending # {} /\ text \in Commands
    THEN LET k == CHOOSE x \in c.pending : TRUE
         IN  [c EXCEPT !.pending = @ \ {k}, !.command[k] = "ok"]
    ELSE c

(* _onMessage: an answer nobody waits for any more is dropped. *)
Delivered(c, text) ==
    IF text \in c.pending
    THEN [c EXCEPT !.pending = @ \ {text}, !.command[text] = "ok"]
    ELSE c

(* _tryHandshake, then _tryReadFrame and _handleFrame.  An incomplete      *)
(* frame stays in the buffer.                                              *)
Takes(c, u) ==
    IF c.socket.state = "closed" THEN c
    ELSE IF ~u.last THEN [c EXCEPT !.socket.header = TRUE]
    ELSE LET read == [c EXCEPT !.socket.header = FALSE] IN
         IF ~c.socket.handshake
         THEN IF u.op = "upgrade"
              THEN [read EXCEPT !.socket.handshake = TRUE, !.socket.state = "open", !.connect = "open"]
              ELSE Failed(c)
         ELSE CASE u.op = "ping"           -> read
                [] u.op = "text" /\ u.fin  -> Delivered(read, u.text)
                [] u.op = "text" /\ ~u.fin -> [read EXCEPT !.socket.fragment = u.text]
                [] u.op = "cont"           ->
                      Delivered([read EXCEPT !.socket.fragment = NoText], c.socket.fragment)
                [] u.op = "close"          -> Closed(read)
                [] OTHER                   -> Failed(read)

Chunk(units) ==
    LET after[n \in 0..Len(units)] == IF n = 0 THEN Client ELSE Takes(after[n - 1], units[n])
    IN  after[Len(units)]

Becomes(c) ==
    /\ socket' = c.socket
    /\ connect' = c.connect
    /\ pending' = c.pending
    /\ command' = c.command

OnData ==
    \E n \in 1..Len(wire) :
        /\ socket.state # "closed"
        /\ wire' = SubSeq(wire, n + 1, Len(wire))
        /\ Becomes(Chunk(SubSeq(wire, 1, n)))
        /\ UNCHANGED <<upgraded, ended, answered>>

(* The socket's "error": connect is told when it still waits. *)
SocketFails ==
    /\ socket.state # "closed"
    /\ ended
    /\ Becomes(Failed(Client))
    /\ UNCHANGED <<wire, upgraded, ended, answered>>

(* The socket's "close" without an error clears the timer of the handshake *)
(* and emits "close", which connect does not listen to.                    *)
SocketCloses ==
    /\ socket.state # "closed"
    /\ ended \/ socket.state = "closing"
    /\ Becomes(Closed(Client))
    /\ UNCHANGED <<wire, upgraded, ended, answered>>

HandshakeTimesOut ==
    /\ socket.state = "connecting" /\ ~socket.handshake
    /\ Becomes(Failed(Client))
    /\ UNCHANGED <<wire, upgraded, ended, answered>>

(* send: a socket that is not open refuses, and the entry goes again.      *)
Send(c) ==
    /\ connect = "open"
    /\ command[c] = "none"
    /\ \/ /\ socket.state = "open"
          /\ pending' = pending \cup {c}
          /\ command' = [command EXCEPT ![c] = "sent"]
       \/ /\ socket.state # "open"
          /\ command' = [command EXCEPT ![c] = "refused"]
          /\ UNCHANGED pending
    /\ UNCHANGED <<wire, upgraded, ended, socket, connect, answered>>

CommandTimesOut(c) ==
    /\ c \in pending
    /\ pending' = pending \ {c}
    /\ command' = [command EXCEPT ![c] = "timeout"]
    /\ UNCHANGED <<wire, upgraded, ended, socket, connect, answered>>

(* dispose: everything waiting is rejected and the socket destroyed soon. *)
Dispose ==
    /\ socket.state = "open"
    /\ Becomes([RejectAll(Client) EXCEPT !.socket.state = "closing"])
    /\ UNCHANGED <<wire, upgraded, ended, answered>>

Next ==
    \/ AnswersUpgrade \/ Emits \/ BrowserEnds
    \/ \E c \in Commands : Answers(c) \/ Send(c) \/ CommandTimesOut(c)
    \/ OnData \/ SocketFails \/ SocketCloses \/ HandshakeTimesOut \/ Dispose

Spec == Init /\ [][Next]_cdpVars

(* Node delivers what arrived, closes an ended socket and runs its timers. *)
FairSpec ==
    /\ Spec
    /\ WF_cdpVars(OnData) /\ WF_cdpVars(SocketCloses) /\ WF_cdpVars(HandshakeTimesOut)
    /\ \A c \in Commands : WF_cdpVars(CommandTimesOut(c))

-----------------------------------------------------------------------------
(* A command is settled once and by its own answer; on a closed connection *)
(* none waits.  While it is open, an answer the browser gave is still to   *)
(* come or has settled its command: no chunk or fragment boundary loses it.*)
InFlight(c) == \E i \in 1..Len(wire) : wire[i].text = c
AnswersReachTheirCommands ==
    /\ \A c \in Commands :
          /\ command[c] = "ok" => c \in answered
          /\ c \in pending <=> command[c] = "sent"
          /\ c \in answered /\ c \in pending => InFlight(c)
    /\ socket.state = "closed" => pending = {}

(* Connecting comes to an end. *)
ConnectSettles == <>(connect # "waiting")
=============================================================================
