------------------------------ MODULE Connections ------------------------------
(***************************************************************************)
(* The WebSocket connection manager and its route (websockets/): one       *)
(* handler a connection, on one event loop; they interleave where they     *)
(* await, when a message is received and at each send of a broadcast.      *)
(***************************************************************************)
EXTENDS Naturals, Sequences, SequencesExt

CONSTANTS Sockets, MaxMessages   \* bound

ASSUME ConnectionsAssumption == MaxMessages \in Nat

VARIABLES
  registered,   \* _active, in the order of the connections
  gauge,        \* ws_metrics' active connections
  peers,        \* the sockets whose peer is there
  handler,      \* handler[c]: "new", "reading", "sending" or "over"
  recipients,   \* recipients[c]: whom its broadcast has still to send to
  messages      \* received so far

socketVars == <<registered, gauge, peers, handler, recipients, messages>>

Connect(c) ==
  /\ handler[c] = "new" /\ handler' = [handler EXCEPT ![c] = "reading"]
  /\ registered' = Append(registered, c) /\ gauge' = gauge + 1 /\ peers' = peers \cup {c}
  /\ UNCHANGED <<recipients, messages>>

\* receive_text returns, and broadcast takes its copy of the list.
ReceiveText(c) ==
  /\ handler[c] = "reading" /\ c \in peers /\ messages < MaxMessages
  /\ messages' = messages + 1
  /\ handler' = [handler EXCEPT ![c] = "sending"]
  /\ recipients' = [recipients EXCEPT ![c] = registered]
  /\ UNCHANGED <<registered, gauge, peers>>

Disconnect(c) ==
  \/ \E i \in DOMAIN registered :
       /\ registered[i] = c /\ registered' = RemoveAt(registered, i)
       /\ gauge' = IF gauge > 0 THEN gauge - 1 ELSE 0
  \/ c \notin Range(registered) /\ UNCHANGED <<registered, gauge>>

\* The handler ends, on whatever was raised; "finally" reaps its socket.
Over(c) ==
  /\ handler' = [handler EXCEPT ![c] = "over"]
  /\ recipients' = [recipients EXCEPT ![c] = <<>>]
  /\ Disconnect(c) /\ UNCHANGED <<peers, messages>>

SendText(c) ==
  /\ handler[c] = "sending" /\ recipients[c] # <<>>
  /\ recipients' = [recipients EXCEPT ![c] = Tail(@)]
  /\ UNCHANGED <<registered, gauge, peers, handler, messages>>

\* Mutant: only a disconnection that is received reaps the socket.
SendFailsUnreaped(c) ==
  /\ handler[c] = "sending" /\ recipients[c] # <<>> /\ Head(recipients[c]) \notin peers
  /\ handler' = [handler EXCEPT ![c] = "over"]
  /\ recipients' = [recipients EXCEPT ![c] = <<>>]
  /\ UNCHANGED <<registered, gauge, peers, messages>>

\* A send to a peer that has gone raises in the handler that broadcasts.
SendFails(c) ==
  /\ handler[c] = "sending" /\ recipients[c] # <<>> /\ Head(recipients[c]) \notin peers
  /\ Over(c)

Sent(c) ==
  /\ handler[c] = "sending" /\ recipients[c] = <<>>
  /\ handler' = [handler EXCEPT ![c] = "reading"]
  /\ UNCHANGED <<registered, gauge, peers, recipients, messages>>

\* receive_text raises WebSocketDisconnect.
ReceiveDisconnect(c) == handler[c] = "reading" /\ c \notin peers /\ Over(c)

PeerLeaves(c) ==
  /\ c \in peers /\ peers' = peers \ {c}
  /\ UNCHANGED <<registered, gauge, handler, recipients, messages>>

SocketsInit ==
  /\ registered = <<>> /\ gauge = 0 /\ peers = {} /\ messages = 0
  /\ handler = [c \in Sockets |-> "new"] /\ recipients = [c \in Sockets |-> <<>>]

Handler(c) == SendText(c) \/ SendFails(c) \/ Sent(c) \/ ReceiveDisconnect(c)

SocketsNext == \E c \in Sockets : Connect(c) \/ ReceiveText(c) \/ Handler(c) \/ PeerLeaves(c)

\* The event loop resumes a handler whose await has ended; a peer that is
\* there takes what it is sent.
SocketsFairness == \A c \in Sockets : WF_socketVars(Handler(c))

SocketsSpec == SocketsInit /\ [][SocketsNext]_socketVars /\ SocketsFairness

-----------------------------------------------------------------------------
\* The gauge counts the sockets registered; one whose handler is over is not
\* among them.
SocketsTypeOK ==
  /\ IsInjective(registered) /\ Range(registered) \subseteq Sockets
  /\ gauge = Len(registered) /\ peers \subseteq Sockets
  /\ \A c \in Sockets : /\ handler[c] = "over" => c \notin Range(registered)
                        /\ recipients[c] \in Seq(Sockets)
  /\ messages \in 0..MaxMessages

\* A dead socket is not left registered, whichever handler meets it first.
GoneAreReaped == []<>(Range(registered) \subseteq peers)
===============================================================================
