----------------------------- MODULE Connection -----------------------------
(***************************************************************************)
(* The life of the connection of class NATS (nats_client.h): connect() and *)
(* its loop over the servers, the handshake that recv() performs on INFO,  *)
(* disconnect(), connect_async(), and the part of process() that notices a *)
(* lost link and reconnects after a delay.  The same code runs over three  *)
(* links: the client's own socket ("none": no transport object), a         *)
(* TcpTransport ("tcp") and a WebSocketTransport ("ws").                   *)
(*                                                                         *)
(* One task runs process() and connect(); the server, the network, the     *)
(* clock and other application tasks (connect_async, disconnect) take      *)
(* steps in between.  Only what the life of the connection depends on is   *)
(* kept of a message: INFO, INFO that asks for a TLS upgrade that fails,   *)
(* -ERR, and end of file.                                                  *)
(***************************************************************************)
EXTENDS Integers, FiniteSets

CONSTANTS
  Links,           \* the links in question: a subset of {"none", "tcp", "ws"}
  Named,           \* server_count: servers given to the constructor
  Servers,         \* those of them with a valid port, which are in the list
  MaxAttempts,     \* max_reconnect_attempts, -1 for no maximum
  AttemptCap,      \* bound: reconnect_attempts counts this far
  Calls            \* what the application calls: a subset of AppCalls

ASSUME LinksAssumption == Links \subseteq {"none", "tcp", "ws"}
ASSUME ServersAssumption == Named \in Nat /\ Servers \in 0 .. Named
ASSUME AttemptsAssumption ==
  /\ MaxAttempts \in Int
  /\ AttemptCap \in Nat /\ AttemptCap > MaxAttempts
AppCalls == {"connect", "connect_async", "disconnect"}
ASSUME CallsAssumption == Calls \subseteq AppCalls

VARIABLES
  client,          \* the members of class NATS a disconnect() touches, and
                   \* the other end of the link
  attempts,        \* reconnect_attempts
  idx,             \* current_server_idx
  listed,          \* servers.size()
  pc,              \* where the task of process() and connect() is
  caller,          \* who called the running connect()
  start,           \* connect(): start_idx
  result,          \* connect(): what it returns
  calm,            \* from now on network, servers, memory and application behave
  tried            \* history: servers the running connect() has tried

vars == <<client, attempts, idx, listed, pc, caller, start, result, calm, tried>>

\* The client begins with an index below server_count, whatever became of the
\* list, and never goes beyond.
Longest == IF Named > 1 THEN Named ELSE 1
ServerIdx == 0 .. Longest - 1

\* An entry that nobody wrote: whatever the memory holds is taken for a server.
Unlisted == idx >= Servers

ClientRecord ==
  [link : Links,             \* transport: none, or of which class
   connected : BOOLEAN,
   connect_state : {"DISCONNECTED", "CONNECTING", "CONNECTED"},
   async_cb : BOOLEAN,       \* async_connect_cb # NULL
   sock : {"closed", "open"},
   \* the other end: INFO not sent yet, a line to read, all read, closed
   peer : {"none", "fresh", "info", "tls", "err", "served", "gone"},
   \* CONNECT on this link: not yet, sent, or it could not be built
   greeted : {"no", "sent", "unbuilt"},
   told : {"none", "up", "down"},    \* the event callback called last
   due : BOOLEAN]            \* the reconnect delay has elapsed

\* has_connection in process(): sockfd >= 0 or transport->is_connected().
HasConnection(c) == c.sock = "open"

\* The transport closes its end on its own.
Drop(c) == [c EXCEPT !.sock = "closed", !.peer = "none"]

-----------------------------------------------------------------------------
(* disconnect()                                                            *)

\* A link that the transport still holds counts, a socket does not.
NothingToDisconnect(c) ==
  /\ ~c.connected
  /\ ~(c.link # "none" /\ c.sock = "open")

DisconnectLeavingLink(c) ==              \* mutant: the link is not closed
  [c EXCEPT !.connected = FALSE, !.connect_state = "DISCONNECTED",
            !.async_cb = FALSE, !.told = "down", !.due = FALSE]

Disconnect(c) ==
  IF NothingToDisconnect(c)
    THEN c
    ELSE [link |-> c.link, connected |-> FALSE,
          connect_state |-> "DISCONNECTED", async_cb |-> FALSE,
          sock |-> "closed", peer |-> "none", greeted |-> c.greeted,
          told |-> "down", due |-> FALSE]

\* A send that fails.  TcpTransport closes itself first; with no link at all
\* send() gives up silently.
SendFails(c) ==
  IF c.sock = "closed" THEN c
  ELSE IF c.link = "tcp" THEN Disconnect(Drop(c))
  ELSE Disconnect(c)

-----------------------------------------------------------------------------
(* recv()                                                                  *)

\* What may fail in the handshake: building CONNECT (no memory, credentials
\* that do not fit), and sending CONNECT, the SUB lines of
\* restore_subscriptions(), the messages of send_pending_messages().
HandshakeSends == {"build", "connect", "restore", "pending"}

SendStep(c, step, fails) == IF step \in fails THEN SendFails(c) ELSE c

\* send_connect(): a CONNECT that cannot be built is not sent, and that is all.
Greet(c, fails) ==
  IF "build" \in fails THEN [c EXCEPT !.greeted = "unbuilt"]
  ELSE IF "connect" \in fails \/ c.sock = "closed"
    THEN SendStep(c, "connect", fails)
    ELSE [c EXCEPT !.greeted = "sent"]

HandshakeUngreeted(c, fails) ==          \* mutant: no CONNECT
  IF c.connected THEN c
  ELSE LET up == [c EXCEPT !.connected = TRUE]
           told == [SendStep(up, "restore", fails) EXCEPT !.told = "up"]
       IN SendStep(told, "pending", fails)

\* The first INFO of a link: CONNECT, connected = true, re-SUBs, on_connect,
\* buffered messages.  A later INFO only updates what the server can do.
Handshake(c, fails) ==
  IF c.connected THEN c
  ELSE LET up == [Greet(c, fails) EXCEPT !.connected = TRUE]
           told == [SendStep(up, "restore", fails) EXCEPT !.told = "up"]
       IN SendStep(told, "pending", fails)

\* What recv() makes of what the other end has for it.
Handled(c, fails) ==
  CASE c.peer = "info" -> Handshake(c, fails)
    [] c.peer = "tls"  -> IF c.link = "none" THEN Disconnect(c)
                                             ELSE Handshake(c, fails)
    [] c.peer = "err"  -> Disconnect(c)
    [] c.peer = "gone" -> Disconnect(IF c.link = "none" THEN c ELSE Drop(c))
    [] OTHER           -> c

Recv(c, fails) ==
  LET after == Handled(c, fails)
  IN IF after.sock = "open" /\ c.peer # "gone"
       THEN [after EXCEPT !.peer = "served"]
       ELSE after

\* select() or has_data_available(): a WebSocket has no end of file to read.
Readable(c) ==
  /\ c.sock = "open"
  /\ c.peer \in {"info", "tls", "err"} \/ (c.peer = "gone" /\ c.link # "ws")

MayFail == IF calm THEN {{}} ELSE SUBSET HandshakeSends

RecvStep ==
  /\ Readable(client)
  /\ \E fails \in MayFail : client' = Recv(client, fails)

-----------------------------------------------------------------------------
(* connect()                                                               *)

Counted(n) == IF n < AttemptCap THEN n + 1 ELSE n

\* servers[current_server_idx] beyond the end makes the list that much longer.
BeginConnect(who) ==
  /\ pc' = "dial"
  /\ listed' = IF idx < listed THEN listed ELSE idx + 1
  /\ caller' = who
  /\ start' = idx
  /\ tried' = {}

DialUnreset ==                           \* mutant: attempts are not reset
  /\ pc = "dial"
  /\ client' = [client EXCEPT !.connect_state = "CONNECTING", !.sock = "open",
                              !.peer = "fresh", !.greeted = "no"]
  /\ pc' = "handshake"
  /\ UNCHANGED <<attempts, idx, listed, caller, start, result, calm, tried>>

\* The server accepts the connection.  A socket left open by an earlier attempt
\* is overwritten.
Dial ==
  /\ pc = "dial"
  /\ client' = [client EXCEPT !.connect_state = "CONNECTING", !.sock = "open",
                              !.peer = "fresh", !.greeted = "no"]
  /\ attempts' = 0
  /\ pc' = "handshake"
  /\ UNCHANGED <<idx, listed, caller, start, result, calm, tried>>

NextServerUnwrapped == idx + 1           \* mutant: past the end of the list

NextServer == (idx + 1) % listed

ServerFailedStaying(c) ==                \* mutant: gives up with the first one
  /\ tried' = tried \cup {idx}
  /\ idx' = NextServer
  /\ client' = [c EXCEPT !.connect_state = "DISCONNECTED"]
  /\ attempts' = Counted(attempts)
  /\ result' = FALSE
  /\ pc' = "returned"

\* The next server, or none is left.
ServerFailed(c) ==
  /\ tried' = tried \cup {idx}
  /\ idx' = NextServer
  /\ IF idx' = start
       THEN /\ client' = [c EXCEPT !.connect_state = "DISCONNECTED"]
            /\ attempts' = Counted(attempts)
            /\ result' = FALSE
            /\ pc' = "returned"
       ELSE /\ client' = c
            /\ pc' = "dial"
            /\ UNCHANGED <<attempts, result>>

\* Name resolution fails and leaves the socket member alone, or connecting
\* fails and overwrites it with -1.
DialFails ==
  /\ pc = "dial"
  /\ ~calm
  /\ \E c \in {client, Drop(client)} : ServerFailed(c)
  /\ UNCHANGED <<listed, caller, start, calm>>

\* An entry that nobody wrote: besides what a server may do, the name is no
\* name or the pointer no pointer.
DialUnlisted ==
  /\ pc = "dial"
  /\ Unlisted
  /\ \/ \E c \in {client, Drop(client)} : ServerFailed(c)
     \/ pc' = "trapped" /\ UNCHANGED <<client, attempts, idx, result, tried>>
  /\ UNCHANGED <<listed, caller, start, calm>>

HandshakeRecv ==
  /\ pc = "handshake"
  /\ ~client.connected
  /\ RecvStep
  /\ UNCHANGED <<attempts, idx, listed, pc, caller, start, result, calm, tried>>

HandshakeDone ==
  /\ pc = "handshake"
  /\ client.connected
  /\ result' = TRUE
  /\ pc' = "returned"
  /\ UNCHANGED <<client, attempts, idx, listed, caller, start, calm, tried>>

AfterTimeoutKept(c) == c                 \* mutant: the transport stays open

\* connect() calls disconnect() on its own socket, and closes a transport.
AfterTimeout(c) == IF c.link = "none" THEN Disconnect(c) ELSE Drop(c)

\* A server of the list that behaves sends INFO in time.
HandshakeTimeout ==
  /\ pc = "handshake"
  /\ ~client.connected
  /\ calm /\ ~Unlisted => client.peer \notin {"fresh", "info"}
  /\ ServerFailed(AfterTimeout(client))
  /\ UNCHANGED <<listed, caller, start, calm>>

\* connect() has returned to the application or to process().
Return ==
  /\ pc = "returned"
  /\ caller # "async"
  /\ pc' = "idle"
  /\ UNCHANGED <<client, attempts, idx, listed, caller, start, result, calm, tried>>

\* connect_async(): nothing but two assignments.
Ask(c) == [c EXCEPT !.async_cb = TRUE, !.connect_state = "CONNECTING"]

\* ... to the async branch of process(): it calls async_connect_cb, then clears
\* it.  A callback may ask again; its registration is cleared with it.
\* Calling NULL stops the program.
ReturnAsync ==
  /\ pc = "returned"
  /\ caller = "async"
  /\ IF client.async_cb
       THEN \E again \in {FALSE, ~result} :
              /\ pc' = "idle"
              /\ client' =
                   [client EXCEPT
                      !.async_cb = FALSE,
                      !.connect_state = IF again THEN "CONNECTING"
                                        ELSE IF result THEN "CONNECTED"
                                        ELSE "DISCONNECTED"]
       ELSE /\ pc' = "crashed"
            /\ UNCHANGED client
  /\ UNCHANGED <<attempts, idx, listed, caller, start, result, calm, tried>>

-----------------------------------------------------------------------------
(* process(), in the order of its branches                                 *)

AsyncDue ==
  client.connect_state = "CONNECTING" /\ client.async_cb
    /\ ~HasConnection(client)

ProcessAsync ==
  /\ pc = "idle"
  /\ AsyncDue
  /\ IF client.connected      \* connect() returns true at once
       THEN pc' = "returned" /\ result' = TRUE /\ caller' = "async"
            /\ UNCHANGED <<listed, start, tried>>
       ELSE BeginConnect("async") /\ UNCHANGED result
  /\ UNCHANGED <<client, attempts, idx, calm>>

ProcessRecv ==
  /\ pc = "idle"
  /\ RecvStep
  /\ UNCHANGED <<attempts, idx, listed, pc, caller, start, result, calm, tried>>

\* ping(): the send fails, or too many PINGs are unanswered.
ProcessPing ==
  /\ pc = "idle"
  /\ HasConnection(client)
  /\ ~calm \/ client.peer = "gone"
  /\ client' \in {SendFails(client), Disconnect(client)}
  /\ UNCHANGED <<attempts, idx, listed, pc, caller, start, result, calm, tried>>

\* A transport that dropped: disconnect(), which restarts the delay.
ProcessDropped ==
  /\ pc = "idle"
  /\ ~AsyncDue
  /\ client.link # "none" /\ ~HasConnection(client) /\ client.connected
  /\ client' = Disconnect(client)
  /\ UNCHANGED <<attempts, idx, listed, pc, caller, start, result, calm, tried>>

ProcessReconnect ==
  /\ pc = "idle"
  /\ ~AsyncDue
  /\ ~HasConnection(client) /\ ~client.connected
  /\ MaxAttempts = -1 \/ attempts < MaxAttempts
  /\ client.due
  /\ client' = [client EXCEPT !.due = FALSE]
  /\ BeginConnect("reconnect")
  /\ UNCHANGED <<attempts, idx, result, calm>>

Process ==
  \/ ProcessAsync
  \/ ProcessRecv
  \/ ProcessDropped
  \/ ProcessReconnect

Connecting ==
  \/ Dial
  \/ DialUnlisted
  \/ HandshakeRecv
  \/ HandshakeDone
  \/ HandshakeTimeout
  \/ Return
  \/ ReturnAsync

-----------------------------------------------------------------------------
(* The application, the clock, the servers                                 *)

\* The program has called NULL, or read what is no pointer.
Stopped == pc \in {"crashed", "trapped"}

AppConnect ==
  /\ "connect" \in Calls
  /\ pc = "idle"
  /\ ~client.connected
  /\ BeginConnect("app")
  /\ UNCHANGED <<client, attempts, idx, result, calm>>

AppConnectAsync ==
  /\ "connect_async" \in Calls
  /\ ~calm
  /\ ~Stopped
  /\ client' = Ask(client)
  /\ UNCHANGED <<attempts, idx, listed, pc, caller, start, result, calm, tried>>

\* disconnect() from a callback or another task; it withdraws a pending
\* connect_async().  A publish of another task that fails does the same.
AppDisconnect ==
  /\ "disconnect" \in Calls
  /\ ~calm
  /\ ~Stopped
  /\ client' = Disconnect(client)
  /\ UNCHANGED <<attempts, idx, listed, pc, caller, start, result, calm, tried>>

Environment(c) ==
  /\ client' = c
  /\ UNCHANGED <<attempts, idx, listed, pc, caller, start, result, calm, tried>>

DelayElapses == ~client.due /\ Environment([client EXCEPT !.due = TRUE])

ServerInfo ==
  /\ client.peer = "fresh"
  /\ \E line \in IF calm THEN {"info"} ELSE {"info", "tls"} :
       Environment([client EXCEPT !.peer = line])

ServerErr ==
  /\ ~calm
  /\ client.peer \in {"fresh", "served"}
  /\ Environment([client EXCEPT !.peer = "err"])

ServerCloses ==
  /\ ~calm
  /\ client.sock = "open" /\ client.peer # "gone"
  /\ Environment([client EXCEPT !.peer = "gone"])

\* The WebSocket task sets ws_connected = false (handle_disconnected).
WebSocketEvent ==
  /\ client.link = "ws"
  /\ client.peer = "gone"
  /\ Environment(Drop(client))

NetworkSettles ==
  /\ ~calm
  /\ calm' = TRUE
  /\ UNCHANGED <<client, attempts, idx, listed, pc, caller, start, result, tried>>

Init ==
  /\ \E link \in Links :
       client = [link |-> link, connected |-> FALSE,
                 connect_state |-> "DISCONNECTED", async_cb |-> FALSE,
                 sock |-> "closed", peer |-> "none", greeted |-> "no",
                 told |-> "none", due |-> TRUE]
  /\ attempts = 0
  /\ idx \in ServerIdx
  /\ listed = Servers
  /\ pc = "idle" /\ caller = "app" /\ start = idx /\ result = FALSE
  /\ calm = FALSE
  /\ tried = {}

Application == AppConnect \/ AppConnectAsync \/ AppDisconnect

Network ==
  \/ DelayElapses
  \/ ServerInfo
  \/ ServerErr
  \/ ServerCloses
  \/ WebSocketEvent
  \/ NetworkSettles
  \/ DialFails
  \/ ProcessPing

Next == Process \/ Connecting \/ Application \/ Network

Spec == Init /\ [][Next]_vars

\* The application keeps calling process(); time passes; a server that accepted
\* a connection says INFO; the WebSocket task delivers its events.
Fairness ==
  /\ WF_vars(Process)
  /\ WF_vars(Connecting)
  /\ WF_vars(DelayElapses)
  /\ WF_vars(ServerInfo)
  /\ WF_vars(WebSocketEvent)

FairSpec == Spec /\ Fairness

-----------------------------------------------------------------------------
(* Properties                                                              *)

TypeOK ==
  /\ client \in ClientRecord
  /\ attempts \in 0 .. AttemptCap
  /\ idx \in ServerIdx /\ start \in ServerIdx
  /\ listed \in Servers .. Longest
  /\ pc \in {"idle", "dial", "handshake", "returned", "crashed", "trapped"}
  /\ pc \in {"dial", "handshake"} => idx < listed
  /\ caller \in {"app", "async", "reconnect"}
  /\ result \in BOOLEAN /\ calm \in BOOLEAN
  /\ tried \subseteq ServerIdx

\* Several properties hold over a transport only: on its own socket the client
\* may be left with a half-open connection (see ReconnectsInTheEnd).
OverTransport == client.link # "none"

\* Over a transport, whenever connect() is not running, an open link is one
\* with a completed handshake: no failure leaves a half-open link behind, on
\* which process() would wait instead of reconnecting.
IdleLinkIsConnected ==
  OverTransport /\ pc = "idle" /\ client.sock = "open" => client.connected

\* Over a transport, connected is never true on an open link on which CONNECT
\* is still to come: it was sent, or it could not be built.  A send of it that
\* fails leaves no link.
GreetedOnOpenLink ==
  OverTransport /\ client.connected /\ client.sock = "open"
    => client.greeted # "no"

\* What a reader of recv() expects, and the code does not keep: send_connect()
\* may return without a CONNECT and without an error, and connected is set.
ConnectWasSent ==
  OverTransport /\ client.connected /\ client.sock = "open"
    => client.greeted = "sent"

\* Over a transport, a client that is connected reconnects from the first delay
\* next time, however many attempts the connection took.
BackoffStartsAfresh == OverTransport /\ client.connected => attempts = 0

\* connect() dials no entry of the list twice, and returns false only after it
\* has tried every one, those included that its first index made.
FailoverTriesAll ==
  /\ pc \in {"dial", "handshake"} => idx \notin tried
  /\ pc = "returned" /\ ~result => tried = 0 .. listed - 1

\* The application was told of the connection it has.
ConnectedIsTold == client.connected => client.told = "up"

\* on_connect is the last event the application saw only while the client is
\* connected.
ToldIsConnected == pc = "idle" /\ client.told = "up" => client.connected

\* The asynchronous connect never calls a callback that is not there.
NoNullCallback == pc # "crashed"

\* Once network and servers behave, the client is connected in the end (or has
\* stopped: see NoNullCallback and DialUnlisted).
Settled == (client.connected /\ client.sock = "open") \/ Stopped
ReconnectsInTheEnd == calm ~> Settled

\* The same over a transport.
TransportReconnects == calm /\ OverTransport ~> Settled
=============================================================================
