--------------------------- MODULE ConnectionProofs ---------------------------
(***************************************************************************)
(* Proofs about the connection of class NATS, for every number of servers, *)
(* every limit of attempts and every application.  Types and the loop of   *)
(* connect() over the servers are right over every link.  A client on its  *)
(* own socket is left with half-open links, so the other theorems are      *)
(* about programs whose links are transports: "none" \notin Links.         *)
(***************************************************************************)
EXTENDS Connection, TLAPS

\* connect() runs only without a connection, and only while it waits for the
\* handshake may there be an open link that is not connected.
LinkSettled ==
  /\ pc = "dial" => ~client.connected
  /\ pc # "handshake" /\ client.sock = "open" => client.connected
  /\ pc = "handshake" => attempts = 0

\* The inductive invariant.
IInv ==
  /\ "none" \notin Links
  /\ TypeOK
  /\ OverTransport
  /\ LinkSettled
  /\ GreetedOnOpenLink
  /\ BackoffStartsAfresh
  /\ ConnectedIsTold

\* What IInv asks of the client record, whatever the program counter.
Sound(c) ==
  /\ c \in ClientRecord
  /\ c.link # "none"
  /\ c.connected /\ c.sock = "open" => c.greeted # "no"
  /\ c.connected => c.told = "up"

-----------------------------------------------------------------------------
(* The operations on the client record                                     *)

\* Every client record of such a program is one over a transport.
LEMMA LinkFacts ==
  ASSUME "none" \notin Links, NEW c \in ClientRecord
  PROVE  c.link # "none"
BY DEF ClientRecord

\* A transport that drops leaves the client as it is, without a link.
LEMMA DropFacts ==
  ASSUME "none" \notin Links, NEW c \in ClientRecord
  PROVE  /\ Drop(c) \in ClientRecord
         /\ Drop(c).link # "none"
         /\ Drop(c).sock = "closed"
         /\ Drop(c).connected = c.connected
         /\ Drop(c).told = c.told
BY LinkFacts DEF Drop, ClientRecord

\* After disconnect() over a transport nothing is left of the connection.
LEMMA DisconnectFacts ==
  ASSUME "none" \notin Links, NEW c \in ClientRecord
  PROVE  /\ Disconnect(c) \in ClientRecord
         /\ Disconnect(c).link # "none"
         /\ ~Disconnect(c).connected
         /\ Disconnect(c).sock = "closed"
BY LinkFacts DEF Disconnect, NothingToDisconnect, ClientRecord

\* A send that fails leaves no link; the client stays connected only if it was
\* connected without a link already.
LEMMA SendFailsFacts ==
  ASSUME "none" \notin Links, NEW c \in ClientRecord
  PROVE  /\ SendFails(c) \in ClientRecord
         /\ SendFails(c).link # "none"
         /\ SendFails(c).sock = "closed"
         /\ SendFails(c).connected => SendFails(c) = c
<1>1. CASE c.sock = "closed"
  BY <1>1, LinkFacts DEF SendFails
<1>2. CASE c.sock # "closed" /\ c.link = "tcp"
  <2>1. SendFails(c) = Disconnect(Drop(c))
    BY <1>2 DEF SendFails
  <2> QED
    BY <2>1, DropFacts, DisconnectFacts
<1>3. CASE c.sock # "closed" /\ c.link # "tcp"
  <2>1. SendFails(c) = Disconnect(c)
    BY <1>3 DEF SendFails
  <2> QED
    BY <2>1, DisconnectFacts
<1> QED
  BY <1>1, <1>2, <1>3

\* The handshake ends without a link or connected, greeted and told; a client
\* that is still connected has been told.
LEMMA HandshakeFacts ==
  ASSUME "none" \notin Links, NEW c \in ClientRecord, Sound(c), NEW fails
  PROVE  /\ Sound(Handshake(c, fails))
         /\ Handshake(c, fails).sock = "open" => Handshake(c, fails).connected
<1>1. CASE c.connected
  BY <1>1 DEF Handshake
<1>2. CASE ~c.connected
  <2> DEFINE g == Greet(c, fails)
             up == [g EXCEPT !.connected = TRUE]
             restored == SendStep(up, "restore", fails)
             told == [restored EXCEPT !.told = "up"]
  <2>1. g \in ClientRecord /\ (g.sock = "open" => g.greeted # "no")
    BY SendFailsFacts DEF Greet, SendStep, ClientRecord
  <2> HIDE DEF g
  <2>2. /\ up \in ClientRecord
        /\ up.connected
        /\ up.sock = "open" => up.greeted # "no"
    BY <2>1 DEF ClientRecord
  <2> HIDE DEF up
  <2>3. /\ restored \in ClientRecord
        /\ restored.sock = "open" => restored.greeted # "no" /\ restored.connected
    BY <2>2, SendFailsFacts DEF SendStep
  <2> HIDE DEF restored
  <2>4. /\ told \in ClientRecord
        /\ told.told = "up"
        /\ told.sock = "open" => told.greeted # "no" /\ told.connected
    BY <2>3 DEF ClientRecord
  <2> HIDE DEF told
  <2>5. Handshake(c, fails) = SendStep(told, "pending", fails)
    BY <1>2 DEF Handshake, told, restored, up, g
  <2>6. Sound(SendStep(told, "pending", fails))
        /\ (SendStep(told, "pending", fails).sock = "open"
              => SendStep(told, "pending", fails).connected)
    BY <2>4, SendFailsFacts, LinkFacts DEF SendStep, Sound
  <2> QED
    BY <2>5, <2>6
<1> QED
  BY <1>1, <1>2

\* So does recv() of a line that ends or completes the handshake.
LEMMA RecvFacts ==
  ASSUME "none" \notin Links, NEW c \in ClientRecord, Sound(c), Readable(c),
         NEW fails
  PROVE  /\ Sound(Recv(c, fails))
         /\ Recv(c, fails).sock = "open" => Recv(c, fails).connected
<1> DEFINE after == Handled(c, fails)
<1>1. c.peer \in {"info", "tls", "err", "gone"}
  BY DEF Readable
<1>2. Sound(after) /\ (after.sock = "open" => after.connected)
  <2>1. CASE c.peer = "info"
    BY <2>1, HandshakeFacts DEF Handled
  <2>2. CASE c.peer = "tls"
    BY <2>2, HandshakeFacts DEF Handled, Sound
  <2>3. CASE c.peer = "err"
    <3>1. after = Disconnect(c)
      BY <2>3 DEF Handled
    <3> QED
      BY <3>1, DisconnectFacts DEF Sound
  <2>4. CASE c.peer = "gone"
    <3>1. after = Disconnect(Drop(c))
      BY <2>4 DEF Handled, Sound
    <3> QED
      BY <3>1, DropFacts, DisconnectFacts DEF Sound
  <2> QED
    BY <1>1, <2>1, <2>2, <2>3, <2>4
<1> HIDE DEF after
<1>3. [after EXCEPT !.peer = "served"] \in ClientRecord
      /\ [after EXCEPT !.peer = "served"].sock = after.sock
      /\ [after EXCEPT !.peer = "served"].connected = after.connected
      /\ [after EXCEPT !.peer = "served"].told = after.told
      /\ [after EXCEPT !.peer = "served"].greeted = after.greeted
  BY <1>2 DEF Sound, ClientRecord
<1>4. Recv(c, fails) = IF after.sock = "open" /\ c.peer # "gone"
                         THEN [after EXCEPT !.peer = "served"] ELSE after
  BY DEF Recv, after
<1> QED
  BY <1>2, <1>3, <1>4 DEF Sound

\* The assignments to single members.
LEMMA MemberFacts ==
  ASSUME NEW c \in ClientRecord, Sound(c)
  PROVE  /\ \A b \in BOOLEAN :
              /\ Sound([c EXCEPT !.due = b])
              /\ [c EXCEPT !.due = b].sock = c.sock
              /\ [c EXCEPT !.due = b].connected = c.connected
         /\ \A p \in {"none", "fresh", "info", "tls", "err", "served",
                   "gone"} :
              /\ Sound([c EXCEPT !.peer = p])
              /\ [c EXCEPT !.peer = p].sock = c.sock
              /\ [c EXCEPT !.peer = p].connected = c.connected
         /\ \A s \in {"DISCONNECTED", "CONNECTING", "CONNECTED"} :
              /\ Sound([c EXCEPT !.connect_state = s])
              /\ [c EXCEPT !.connect_state = s].sock = c.sock
              /\ [c EXCEPT !.connect_state = s].connected = c.connected
         /\ \A a \in BOOLEAN,
               s \in {"DISCONNECTED", "CONNECTING", "CONNECTED"} :
              /\ Sound([c EXCEPT !.async_cb = a, !.connect_state = s])
              /\ [c EXCEPT !.async_cb = a, !.connect_state = s].sock = c.sock
              /\ [c EXCEPT !.async_cb = a, !.connect_state = s].connected
                   = c.connected
BY DEF Sound, ClientRecord

LEMMA CountedType ==
  ASSUME NEW n \in 0 .. AttemptCap
  PROVE  Counted(n) \in 0 .. AttemptCap
BY AttemptsAssumption DEF Counted

\* The list is never longer than the range of its indices.
LEMMA LongestFacts ==
  /\ Longest \in Nat \ {0} /\ Servers \in 0 .. Longest
  /\ 0 \in ServerIdx
  /\ \A i \in ServerIdx : i \in Nat /\ i + 1 \in 1 .. Longest
BY ServersAssumption DEF Longest, ServerIdx

LEMMA NextServerType ==
  ASSUME TypeOK, pc \in {"dial", "handshake"}
  PROVE  NextServer \in ServerIdx /\ NextServer < listed
<1>1. listed \in Nat /\ listed <= Longest /\ idx \in Nat /\ idx < listed /\ Longest \in Nat
  BY LongestFacts DEF TypeOK, ServerIdx
<1>2. NextServer \in 0 .. listed - 1
  BY <1>1 DEF NextServer
<1> QED
  BY <1>1, <1>2 DEF ServerIdx

\* connect() begins: the list has the entry it begins with.
LEMMA BeginListed ==
  ASSUME TypeOK, NEW who, BeginConnect(who), idx' = idx
  PROVE  listed' \in Servers .. Longest /\ idx' < listed'
<1>1. /\ Longest \in Nat /\ Servers \in Nat /\ listed \in Servers .. Longest
      /\ idx \in Nat /\ idx + 1 <= Longest
  BY LongestFacts DEF TypeOK
<1> QED
  BY <1>1 DEF BeginConnect

-----------------------------------------------------------------------------
(* The steps                                                               *)

LEMMA InitIInv ==
  ASSUME "none" \notin Links, Init
  PROVE  IInv
<1>1. client \in ClientRecord /\ ~client.connected /\ client.sock = "closed"
  BY DEF Init, ClientRecord
<1>2. 0 \in 0 .. AttemptCap
  BY AttemptsAssumption
<1>3. attempts \in 0 .. AttemptCap 
  BY <1>2 DEF Init
<1>4. /\ idx \in ServerIdx /\ start \in ServerIdx /\ tried \subseteq ServerIdx
      /\ listed \in Servers .. Longest
  BY LongestFacts DEF Init
<1>5. /\ pc \in {"idle", "dial", "handshake", "returned", "crashed", "trapped"}
      /\ pc \notin {"dial", "handshake"}
      /\ caller \in {"app", "async", "reconnect"}
      /\ result \in BOOLEAN /\ calm \in BOOLEAN
  BY DEF Init
<1>6. TypeOK
  BY <1>1, <1>3, <1>4, <1>5 DEF TypeOK
<1> QED
  BY <1>1, <1>6
     DEF Init, IInv, LinkSettled, OverTransport, GreetedOnOpenLink,
         BackoffStartsAfresh,
         ConnectedIsTold

LEMMA IInvSound ==
  ASSUME IInv
  PROVE  Sound(client) /\ client \in ClientRecord
BY DEF IInv, TypeOK, Sound, OverTransport, GreetedOnOpenLink, ConnectedIsTold

\* A step of the environment, of another task or of process() that keeps the
\* program counter: the new client record is sound and connected when it has
\* a link, unless connect() runs.
LEMMA ClientStep ==
  ASSUME IInv, Sound(client'),
         pc # "handshake" /\ client'.sock = "open" => client'.connected,
         client'.connected => client.connected \/ attempts = 0,
         pc = "dial" => ~client'.connected,
         calm' \in BOOLEAN,
         UNCHANGED <<attempts, idx, listed, pc, caller, start, result, tried>>
  PROVE  IInv'
BY DEF IInv, TypeOK, Sound, LinkSettled, OverTransport, GreetedOnOpenLink,
       BackoffStartsAfresh, ConnectedIsTold

LEMMA RecvStepPreserves ==
  ASSUME IInv, RecvStep, pc \in {"idle", "handshake"},
         UNCHANGED <<attempts, idx, listed, pc, caller, start, result, calm, tried>>
  PROVE  IInv'
<1>1. Sound(client) /\ client \in ClientRecord
  BY IInvSound
<1>2. PICK fails \in MayFail : client' = Recv(client, fails)
  BY DEF RecvStep
<1>3. Sound(client') /\ (client'.sock = "open" => client'.connected)
  BY <1>1, <1>2, RecvFacts DEF RecvStep, IInv
<1>4. client.connected \/ attempts = 0
  BY DEF IInv, LinkSettled, RecvStep, Readable
<1> QED
  BY <1>3, <1>4, ClientStep DEF IInv, TypeOK

\* connect() starts, from the idle task, without a connection.
LEMMA BeginStep ==
  ASSUME IInv, pc = "idle", ~client.connected, client.sock = "closed",
         NEW who \in {"app", "async", "reconnect"}, BeginConnect(who),
         Sound(client'), ~client'.connected, client'.sock = "closed",
         UNCHANGED <<attempts, idx, result, calm>>
  PROVE  IInv'
<1>1. listed' \in Servers .. Longest /\ idx' < listed'
  BY BeginListed DEF IInv
<1> QED
  BY <1>1
     DEF IInv, TypeOK, Sound, LinkSettled, OverTransport, GreetedOnOpenLink,
         BeginConnect, BackoffStartsAfresh, ConnectedIsTold

\* One server has failed: the link is closed, the client not connected.
LEMMA ServerFailedStep ==
  ASSUME IInv, pc \in {"dial", "handshake"},
         NEW c, Sound(c), ~c.connected, c.sock = "closed", ServerFailed(c),
         UNCHANGED <<listed, caller, start, calm>>
  PROVE  IInv'
<1>1. c \in ClientRecord
  BY DEF Sound
<1>2. Sound(client') /\ ~client'.connected /\ client'.sock = "closed"
  BY <1>1, MemberFacts DEF ServerFailed
<1>3. idx' \in ServerIdx /\ idx' < listed' /\ tried' \subseteq ServerIdx
  <2>1. NextServer \in ServerIdx /\ NextServer < listed
    BY NextServerType DEF IInv
  <2>2. idx' = NextServer /\ listed' = listed /\ tried' = tried \cup {idx}
    BY DEF ServerFailed
  <2> QED
    BY <2>1, <2>2 DEF IInv, TypeOK
<1>4. /\ attempts' \in 0 .. AttemptCap
      /\ result' \in BOOLEAN
      /\ pc' \in {"dial", "returned"}
  BY CountedType DEF ServerFailed, IInv, TypeOK
<1> QED
  BY <1>2, <1>3, <1>4
     DEF IInv, TypeOK, Sound, LinkSettled, OverTransport, GreetedOnOpenLink,
         BackoffStartsAfresh, ConnectedIsTold

LEMMA ProcessStep ==
  ASSUME IInv, Process
  PROVE  IInv'
<1> USE DEF HasConnection
<1>1. Sound(client) /\ client \in ClientRecord
  BY IInvSound
<1>2. CASE ProcessAsync
  <2>1. CASE client.connected
    BY <1>2, <2>1
       DEF ProcessAsync, AsyncDue, IInv, TypeOK, LinkSettled,
           OverTransport, GreetedOnOpenLink, BackoffStartsAfresh,
           ConnectedIsTold
  <2>2. CASE ~client.connected
    <3>1. client.sock = "closed"
      BY <1>1, <1>2 DEF ProcessAsync, AsyncDue, ClientRecord
    <3> QED
      BY <1>1, <1>2, <2>2, <3>1, BeginStep DEF ProcessAsync
  <2> QED
    BY <2>1, <2>2
<1>3. CASE ProcessRecv
  BY <1>3, RecvStepPreserves DEF ProcessRecv
<1>4. CASE ProcessDropped
  BY <1>1, <1>4, DisconnectFacts, ClientStep
     DEF ProcessDropped, IInv, TypeOK, Sound
<1>5. CASE ProcessReconnect
  <2>1. client.sock = "closed"
    BY <1>1, <1>5 DEF ProcessReconnect, ClientRecord
  <2>2. Sound(client') /\ ~client'.connected /\ client'.sock = "closed"
    BY <1>1, <1>5, <2>1, MemberFacts DEF ProcessReconnect
  <2> QED
    BY <1>5, <2>1, <2>2, BeginStep DEF ProcessReconnect
<1> QED
  BY <1>2, <1>3, <1>4, <1>5 DEF Process

LEMMA ConnectingStep ==
  ASSUME IInv, Connecting
  PROVE  IInv'
<1>1. Sound(client) /\ client \in ClientRecord
  BY IInvSound
<1>2. CASE Dial
  <2>1. /\ client' \in ClientRecord
        /\ ~client'.connected
    BY <1>1, <1>2 DEF Dial, IInv, LinkSettled, ClientRecord
  <2> QED
    BY <1>2, <2>1, AttemptsAssumption
       DEF Dial, IInv, TypeOK, LinkSettled, OverTransport, GreetedOnOpenLink,
           BackoffStartsAfresh, ConnectedIsTold
<1>8. CASE DialUnlisted
  <2>1. CASE \E c \in {client, Drop(client)} : ServerFailed(c)
    <3>1. PICK c \in {client, Drop(client)} : ServerFailed(c)
      BY <2>1
    <3>2. Sound(c) /\ ~c.connected /\ c.sock = "closed"
      BY <1>1, <1>8, DropFacts
         DEF DialUnlisted, IInv, LinkSettled, Sound, ClientRecord
    <3> QED
      BY <1>8, <3>1, <3>2, ServerFailedStep DEF DialUnlisted
  <2>2. CASE pc' = "trapped" /\ UNCHANGED <<client, attempts, idx, result, tried>>
    BY <1>8, <2>2
       DEF DialUnlisted, IInv, TypeOK, LinkSettled, OverTransport,
           GreetedOnOpenLink, BackoffStartsAfresh, ConnectedIsTold
  <2> QED
    BY <1>8, <2>1, <2>2 DEF DialUnlisted
<1>3. CASE HandshakeRecv
  BY <1>3, RecvStepPreserves DEF HandshakeRecv
<1>4. CASE HandshakeDone
  BY <1>4
     DEF HandshakeDone, IInv, TypeOK, LinkSettled, OverTransport,
         GreetedOnOpenLink,
         BackoffStartsAfresh, ConnectedIsTold
<1>5. CASE HandshakeTimeout
  <2> DEFINE c == AfterTimeout(client)
  <2>1. Sound(c) /\ ~c.connected /\ c.sock = "closed"
    BY <1>1, <1>5, DropFacts
       DEF HandshakeTimeout, AfterTimeout, IInv, Sound
  <2>2. ServerFailed(c)
    BY <1>5 DEF HandshakeTimeout
  <2> HIDE DEF c
  <2> QED
    BY <1>5, <2>1, <2>2, ServerFailedStep DEF HandshakeTimeout
<1>6. CASE Return
  BY <1>6
     DEF Return, IInv, TypeOK, LinkSettled, OverTransport, GreetedOnOpenLink,
         BackoffStartsAfresh, ConnectedIsTold
<1>7. CASE ReturnAsync
  <2>1. Sound(client') /\ client'.sock = client.sock
        /\ client'.connected = client.connected
        /\ pc' \in {"idle", "crashed"}
    <3>1. CASE client.async_cb
      <4>1. PICK again \in {FALSE, ~result} :
              client' = [client EXCEPT
                              !.async_cb = FALSE,
                              !.connect_state = IF again THEN "CONNECTING"
                                                ELSE IF result THEN "CONNECTED"
                                                ELSE "DISCONNECTED"]
        BY <1>7, <3>1 DEF ReturnAsync
      <4>2. again \in BOOLEAN
        BY CallsAssumption DEF IInv, TypeOK
      <4>3. PICK s \in {"DISCONNECTED", "CONNECTING", "CONNECTED"} :
              client' = [client EXCEPT !.async_cb = FALSE,
                                       !.connect_state = s]
        BY <4>1
      <4>4. pc' = "idle"
        BY <1>7, <3>1 DEF ReturnAsync
      <4> QED
        BY <1>1, <4>1, <4>2, <4>3, <4>4, MemberFacts
    <3>2. CASE ~client.async_cb
      BY <1>1, <1>7, <3>2 DEF ReturnAsync, IInv, TypeOK
    <3> QED
      BY <3>1, <3>2
  <2> QED
    BY <1>7, <2>1
       DEF ReturnAsync, IInv, TypeOK, LinkSettled, OverTransport,
           GreetedOnOpenLink, Sound,
           BackoffStartsAfresh, ConnectedIsTold
<1> QED
  BY <1>2, <1>3, <1>4, <1>5, <1>6, <1>7, <1>8 DEF Connecting

LEMMA ApplicationStep ==
  ASSUME IInv, Application
  PROVE  IInv'
<1>1. Sound(client) /\ client \in ClientRecord
  BY IInvSound
<1>2. CASE AppConnect
  <2>1. client.sock = "closed"
    BY <1>1, <1>2 DEF AppConnect, IInv, LinkSettled, ClientRecord
  <2> QED
    BY <1>1, <1>2, <2>1, BeginStep DEF AppConnect
<1>3. CASE AppConnectAsync
  <2>1. Sound(client') /\ client'.sock = client.sock
        /\ client'.connected = client.connected
    BY <1>1, <1>3, MemberFacts DEF AppConnectAsync, Ask
  <2> QED
    BY <1>3, <2>1, ClientStep DEF AppConnectAsync, IInv, TypeOK, LinkSettled
<1>4. CASE AppDisconnect
  <2>1. /\ Sound(client')
        /\ ~client'.connected
        /\ client'.sock = "closed"
    BY <1>1, <1>4, DisconnectFacts DEF AppDisconnect, IInv, Sound
  <2> QED
    BY <1>4, <2>1, ClientStep DEF AppDisconnect, IInv, TypeOK
<1> QED
  BY <1>2, <1>3, <1>4 DEF Application

LEMMA NetworkStep ==
  ASSUME IInv, Network
  PROVE  IInv'
<1>1. Sound(client) /\ client \in ClientRecord
  BY IInvSound
<1>2. ASSUME NEW c, Environment(c), Sound(c), c.connected = client.connected,
             c.sock \in {client.sock, "closed"}
      PROVE  IInv'
  BY <1>2, ClientStep DEF Environment, IInv, TypeOK, LinkSettled
<1>3. CASE DelayElapses
  BY <1>1, <1>2, <1>3, MemberFacts DEF DelayElapses
<1>4. CASE ServerInfo
  BY <1>1, <1>2, <1>4, MemberFacts DEF ServerInfo
<1>5. CASE ServerErr
  BY <1>1, <1>2, <1>5, MemberFacts DEF ServerErr
<1>6. CASE ServerCloses
  BY <1>1, <1>2, <1>6, MemberFacts DEF ServerCloses
<1>7. CASE WebSocketEvent
  BY <1>1, <1>2, <1>7, DropFacts DEF WebSocketEvent, Sound, IInv
<1>8. CASE NetworkSettles
  BY <1>1, <1>8, ClientStep DEF NetworkSettles, IInv, TypeOK, LinkSettled
<1>9. CASE DialFails
  <2>1. PICK c \in {client, Drop(client)} : ServerFailed(c)
    BY <1>9 DEF DialFails
  <2>2. Sound(c) /\ ~c.connected /\ c.sock = "closed"
    BY <1>1, <1>9, DropFacts
       DEF DialFails, IInv, LinkSettled, Sound, ClientRecord
  <2> QED
    BY <1>9, <2>1, <2>2, ServerFailedStep DEF DialFails
<1>10. CASE ProcessPing
  <2>1. Sound(client') /\ client'.sock = "closed"
        /\ (client'.connected => client.connected)
    <3>1. CASE client' = SendFails(client)
      BY <1>1, <3>1, SendFailsFacts DEF IInv, Sound
    <3>2. CASE client' = Disconnect(client)
      BY <1>1, <3>2, DisconnectFacts DEF IInv, Sound
    <3> QED
      BY <1>10, <3>1, <3>2 DEF ProcessPing
  <2> QED
    BY <1>10, <2>1, ClientStep DEF ProcessPing, IInv, TypeOK
<1> QED
  BY <1>3, <1>4, <1>5, <1>6, <1>7, <1>8, <1>9, <1>10 DEF Network

-----------------------------------------------------------------------------
(* Every link: types, and the loop of connect() over the servers           *)

\* The servers from a up to, not including, b, in the order of the list, which
\* goes on with the first after the last.
Between(a, b) == IF a <= b THEN a .. b - 1 ELSE (a .. listed - 1) \cup (0 .. b - 1)

\* connect() has tried the servers from the one it began with up to the one it
\* is about to try, or is trying.
TriedSoFar ==
  pc \in {"dial", "handshake"} => start < listed /\ tried = Between(start, idx)

\* The inductive invariant over every link, the own socket included.
LoopInv == TypeOK /\ TriedSoFar /\ FailoverTriesAll

\* Where the loop stands after one more server: further on, or all have been
\* tried (the modulus wraps to the first server).
LEMMA OneMoreServer ==
  ASSUME listed \in Nat,
         NEW a \in 0 .. listed - 1, NEW b \in 0 .. listed - 1
  PROVE  LET n == (b + 1) % listed
         IN /\ n \in 0 .. listed - 1
            /\ n # a => Between(a, b) \cup {b} = Between(a, n)
            /\ n = a => Between(a, b) \cup {b} = 0 .. listed - 1
<1> DEFINE n == (b + 1) % listed
<1>1. listed > 0
  OBVIOUS
<1>2. CASE b = listed - 1
  <2>1. n = 0
    BY <1>1, <1>2
  <2> QED
    BY <1>1, <1>2, <2>1 DEF Between
<1>3. CASE b # listed - 1
  <2>1. n = b + 1
    BY <1>1, <1>3
  <2> QED
    BY <1>1, <1>3, <2>1 DEF Between
<1> QED
  BY <1>2, <1>3

\* The server connect() is about to try is not one it has tried.
LEMMA NotTriedYet ==
  ASSUME NEW a \in Nat, NEW b \in Nat
  PROVE  b \notin Between(a, b)
BY DEF Between

LEMMA DropType ==
  ASSUME NEW c \in ClientRecord
  PROVE  Drop(c) \in ClientRecord
BY DEF Drop, ClientRecord

LEMMA DisconnectType ==
  ASSUME NEW c \in ClientRecord
  PROVE  Disconnect(c) \in ClientRecord
BY DEF Disconnect, NothingToDisconnect, ClientRecord

LEMMA SendFailsType ==
  ASSUME NEW c \in ClientRecord
  PROVE  SendFails(c) \in ClientRecord
BY DropType, DisconnectType DEF SendFails

\* recv() keeps the types, whatever sends of the handshake fail.
LEMMA RecvType ==
  ASSUME NEW c \in ClientRecord, NEW fails
  PROVE  Recv(c, fails) \in ClientRecord
<1>1. ASSUME NEW d \in ClientRecord, NEW step
      PROVE  SendStep(d, step, fails) \in ClientRecord
  BY SendFailsType DEF SendStep
<1>2. Handshake(c, fails) \in ClientRecord
  <2> DEFINE g == Greet(c, fails)
             up == [g EXCEPT !.connected = TRUE]
             restored == SendStep(up, "restore", fails)
             told == [restored EXCEPT !.told = "up"]
  <2>1. g \in ClientRecord
    BY <1>1 DEF Greet, ClientRecord
  <2> HIDE DEF g
  <2>2. up \in ClientRecord
    BY <2>1 DEF ClientRecord
  <2> HIDE DEF up
  <2>3. restored \in ClientRecord
    BY <1>1, <2>2
  <2> HIDE DEF restored
  <2>4. told \in ClientRecord
    BY <2>3 DEF ClientRecord
  <2> HIDE DEF told
  <2>5. Handshake(c, fails) = IF c.connected THEN c ELSE SendStep(told, "pending", fails)
    BY DEF Handshake, told, restored, up, g
  <2> QED
    BY <1>1, <2>4, <2>5
<1> DEFINE after == Handled(c, fails)
<1>3. after \in ClientRecord
  BY <1>2, DropType, DisconnectType DEF Handled
<1> HIDE DEF after
<1>4. [after EXCEPT !.peer = "served"] \in ClientRecord
  BY <1>3 DEF ClientRecord
<1> QED
  BY <1>3, <1>4 DEF Recv, after

LEMMA InitLoopInv ==
  ASSUME Init
  PROVE  LoopInv
<1>1. client \in ClientRecord
  BY DEF Init, ClientRecord
<1>2. attempts \in 0 .. AttemptCap
  BY AttemptsAssumption DEF Init
<1>3. /\ idx \in ServerIdx /\ start \in ServerIdx /\ tried \subseteq ServerIdx
      /\ listed \in Servers .. Longest
  BY LongestFacts DEF Init
<1>4. pc = "idle" /\ caller = "app" /\ result = FALSE /\ calm = FALSE
  BY DEF Init
<1> QED
  BY <1>1, <1>2, <1>3, <1>4 DEF LoopInv, TypeOK, TriedSoFar, FailoverTriesAll

\* A step that leaves the loop of connect() alone.
LEMMA OutsideLoop ==
  ASSUME LoopInv, client' \in ClientRecord, calm' \in BOOLEAN,
         UNCHANGED <<attempts, idx, listed, pc, caller, start, result, tried>>
  PROVE  LoopInv'
<1>1. TypeOK' /\ FailoverTriesAll'
  BY DEF LoopInv, TypeOK, FailoverTriesAll
<1>2. TriedSoFar'
  BY DEF LoopInv, TriedSoFar, Between
<1> QED
  BY <1>1, <1>2 DEF LoopInv

\* connect() begins with an empty list of servers tried.
LEMMA BeginLoop ==
  ASSUME LoopInv, NEW who \in {"app", "async", "reconnect"}, BeginConnect(who),
         client' \in ClientRecord, UNCHANGED <<attempts, idx, result, calm>>
  PROVE  LoopInv'
<1>1. listed' \in Servers .. Longest /\ idx' < listed'
  BY BeginListed DEF LoopInv
<1>2. idx \in ServerIdx /\ idx \in Nat
  BY LongestFacts DEF LoopInv, TypeOK
<1>3. Between(idx, idx)' = {}
  BY <1>2 DEF Between, BeginConnect
<1> QED
  BY <1>1, <1>2, <1>3 DEF LoopInv, TypeOK, TriedSoFar, FailoverTriesAll, BeginConnect

\* One server has failed: the next, or connect() returns false.
LEMMA ServerFailedLoop ==
  ASSUME LoopInv, pc \in {"dial", "handshake"},
         NEW c \in ClientRecord, ServerFailed(c), UNCHANGED <<listed, caller, start, calm>>
  PROVE  LoopInv'
<1>1. /\ idx \in 0 .. listed - 1 /\ start \in 0 .. listed - 1
      /\ listed \in Nat /\ listed <= Longest /\ Longest \in Nat
      /\ tried = Between(start, idx)
  <2>1. /\ idx \in ServerIdx /\ start \in ServerIdx
        /\ listed \in Servers .. Longest
        /\ idx < listed /\ start < listed
        /\ tried = Between(start, idx)
    BY DEF LoopInv, TypeOK, TriedSoFar
  <2>2. Longest \in Nat \ {0} /\ Servers \in 0 .. Longest
    BY LongestFacts
  <2> QED
    BY ONLY <2>1, <2>2 DEF ServerIdx
<1>6. idx' = (idx + 1) % listed /\ tried' = tried \cup {idx} /\ listed' = listed /\ start' = start
  BY DEF ServerFailed, NextServer
<1>7. /\ idx' \in 0 .. listed - 1
      /\ idx' # start => Between(start, idx) \cup {idx} = Between(start, idx')
      /\ idx' = start => Between(start, idx) \cup {idx} = 0 .. listed - 1
  <2> DEFINE n == (idx + 1) % listed
  <2>1. /\ n \in 0 .. listed - 1
        /\ n # start => Between(start, idx) \cup {idx} = Between(start, n)
        /\ n = start => Between(start, idx) \cup {idx} = 0 .. listed - 1
    <3>1. /\ listed \in Nat
          /\ start \in 0 .. listed - 1 /\ idx \in 0 .. listed - 1
      BY <1>1
    <3> QED
      BY ONLY <3>1, OneMoreServer
  <2>2. idx' = n
    BY <1>6
  <2> HIDE DEF n
  <2> QED
    BY ONLY <2>1, <2>2
<1>8. Between(start, idx)' = Between(start, idx')
  BY <1>6 DEF Between
<1>2. /\ idx' \in ServerIdx /\ idx' < listed' /\ start' < listed'
      /\ tried' \subseteq ServerIdx
      /\ idx' # start => tried' = Between(start, idx)' /\ idx' \notin tried'
      /\ idx' = start => tried' = 0 .. listed' - 1
  <2>1. idx' \in Nat /\ start \in Nat
    BY <1>1, <1>7
  <2>2. idx' \notin Between(start, idx')
    BY <2>1, NotTriedYet
  <2>3. tried' \subseteq ServerIdx
    BY <1>6 DEF LoopInv, TypeOK
  <2>4. idx' \in ServerIdx /\ idx' < listed'
    BY <1>1, <1>6, <1>7 DEF ServerIdx
  <2> QED
    BY <1>1, <1>6, <1>7, <1>8, <2>2, <2>3, <2>4
<1>3. CASE idx' = start
  <2>1. /\ client' \in ClientRecord
        /\ attempts' \in 0 .. AttemptCap
        /\ result' = FALSE /\ pc' = "returned"
    BY <1>3, CountedType DEF ServerFailed, LoopInv, TypeOK, ClientRecord
  <2> QED
    BY <1>2, <1>3, <2>1 DEF LoopInv, TypeOK, TriedSoFar, FailoverTriesAll
<1>4. CASE idx' # start
  <2>1. client' = c /\ pc' = "dial" /\ UNCHANGED <<attempts, result>>
    BY <1>4 DEF ServerFailed
  <2> QED
    BY <1>2, <1>4, <2>1 DEF LoopInv, TypeOK, TriedSoFar, FailoverTriesAll
<1> QED
  BY <1>3, <1>4

LEMMA LoopProcess ==
  ASSUME LoopInv, Process
  PROVE  LoopInv'
<1>1. client \in ClientRecord
  BY DEF LoopInv, TypeOK
<1>2. CASE ProcessAsync
  <2>1. CASE client.connected
    BY <1>2, <2>1 DEF ProcessAsync, LoopInv, TypeOK, TriedSoFar, FailoverTriesAll
  <2>2. CASE ~client.connected
    BY <1>1, <1>2, <2>2, BeginLoop DEF ProcessAsync
  <2> QED
    BY <2>1, <2>2
<1>3. CASE ProcessRecv
  BY <1>1, <1>3, RecvType, OutsideLoop DEF ProcessRecv, RecvStep, LoopInv, TypeOK
<1>4. CASE ProcessDropped
  BY <1>1, <1>4, DisconnectType, OutsideLoop DEF ProcessDropped, LoopInv, TypeOK
<1>5. CASE ProcessReconnect
  <2>1. client' \in ClientRecord
    BY <1>1, <1>5 DEF ProcessReconnect, ClientRecord
  <2> QED
    BY <1>5, <2>1, BeginLoop DEF ProcessReconnect
<1> QED
  BY <1>2, <1>3, <1>4, <1>5 DEF Process

LEMMA LoopConnecting ==
  ASSUME LoopInv, Connecting
  PROVE  LoopInv'
<1>1. client \in ClientRecord
  BY DEF LoopInv, TypeOK
<1>2. CASE Dial
  <2>1. client' \in ClientRecord
    BY <1>1, <1>2 DEF Dial, ClientRecord
  <2> QED
    BY <1>2, <2>1, AttemptsAssumption
       DEF Dial, LoopInv, TypeOK, TriedSoFar, FailoverTriesAll, Between
<1>8. CASE DialUnlisted
  <2>1. CASE \E c \in {client, Drop(client)} : ServerFailed(c)
    <3>1. PICK c \in {client, Drop(client)} : ServerFailed(c)
      BY <2>1
    <3> QED
      BY <1>1, <1>8, <3>1, DropType, ServerFailedLoop DEF DialUnlisted
  <2>2. CASE pc' = "trapped" /\ UNCHANGED <<client, attempts, idx, result, tried>>
    BY <1>8, <2>2 DEF DialUnlisted, LoopInv, TypeOK, TriedSoFar, FailoverTriesAll
  <2> QED
    BY <1>8, <2>1, <2>2 DEF DialUnlisted
<1>3. CASE HandshakeRecv
  BY <1>1, <1>3, RecvType, OutsideLoop DEF HandshakeRecv, RecvStep, LoopInv, TypeOK
<1>4. CASE HandshakeDone
  BY <1>4 DEF HandshakeDone, LoopInv, TypeOK, TriedSoFar, FailoverTriesAll
<1>5. CASE HandshakeTimeout
  <2>1. AfterTimeout(client) \in ClientRecord
    BY <1>1, DropType, DisconnectType DEF AfterTimeout
  <2> QED
    BY <1>5, <2>1, ServerFailedLoop DEF HandshakeTimeout
<1>6. CASE Return
  BY <1>6 DEF Return, LoopInv, TypeOK, TriedSoFar, FailoverTriesAll
<1>7. CASE ReturnAsync
  <2>1. client' \in ClientRecord /\ pc' \in {"idle", "crashed"}
    <3>1. CASE client.async_cb
      <4>1. PICK again \in {FALSE, ~result} :
              client' = [client EXCEPT
                              !.async_cb = FALSE,
                              !.connect_state = IF again THEN "CONNECTING"
                                                ELSE IF result THEN "CONNECTED"
                                                ELSE "DISCONNECTED"]
        BY <1>7, <3>1 DEF ReturnAsync
      <4>2. PICK s \in {"DISCONNECTED", "CONNECTING", "CONNECTED"} :
              client' = [client EXCEPT !.async_cb = FALSE, !.connect_state = s]
        BY <4>1
      <4>3. pc' = "idle"
        BY <1>7, <3>1 DEF ReturnAsync
      <4> QED
        BY <1>1, <4>2, <4>3 DEF ClientRecord
    <3>2. CASE ~client.async_cb
      BY <1>1, <1>7, <3>2 DEF ReturnAsync
    <3> QED
      BY <3>1, <3>2
  <2> QED
    BY <1>7, <2>1 DEF ReturnAsync, LoopInv, TypeOK, TriedSoFar, FailoverTriesAll
<1> QED
  BY <1>2, <1>3, <1>4, <1>5, <1>6, <1>7, <1>8 DEF Connecting

LEMMA LoopApplication ==
  ASSUME LoopInv, Application
  PROVE  LoopInv'
<1>1. client \in ClientRecord
  BY DEF LoopInv, TypeOK
<1>2. CASE AppConnect
  BY <1>1, <1>2, BeginLoop DEF AppConnect
<1>3. CASE AppConnectAsync
  <2>1. client' \in ClientRecord
    BY <1>1, <1>3 DEF AppConnectAsync, Ask, ClientRecord
  <2> QED
    BY <1>3, <2>1, OutsideLoop DEF AppConnectAsync, LoopInv, TypeOK
<1>4. CASE AppDisconnect
  BY <1>1, <1>4, DisconnectType, OutsideLoop DEF AppDisconnect, LoopInv, TypeOK
<1> QED
  BY <1>2, <1>3, <1>4 DEF Application

LEMMA LoopNetwork ==
  ASSUME LoopInv, Network
  PROVE  LoopInv'
<1>1. client \in ClientRecord
  BY DEF LoopInv, TypeOK
<1>2. ASSUME NEW c \in ClientRecord, Environment(c)
      PROVE  LoopInv'
  BY <1>2, OutsideLoop DEF Environment, LoopInv, TypeOK
<1>3. /\ [client EXCEPT !.due = TRUE] \in ClientRecord
      /\ \A p \in {"info", "tls", "err", "gone"} :
           [client EXCEPT !.peer = p] \in ClientRecord
  BY <1>1 DEF ClientRecord
<1>4. CASE DelayElapses
  BY <1>2, <1>3, <1>4 DEF DelayElapses
<1>5. CASE ServerInfo \/ ServerErr \/ ServerCloses
  BY <1>2, <1>3, <1>5 DEF ServerInfo, ServerErr, ServerCloses
<1>6. CASE WebSocketEvent
  BY <1>1, <1>2, <1>6, DropType DEF WebSocketEvent
<1>7. CASE NetworkSettles
  BY <1>1, <1>7, OutsideLoop DEF NetworkSettles
<1>8. CASE DialFails
  <2>1. PICK c \in {client, Drop(client)} : ServerFailed(c)
    BY <1>8 DEF DialFails
  <2> QED
    BY <1>1, <1>8, <2>1, DropType, ServerFailedLoop DEF DialFails
<1>9. CASE ProcessPing
  BY <1>1, <1>9, SendFailsType, DisconnectType, OutsideLoop
     DEF ProcessPing, LoopInv, TypeOK
<1> QED
  BY <1>4, <1>5, <1>6, <1>7, <1>8, <1>9 DEF Network

-----------------------------------------------------------------------------
(* The theorems                                                            *)

\* The inductive invariant holds over every transport.
THEOREM IInvAlways ==
  ASSUME "none" \notin Links
  PROVE  Spec => []IInv
<1>1. Init => IInv
  BY InitIInv
<1>2. IInv /\ [Next]_vars => IInv'
  <2> SUFFICES ASSUME IInv, [Next]_vars PROVE IInv'
    OBVIOUS
  <2>1. CASE UNCHANGED vars
    BY <2>1
       DEF vars, IInv, TypeOK, LinkSettled, OverTransport, GreetedOnOpenLink,
           BackoffStartsAfresh, ConnectedIsTold
  <2> QED
    BY <2>1, ProcessStep, ConnectingStep, ApplicationStep, NetworkStep
       DEF Next
<1> QED
  BY <1>1, <1>2, PTL DEF Spec

\* Over a transport, process() never waits on a link whose handshake failed
\* (disconnect(), connect_with_transport()).
THEOREM IdleLinkAlwaysConnected ==
  ASSUME "none" \notin Links
  PROVE  Spec => []IdleLinkIsConnected
<1>1. IInv => IdleLinkIsConnected
  BY DEF IInv, LinkSettled, IdleLinkIsConnected
<1> QED
  BY <1>1, IInvAlways, PTL

\* Over a transport, a client that counts as connected on an open link has come
\* through send_connect() on that link: CONNECT was sent, or could not be built
\* (recv()).
THEOREM GreetedAlways ==
  ASSUME "none" \notin Links
  PROVE  Spec => []GreetedOnOpenLink
<1>1. IInv => GreetedOnOpenLink
  BY DEF IInv
<1> QED
  BY <1>1, IInvAlways, PTL

\* Over a transport, a connection always starts the backoff afresh
\* (connect_with_transport(), get_reconnect_delay()).
THEOREM BackoffAlwaysAfresh ==
  ASSUME "none" \notin Links
  PROVE  Spec => []BackoffStartsAfresh
<1>1. IInv => BackoffStartsAfresh
  BY DEF IInv
<1> QED
  BY <1>1, IInvAlways, PTL

\* The inductive invariant of the loop holds over every link.
THEOREM LoopInvAlways == Spec => []LoopInv
<1>1. Init => LoopInv
  BY InitLoopInv
<1>2. LoopInv /\ [Next]_vars => LoopInv'
  <2> SUFFICES ASSUME LoopInv, [Next]_vars PROVE LoopInv'
    OBVIOUS
  <2>1. CASE UNCHANGED vars
    BY <2>1 DEF vars, LoopInv, TypeOK, TriedSoFar, FailoverTriesAll, Between
  <2> QED
    BY <2>1, LoopProcess, LoopConnecting, LoopApplication, LoopNetwork DEF Next
<1> QED
  BY <1>1, <1>2, PTL DEF Spec

\* Over every link the members of class NATS keep their types; in particular,
\* wherever current_server_idx begins and however many servers the constructor
\* skipped, while connect() runs it is the index of an entry the list has.
THEOREM TypeCorrect == Spec => []TypeOK
<1>1. LoopInv => TypeOK
  BY DEF LoopInv
<1> QED
  BY <1>1, LoopInvAlways, PTL

\* connect() never returns false with a server of the list left untried, and
\* tries none twice, however long the list, wherever it begins (outside it, too),
\* and whatever another task or the network does meanwhile (connect(),
\* connect_with_transport()).
THEOREM FailoverAlwaysTriesAll == Spec => []FailoverTriesAll
<1>1. LoopInv => FailoverTriesAll
  BY DEF LoopInv
<1> QED
  BY <1>1, LoopInvAlways, PTL
=============================================================================
