----------------------- MODULE OutboundOneTaskProofs -----------------------
(***************************************************************************)
(* What one task may rely on that publishes, flushes and runs process():   *)
(* the order of its messages, the count of its PINGs, and that a flush()   *)
(* which returns true means what it says.  Every step of Outbound is       *)
(* looked at once for each part of the inductive invariant SoloInv.        *)
(***************************************************************************)
EXTENDS OutboundProofs

-----------------------------------------------------------------------------
(* One task                                                                *)

\* When one task does everything, its frame says where the client is.
Solo == task[Main]

\* The frame of the one task after a step.
SoloBecomes(pc, msg, stage, flush, initial, due) ==
  /\ Solo'.pc = pc /\ Solo'.msg = msg /\ Solo'.stage = stage
  /\ Solo'.flush = flush /\ Solo'.initial = initial /\ Solo'.due = due

SoloStays ==
  SoloBecomes(Solo.pc, Solo.msg, Solo.stage, Solo.flush, Solo.initial, Solo.due)

LEMMA SoloType ==
  ASSUME TypeOK
  PROVE  /\ Main \in Task /\ Main \in tasks
         /\ Solo \in TaskRecord /\ Frame(Solo)
         /\ LinkOK
BY ConstantFacts, TypedFrames, TypeParts DEF TypeOK, Solo

LEMMA SoloGoto ==
  ASSUME TypeOK, NEW pc, Goto(Main, pc)
  PROVE  SoloBecomes(pc, Solo.msg, Solo.stage, Solo.flush, Solo.initial, Solo.due)
BY SoloType DEF Goto, Becomes, SoloBecomes, Solo, TypeOK, TaskRecord

LEMMA SoloPublished ==
  ASSUME TypeOK, NEW c, Published(Main, c)
  PROVE  SoloBecomes("idle", NoMessage,
                     IF Solo.stage = "replay" /\ ~c THEN "run" ELSE Solo.stage,
                     Solo.flush, Solo.initial, Solo.due)
BY SoloType DEF Published, Finished, Becomes, SoloBecomes, Solo, TypeOK, TaskRecord

LEMMA SoloHolding ==
  ASSUME TypeOK, NEW m, Becomes(Main, Holding(task[Main], m))
  PROVE  SoloBecomes("check", m, Solo.stage, Solo.flush, Solo.initial, Solo.due)
BY SoloType DEF Holding, Becomes, SoloBecomes, Solo, TypeOK, TaskRecord

LEMMA SoloStage ==
  ASSUME TypeOK, NEW s, Becomes(Main, [task[Main] EXCEPT !.stage = s])
  PROVE  SoloBecomes(Solo.pc, Solo.msg, s, Solo.flush, Solo.initial, Solo.due)
BY SoloType DEF Becomes, SoloBecomes, Solo, TypeOK, TaskRecord

LEMMA SoloFlushing ==
  ASSUME TypeOK, NEW pc, NEW s, NEW n, NEW due,
         Becomes(Main, Flushing(task[Main], pc, s, n, due))
  PROVE  SoloBecomes(pc, Solo.msg, Solo.stage, s, n, due)
BY SoloType DEF Flushing, Becomes, SoloBecomes, Solo, TypeOK, TaskRecord

LEMMA SoloSame ==
  ASSUME UNCHANGED task PROVE SoloStays
BY DEF SoloStays, SoloBecomes, Solo

\* The steps of the one task and of what surrounds it.
SoloNext ==
  \/ Application(Main) \/ Progress(Main) \/ Recv(Main) \/ ConnectionEnds(Main)
  \/ PingCheck \/ Process \/ HandshakeFails \/ ServerReads \/ Environment

LEMMA SoloSteps ==
  ASSUME TypeOK, Alone, [Next]_vars
  PROVE  Alone' /\ UNCHANGED tasks /\ (SoloNext \/ UNCHANGED vars)
<1>1. UNCHANGED tasks
  BY DEF Next, vars, Application, Progress, Recv, ConnectionEnds, PingCheck, Process,
         HandshakeFails, ServerReads, Environment, Publish, FlushBegin, PublishCheck, PublishPush,
         PublishLine, PublishPayload, ReplayBegin, ReplayPop, PingSend, FlushTrue,
         FlushFalse, FlushReturns, RecvInfo, RecvPong, RecvPing, PingCount, Dial,
         ProcessDropped, TransportDrops, ServerPings, MoodChanges
<1> QED
  BY <1>1 DEF Alone, Next, SoloNext

\* The link, and what the one task believes of it, wherever it is: nothing is
\* under way without one, and only a link whose handshake is not done may be without
\* a peer.
LinkKept ==
  /\ ~past.raced
  /\ ~conn.open => out = <<>> /\ in = <<>> /\ server.expects = NoMessage
  /\ conn.dialing \/ conn.dead => conn.open /\ ~conn.connected
  /\ conn.dead => conn.link # "transport"
  /\ conn.link = "socket" /\ conn.connected => conn.open
  /\ conn.link = "socket" => past.dropped = {}

\* Before INFO nothing is sent but the PINGs of the keepalive, and on these only if
\* connect() has given up; a message whose line is about to be sent has a
\* connection, one about to be buffered has none.
SoloLink ==
  /\ LinkKept
  /\ InConnect => /\ Solo.pc = "idle" /\ Solo.stage = "run" /\ Solo.flush = "no"
                  /\ out = <<>> /\ in = <<>> /\ server.expects = NoMessage
                  /\ pings = 0
  /\ HalfOpen => /\ Solo.pc \notin {"line", "payload"}
                 /\ Solo.stage = "run" /\ Solo.flush = "no"
                 /\ out \in Seq({Ping}) /\ in \in Seq({Pong})
                 /\ server.expects = NoMessage
  /\ Solo.pc = "line" => conn.connected
  /\ Solo.pc = "push" => ~conn.connected

ConnType == [link : Links, open : BOOLEAN, connected : BOOLEAN,
             dialing : BOOLEAN, dead : BOOLEAN]

\* What disconnect() leaves: no link, nothing under way.
LEMMA LinkGone ==
  ASSUME TypeOK, Disconnect
  PROVE  /\ ~conn'.open /\ ~conn'.connected /\ conn'.link = conn.link
         /\ ~conn'.dialing /\ ~conn'.dead
         /\ out' = <<>> /\ in' = <<>>
         /\ server'.expects = NoMessage /\ server'.got = server.got
         /\ server'.garbled = server.garbled
BY SoloType DEF Disconnect, EmptyLink, LinkOK

\* The same when the peer goes away, which may leave a link without it.
LEMMA LinkCut ==
  ASSUME TypeOK, LinkFails
  PROVE  /\ ~conn'.connected /\ conn'.link = conn.link
         /\ \/ Disconnect
            \/ /\ conn'.open = conn.open /\ conn'.dialing = conn.dialing
               /\ conn'.dead /\ ~conn.connected /\ conn.link # "transport"
         /\ out' = <<>> /\ in' = <<>>
         /\ server'.expects = NoMessage /\ server'.got = server.got
         /\ server'.garbled = server.garbled
<1>1. CASE Disconnect
  BY <1>1, LinkGone
<1>2. CASE ~Disconnects /\ conn' = [conn EXCEPT !.dead = TRUE] /\ EmptyLink
  BY <1>2, SoloType DEF Disconnects, EmptyLink, LinkOK
<1> QED
  BY <1>1, <1>2 DEF LinkFails

\* What is left of the link when connect() waits no longer.
LEMMA HandshakeOver ==
  ASSUME TypeOK, HandshakeFails
  PROVE  /\ ~conn'.connected \/ conn'.connected = conn.connected
         /\ conn'.link = conn.link
         /\ server'.got = server.got /\ server'.garbled = server.garbled
         /\ UNCHANGED <<task, pending, next, past>>
         /\ InConnect /\ Receiving(Main)
         /\ \/ Disconnect /\ UNCHANGED pings
            \/ /\ conn'.open = conn.open /\ ~conn'.dialing /\ conn'.dead = conn.dead
               /\ conn'.connected = conn.connected
               /\ UNCHANGED <<out, in, server, pings>>
            \/ /\ conn'.open = conn.open /\ conn'.dialing = conn.dialing /\ ~conn'.dead
               /\ conn'.connected = conn.connected
               /\ out' = <<>> /\ in' = <<>> /\ server'.expects = NoMessage /\ pings' = 0
<1>1. UNCHANGED <<task, pending, next, past>> /\ InConnect /\ Receiving(Main)
  BY DEF HandshakeFails
<1>2. CASE Disconnect /\ UNCHANGED pings
  BY <1>1, <1>2, LinkGone
<1>3. CASE conn' = [conn EXCEPT !.dialing = FALSE] /\ UNCHANGED <<out, in, server, pings>>
  BY <1>1, <1>3, SoloType DEF LinkOK
<1>4. CASE conn' = [conn EXCEPT !.dead = FALSE] /\ EmptyLink /\ pings' = 0
  BY <1>1, <1>4, SoloType DEF LinkOK, EmptyLink
<1> QED
  BY <1>2, <1>3, <1>4 DEF HandshakeFails

\* The same when a transport drops, but the client is not told.
LEMMA LinkDropped ==
  ASSUME TypeOK, TransportDrops
  PROVE  /\ ~conn'.open /\ conn'.connected = conn.connected /\ conn'.link = conn.link
         /\ ~conn'.dialing /\ conn'.dead = conn.dead
         /\ conn.link = "transport"
         /\ out' = <<>> /\ in' = <<>>
         /\ server'.expects = NoMessage /\ server'.got = server.got
         /\ server'.garbled = server.garbled
BY SoloType DEF TransportDrops, EmptyLink, LinkOK

\* The three outcomes of a send.
Sent(item) ==
  /\ conn.open /\ ~conn.dead
  /\ out' = Append(out, item) /\ UNCHANGED <<conn, in, server, past>>
Voided ==
  /\ ~conn.open \/ conn.dead
  /\ UNCHANGED <<conn, out, in, server>>
  /\ past'.raced = past.raced /\ past'.reordered = past.reordered
  /\ past'.eager = past.eager
SendFails == conn.open /\ LinkFails /\ UNCHANGED past

LEMMA SendCases ==
  ASSUME TypeOK, NEW item, Send(item)
  PROVE  \/ Sent(item)
         \/ Voided /\ (item.kind \notin {"line", "headers"} => UNCHANGED past)
         \/ SendFails
BY TypeParts DEF Send, Sent, Voided, SendFails, PastType

\* What a send does to the link.
LEMMA SendLink ==
  ASSUME TypeOK, SoloLink, conn.open => conn.connected, NEW item, Send(item),
         item.kind \in {"line", "headers"} => conn.connected
  PROVE  LinkKept' /\ ~InConnect' /\ ~HalfOpen'
<1>1. CASE Sent(item)
  BY <1>1 DEF SoloLink, LinkKept, Sent, InConnect, HalfOpen
<1>2. CASE Voided /\ (item.kind \notin {"line", "headers"} => UNCHANGED past)
  BY <1>2 DEF SoloLink, LinkKept, Voided, InConnect, HalfOpen
<1>3. CASE SendFails
  BY <1>3, LinkCut, LinkGone DEF SoloLink, LinkKept, SendFails, InConnect, HalfOpen
<1> QED
  BY <1>1, <1>2, <1>3, SendCases

LEMMA SoloLinkStep ==
  ASSUME TypeOK, Alone, SoloLink, SoloNext
  PROVE  SoloLink'
<1> USE SoloType
<1>0. UNCHANGED <<past, conn, out, in, server, pings>> /\ SoloStays => SoloLink'
  BY DEF SoloLink, LinkKept, SoloStays, SoloBecomes, InConnect, HalfOpen
<1>1. CASE Publish(Main)
  <2>1. SoloBecomes("check", next + 1, Solo.stage, Solo.flush, Solo.initial, Solo.due)
    BY <1>1, SoloHolding DEF Publish
  <2>2. UNCHANGED <<conn, out, in, server, pings>> /\ ~InConnect
    BY <1>1 DEF Publish, Free
  <2>3. past'.raced = past.raced /\ past'.dropped = past.dropped
    BY <1>1, TypeParts DEF Publish, PastType
  <2> QED
    BY <2>1, <2>2, <2>3 DEF SoloLink, LinkKept, SoloBecomes, InConnect, HalfOpen
<1>2. CASE PublishCheck(Main)
  <2>1. UNCHANGED <<conn, out, in, server, pings, past>> /\ Solo.pc = "check"
    BY <1>2 DEF PublishCheck, At, Solo
  <2>2. ~InConnect
    BY <2>1 DEF SoloLink, LinkKept
  <2>3. CASE conn.connected /\ Goto(Main, "line")
    BY <2>1, <2>2, <2>3, SoloGoto DEF SoloLink, LinkKept, SoloBecomes, InConnect, HalfOpen
  <2>4. CASE Published(Main, FALSE)
    BY <2>1, <2>2, <2>4, SoloPublished DEF SoloLink, LinkKept, SoloBecomes, InConnect, HalfOpen
  <2>5. CASE ~conn.connected /\ Goto(Main, "push")
    BY <2>1, <2>2, <2>5, SoloGoto DEF SoloLink, LinkKept, SoloBecomes, InConnect, HalfOpen
  <2> QED
    BY <1>2, <2>3, <2>4, <2>5 DEF PublishCheck
<1>3. CASE PublishPush(Main)
  <2>1. /\ UNCHANGED <<conn, out, in, server, pings>> /\ Solo.pc = "push"
        /\ Published(Main, conn.connected)
    BY <1>3 DEF PublishPush, At, Solo
  <2>2. UNCHANGED past
    BY <1>3 DEF PublishPush, QueueInUse, SoloLink, LinkKept, Alone
  <2> QED
    BY <2>1, <2>2, SoloPublished DEF SoloLink, LinkKept, SoloBecomes, InConnect, HalfOpen
<1>4. CASE PublishLine(Main)
  <2>1. Solo.pc = "line" /\ UNCHANGED pings /\ conn.connected
    BY <1>4 DEF PublishLine, At, Solo, SoloLink, LinkKept
  <2>2. \E item : Send(item)
    BY <1>4 DEF PublishLine
  <2>3. LinkKept' /\ ~InConnect' /\ ~HalfOpen'
    BY <2>1, <2>2, SendLink
  <2>4. Solo'.pc \in {"idle", "payload"}
    BY <1>4, SoloGoto, SoloPublished DEF PublishLine, SoloBecomes
  <2> QED
    BY <2>3, <2>4 DEF SoloLink
<1>5. CASE PublishPayload(Main)
  <2>1. Solo.pc = "payload" /\ ~InConnect /\ ~HalfOpen
    BY <1>5 DEF PublishPayload, At, Solo, SoloLink
  <2>2. Solo'.pc = "idle"
    BY <1>5, SoloPublished DEF PublishPayload, SoloBecomes
  <2>3. CASE SendNothing
    BY <2>1, <2>2, <2>3 DEF SoloLink, LinkKept, SendNothing, InConnect, HalfOpen
  <2>4. CASE Send(Payload(Solo.msg))
    <3>1. Payload(Solo.msg).kind = "payload"
      BY DEF Payload
    <3>2. conn.open => conn.connected
      BY <2>1 DEF InConnect, HalfOpen
    <3>3. LinkKept' /\ ~InConnect' /\ ~HalfOpen'
      BY <2>4, <3>1, <3>2, SendLink
    <3> QED
      BY <2>2, <3>3 DEF SoloLink
  <2> QED
    BY <1>5, <2>3, <2>4 DEF PublishPayload, SendPayload, Solo
<1>6. CASE ReplayBegin(Main)
  <2>1. /\ UNCHANGED <<conn, out, in, server, pings>>
        /\ Solo.stage = "on_connect" /\ Solo.pc = "idle"
    BY <1>6 DEF ReplayBegin, At, Solo
  <2>2. Solo'.pc = "idle"
    BY <1>6, <2>1, SoloStage DEF ReplayBegin, SoloBecomes
  <2>3. past'.raced = past.raced /\ past'.dropped = past.dropped
    BY <1>6, TypeParts DEF ReplayBegin, PastType
  <2> QED
    BY <2>1, <2>2, <2>3 DEF SoloLink, LinkKept, InConnect, HalfOpen
<1>7. CASE ReplayPop(Main)
  <2>1. /\ UNCHANGED <<conn, out, in, server, pings, past>>
        /\ Solo.stage = "replay" /\ Solo.pc = "idle"
    BY <1>7 DEF ReplayPop, At, Solo
  <2>2. Solo'.pc \in {"idle", "check"}
    BY <1>7, <2>1, SoloStage, SoloHolding DEF ReplayPop, SoloBecomes
  <2> QED
    BY <2>1, <2>2 DEF SoloLink, LinkKept, InConnect, HalfOpen
<1>8. CASE PingSend(Main)
  <2>1. Solo.pc = "pingsend" /\ ~InConnect /\ Send(Ping)
    BY <1>8 DEF PingSend, At, Solo, SoloLink
  <2>2. Solo'.pc = "idle" /\ Solo'.stage = Solo.stage /\ Solo'.flush = Solo.flush
    BY <1>8, SoloGoto DEF PingSend, SoloBecomes
  <2>3. Ping.kind = "PING" /\ Ping \in {Ping}
    BY DEF Ping
  <2>4. CASE ~HalfOpen
    <3>1. conn.open => conn.connected
      BY <2>1, <2>4 DEF InConnect, HalfOpen
    <3>2. LinkKept' /\ ~InConnect' /\ ~HalfOpen'
      BY <2>1, <2>3, <3>1, SendLink
    <3> QED
      BY <2>2, <3>2 DEF SoloLink
  <2>5. CASE HalfOpen
    <3>1. out \in Seq({Ping}) /\ in \in Seq({Pong}) /\ ~conn.connected /\ ~conn.dialing
      BY <2>5 DEF SoloLink, HalfOpen
    <3>2. CASE Sent(Ping)
      <4>1. out' \in Seq({Ping}) /\ in' \in Seq({Pong})
        BY <2>3, <3>1, <3>2 DEF Sent
      <4> QED
        BY <2>2, <2>5, <3>2, <4>1 DEF SoloLink, LinkKept, Sent, InConnect, HalfOpen
    <3>3. CASE Voided /\ UNCHANGED past
      BY <2>2, <2>5, <3>3 DEF SoloLink, LinkKept, Voided, InConnect, HalfOpen
    <3>4. CASE SendFails
      <4>1. out' \in Seq({Ping}) /\ in' \in Seq({Pong})
        BY <3>4, LinkCut DEF SendFails
      <4> QED
        BY <2>2, <2>5, <3>1, <3>4, <4>1, LinkCut, LinkGone
           DEF SoloLink, LinkKept, SendFails, InConnect, HalfOpen
    <3> QED
      BY <2>1, <2>3, <3>2, <3>3, <3>4, SendCases
  <2> QED
    BY <2>4, <2>5
<1>9. CASE FlushTrue(Main) \/ FlushFalse(Main)
  <2>1. /\ UNCHANGED <<conn, out, in, server, pings, past>>
        /\ Solo.flush = Solo.stage /\ Becomes(Main, Flushing(task[Main], "idle", "no", 0, {}))
    BY <1>9 DEF FlushTrue, FlushFalse, FlushReturns, Solo
  <2> QED
    BY <2>1, SoloFlushing DEF SoloLink, LinkKept, SoloBecomes, InConnect, HalfOpen
<1>10. CASE FlushBegin(Main)
  <2>1. UNCHANGED <<conn, out, in, server, past>> /\ conn.connected
    BY <1>10 DEF FlushBegin
  <2>2. Solo'.pc = "pingsend"
    BY <1>10, SoloFlushing DEF FlushBegin, SoloBecomes
  <2> QED
    BY <2>1, <2>2 DEF SoloLink, LinkKept, InConnect, HalfOpen
<1>11. CASE RecvInfo(Main)
  <2>1. UNCHANGED <<pings, past>> /\ (InConnect \/ HalfOpen) /\ ~conn.dead
    BY <1>11 DEF RecvInfo
  <2>2. Solo'.pc = "idle"
    BY <1>11, SoloStage DEF RecvInfo, Receiving, At, Solo, SoloBecomes
  <2>3. CASE /\ conn' = [conn EXCEPT !.connected = TRUE, !.dialing = FALSE]
             /\ UNCHANGED <<out, in, server>>
    <3>1. /\ conn'.open = conn.open /\ conn'.link = conn.link /\ conn'.connected
          /\ ~conn'.dialing /\ conn'.dead = conn.dead
      BY <2>3 DEF LinkOK
    <3>2. conn.open
      BY <2>1 DEF SoloLink, LinkKept, InConnect, HalfOpen
    <3> QED
      BY <2>1, <2>2, <2>3, <3>1, <3>2 DEF SoloLink, LinkKept, InConnect, HalfOpen
  <2>4. CASE Disconnect
    BY <2>1, <2>2, <2>4, LinkGone DEF SoloLink, LinkKept, InConnect, HalfOpen
  <2> QED
    BY <1>11, <2>3, <2>4 DEF RecvInfo
<1>12. CASE RecvPong(Main)
  <2>1. UNCHANGED <<conn, out, server, past, task>> /\ in # <<>> /\ conn.connected
    BY <1>12 DEF RecvPong
  <2> QED
    BY <2>1, SoloSame DEF SoloLink, LinkKept, SoloStays, SoloBecomes, InConnect, HalfOpen
<1>13. CASE Disconnect /\ UNCHANGED <<past, task>> /\ At(Main, "idle")
  BY <1>13, LinkGone, SoloSame
     DEF SoloLink, LinkKept, SoloStays, SoloBecomes, InConnect, HalfOpen, At, Solo
<1>22. CASE /\ LinkFails /\ conn.open /\ UNCHANGED <<past, task, pings>>
            /\ At(Main, "idle")
  <2>1. SoloStays /\ Solo.pc = "idle"
    BY <1>22, SoloSame DEF At, Solo
  <2>2. CASE Disconnect
    BY <1>13, <1>22, <2>2
  <2>3. CASE ~Disconnect
    <3>1. /\ conn'.open = conn.open /\ conn'.dialing = conn.dialing /\ conn'.dead
          /\ ~conn.connected /\ ~conn'.connected /\ conn'.link = conn.link
          /\ conn.link # "transport"
          /\ out' = <<>> /\ in' = <<>> /\ server'.expects = NoMessage
      BY <1>22, <2>3, LinkCut
    <3>2. out' \in Seq({Ping}) /\ in' \in Seq({Pong})
      BY <3>1
    <3>3. LinkKept'
      BY <1>22, <3>1 DEF SoloLink, LinkKept
    <3> QED
      BY <1>22, <2>1, <3>1, <3>2, <3>3
         DEF SoloLink, SoloStays, SoloBecomes, InConnect, HalfOpen
  <2> QED
    BY <2>2, <2>3
<1>23. CASE HandshakeFails
  <2>1. InConnect /\ SoloStays /\ Solo.pc = "idle" /\ At(Main, "idle") /\ UNCHANGED <<past, task>>
    BY <1>23, HandshakeOver, SoloSame DEF Receiving, At, Solo
  <2>2. CASE Disconnect
    BY <1>13, <2>1, <2>2
  <2>3. CASE /\ conn'.open = conn.open /\ ~conn'.dialing /\ conn'.dead = conn.dead
             /\ conn'.connected = conn.connected
             /\ UNCHANGED <<out, in, server, pings>>
    <3>1. out' \in Seq({Ping}) /\ in' \in Seq({Pong})
      BY <2>1, <2>3 DEF SoloLink
    <3>2. conn'.link = conn.link
      BY <1>23, HandshakeOver
    <3> QED
      BY <2>1, <2>3, <3>1, <3>2 DEF SoloLink, LinkKept, SoloStays, SoloBecomes, InConnect, HalfOpen
  <2>4. CASE /\ conn'.open = conn.open /\ conn'.dialing = conn.dialing /\ ~conn'.dead
             /\ conn'.connected = conn.connected
             /\ out' = <<>> /\ in' = <<>> /\ server'.expects = NoMessage /\ pings' = 0
    <3>2. conn'.link = conn.link
      BY <1>23, HandshakeOver
    <3> QED
      BY <2>1, <2>4, <3>2 DEF SoloLink, LinkKept, SoloStays, SoloBecomes, InConnect, HalfOpen
  <2> QED
    BY <1>23, <2>2, <2>3, <2>4, HandshakeOver
<1>14. CASE RecvPing(Main)
  <2>1. conn.connected /\ UNCHANGED <<past, task, pings>> /\ At(Main, "idle")
    BY <1>14 DEF RecvPing, Receiving
  <2>2. CASE conn.open /\ UNCHANGED <<conn, server>> /\ in # <<>>
    BY <2>1, <2>2, SoloSame
       DEF SoloLink, LinkKept, SoloStays, SoloBecomes, InConnect, HalfOpen
  <2>3. CASE LinkFails
    BY <1>13, <2>1, <2>3, LinkCut
  <2> QED
    BY <1>14, <2>2, <2>3 DEF RecvPing
<1>15. CASE PingCheck
  <2>1. /\ UNCHANGED <<past, pings>> /\ conn.open /\ ~InConnect /\ At(Main, "idle")
        /\ Solo.pc = "idle"
    BY <1>15 DEF PingCheck, InProcess, At, Solo
  <2>2. CASE Disconnect /\ UNCHANGED task
    BY <1>13, <2>1, <2>2
  <2>3. CASE UNCHANGED <<conn, out, in, server, task>>
    BY <1>0, <2>1, <2>3, SoloSame
  <2>4. CASE Goto(Main, "ping") /\ UNCHANGED <<conn, out, in, server>>
    BY <2>1, <2>4, SoloGoto DEF SoloLink, LinkKept, SoloBecomes, InConnect, HalfOpen
  <2> QED
    BY <1>15, <2>2, <2>3, <2>4 DEF PingCheck
<1>16. CASE PingCount
  <2>1. UNCHANGED <<conn, out, in, server, past>> /\ Goto(Main, "pingsend") /\ Solo.pc = "ping"
    BY <1>16 DEF PingCount, At, Solo
  <2> QED
    BY <2>1, SoloGoto DEF SoloLink, LinkKept, SoloBecomes, InConnect, HalfOpen
<1>17. CASE Dial
  <2>1. /\ UNCHANGED <<out, in, server, past, task>> /\ pings' = 0
        /\ ~conn.open /\ ~conn.connected
        /\ Solo.pc = "idle" /\ Solo.stage = "run" /\ Solo.flush = "no"
    BY <1>17 DEF Dial, InProcess, At, Solo
  <2>2. /\ conn'.open /\ ~conn'.connected /\ conn'.dialing /\ conn'.link = conn.link
        /\ conn'.dead = conn.dead
    BY <1>17, <2>1 DEF Dial, LinkOK
  <2> QED
    BY <2>1, <2>2, SoloSame DEF SoloLink, LinkKept, SoloStays, SoloBecomes, InConnect, HalfOpen
<1>18. CASE ServerReads
  <2>1. UNCHANGED <<conn, past, task, pings>> /\ out # <<>> /\ conn.open
    BY <1>18 DEF ServerReads
  <2>2. ~InConnect
    BY <2>1 DEF SoloLink
  <2>3. CASE ~HalfOpen
    BY <2>1, <2>2, <2>3, SoloSame
       DEF SoloLink, LinkKept, SoloStays, SoloBecomes, InConnect, HalfOpen
  <2>4. CASE HalfOpen
    <3>1. out \in Seq({Ping}) /\ in \in Seq({Pong}) /\ server.expects = NoMessage
      BY <2>4 DEF SoloLink
    <3>2. Head(out) = Ping /\ Tail(out) \in Seq({Ping}) /\ Append(in, Pong) \in Seq({Pong})
      BY <2>1, <3>1
    <3>3. out' \in Seq({Ping}) /\ in' \in Seq({Pong}) /\ server' = Parsed(server, Ping)
      BY <1>18, <3>2 DEF ServerReads
    <3>4. server' = server
      BY <3>1, <3>3 DEF Parsed, Ping, NoMessage
    <3> QED
      BY <2>1, <2>2, <2>4, <3>3, <3>4, SoloSame
         DEF SoloLink, LinkKept, SoloStays, SoloBecomes, InConnect, HalfOpen
  <2> QED
    BY <2>3, <2>4
<1>19. CASE TransportDrops
  <2>1. UNCHANGED <<past, task, pings>>
    BY <1>19 DEF TransportDrops
  <2>2. /\ ~conn'.open /\ conn'.connected = conn.connected /\ conn'.link = conn.link
        /\ ~conn'.dialing /\ conn'.dead = conn.dead /\ conn.link = "transport"
        /\ out' = <<>> /\ in' = <<>> /\ server'.expects = NoMessage /\ SoloStays
    BY <1>19, <2>1, LinkDropped, SoloSame
  <2>3. LinkKept'
    BY <2>1, <2>2 DEF SoloLink, LinkKept
  <2> QED
    BY <1>19, <2>1, <2>2, <2>3 DEF SoloLink, SoloStays, SoloBecomes, InConnect, HalfOpen
<1>20. CASE ServerPings
  <2>1. UNCHANGED <<conn, out, server, past, task, pings>> /\ conn.open /\ conn.connected
    BY <1>20 DEF ServerPings
  <2> QED
    BY <2>1, SoloSame DEF SoloLink, LinkKept, SoloStays, SoloBecomes, InConnect, HalfOpen
<1>21. CASE MoodChanges
  BY <1>0, <1>21, SoloSame DEF MoodChanges
<1> QED
  BY <1>1, <1>2, <1>3, <1>4, <1>5, <1>6, <1>7, <1>8, <1>9, <1>10, <1>11, <1>12, <1>13,
     <1>14, <1>15, <1>16, <1>17, <1>18, <1>19, <1>20, <1>21, <1>22, <1>23
     DEF SoloNext, Application, Progress, Recv, Process, Environment, ConnectionEnds,
         ProcessDropped, Receiving, InProcess

-----------------------------------------------------------------------------
(* outstanding_pings                                                       *)

\* Counting the places of an item in a sequence.
LEMMA CountFacts ==
  ASSUME NEW S, NEW s \in Seq(S), NEW x
  PROVE  /\ IsFiniteSet({i \in DOMAIN s : s[i] = x})
         /\ Count(s, x) \in Nat
         /\ \A i \in DOMAIN s : s[i] = x => Count(s, x) >= 1
<1>1. IsFiniteSet(1 .. Len(s)) /\ DOMAIN s = 1 .. Len(s)
  BY FS_Interval
<1>2. IsFiniteSet({i \in DOMAIN s : s[i] = x})
  BY <1>1, FS_Subset
<1>3. Count(s, x) \in Nat
  BY <1>2, FS_CardinalityType DEF Count
<1>4. ASSUME NEW i \in DOMAIN s, s[i] = x
      PROVE  Count(s, x) # 0
  BY <1>2, <1>4, FS_EmptySet DEF Count
<1> QED
  BY <1>2, <1>3, <1>4

LEMMA CountEmpty ==
  ASSUME NEW x PROVE Count(<<>>, x) = 0
<1>1. {i \in DOMAIN <<>> : <<>>[i] = x} = {}
  OBVIOUS
<1> QED
  BY <1>1, FS_EmptySet DEF Count

LEMMA CountAppend ==
  ASSUME NEW S, NEW s \in Seq(S), NEW y \in S, NEW x
  PROVE  Count(Append(s, y), x) = Count(s, x) + (IF y = x THEN 1 ELSE 0)
<1> DEFINE n == Len(s) + 1
           A == {i \in DOMAIN s : s[i] = x}
           B == {i \in DOMAIN Append(s, y) : Append(s, y)[i] = x}
<1>1. IsFiniteSet(A) /\ n \notin A
  <2>1. DOMAIN s = 1 .. Len(s) /\ Len(s) \in Nat
    OBVIOUS
  <2>2. IsFiniteSet(A)
    BY CountFacts
  <2>3. n \notin DOMAIN s
    BY <2>1
  <2> QED
    BY <2>2, <2>3
<1>2. B = IF y = x THEN A \cup {n} ELSE A
  <2>1. Append(s, y) \in Seq(S) /\ DOMAIN Append(s, y) = 1 .. n /\ DOMAIN s = 1 .. Len(s)
    OBVIOUS
  <2>2. \A i \in 1 .. n : Append(s, y)[i] = IF i = n THEN y ELSE s[i]
    OBVIOUS
  <2>3. \A i \in 1 .. n : i = n \/ i \in 1 .. Len(s)
    OBVIOUS
  <2> QED
    BY <2>1, <2>2, <2>3
<1> HIDE DEF A, B, n
<1>3. Cardinality(A) \in Nat
  BY <1>1, FS_CardinalityType
<1>4. Cardinality(B) = Cardinality(A) + (IF y = x THEN 1 ELSE 0)
  <2>1. CASE y = x
    BY <1>1, <1>2, <1>3, <2>1, FS_AddElement
  <2>2. CASE y # x
    BY <1>2, <1>3, <2>2
  <2> QED
    BY <2>1, <2>2
<1> QED
  BY <1>4 DEF Count, A, B

LEMMA CountTail ==
  ASSUME NEW S, NEW s \in Seq(S), s # <<>>, NEW x
  PROVE  Count(s, x) = Count(Tail(s), x) + (IF Head(s) = x THEN 1 ELSE 0)
<1> DEFINE A == {i \in DOMAIN s : s[i] = x}
           B == {i \in DOMAIN Tail(s) : Tail(s)[i] = x}
           C == A \ {1}
           f == [i \in B |-> i + 1]
<1>1. /\ DOMAIN s = 1 .. Len(s) /\ Len(s) \in Nat /\ Len(s) >= 1
      /\ Tail(s) \in Seq(S) /\ DOMAIN Tail(s) = 1 .. Len(s) - 1
      /\ \A i \in 1 .. Len(s) - 1 : Tail(s)[i] = s[i + 1]
      /\ Head(s) = s[1]
  OBVIOUS
<1>2. IsFiniteSet(A) /\ IsFiniteSet(B)
  BY <1>1, CountFacts
<1>3. f \in Bijection(B, C)
  <2>1. \A i \in B : i + 1 \in C /\ i \in Nat
    BY <1>1
  <2>2. \A j \in C : j - 1 \in B /\ j = (j - 1) + 1
    BY <1>1
  <2>3. f \in [B -> C]
    BY <2>1
  <2>4. \A a, b \in B : f[a] = f[b] => a = b
    BY <2>1
  <2>5. \A j \in C : \E i \in B : f[i] = j
    BY <2>2
  <2> QED
    BY <2>3, <2>4, <2>5 DEF Bijection, Injection, Surjection, IsInjective
<1>4. Cardinality(C) = Cardinality(B) /\ IsFiniteSet(C)
  BY <1>2, <1>3, FS_Bijection DEF ExistsBijection
<1>5. 1 \in A <=> Head(s) = x
  BY <1>1
<1> HIDE DEF A, B, C, f
<1>6. Cardinality(A) \in Nat /\ Cardinality(B) \in Nat
  BY <1>2, FS_CardinalityType
<1>7. Cardinality(C) = IF 1 \in A THEN Cardinality(A) - 1 ELSE Cardinality(A)
  BY <1>2, FS_RemoveElement DEF C
<1>8. Cardinality(A) = Cardinality(B) + (IF Head(s) = x THEN 1 ELSE 0)
  BY <1>4, <1>5, <1>6, <1>7
<1> QED
  BY <1>8 DEF Count, A, B

\* PINGs that are on the link, sent or not, and their answers.
SoloPings ==
  /\ conn.connected => ~conn.dead
  /\ conn.open /\ ~conn.dead =>
       pings = Unanswered + (IF Solo.pc = "pingsend" THEN 1 ELSE 0)

LEMMA LinkTypes ==
  ASSUME TypeOK
  PROVE  /\ out \in Seq(Item) /\ in \in Seq({Ping, Pong}) /\ in \in Seq(Item)
         /\ Ping \in Item /\ Pong \in Item /\ Ping # Pong
         /\ Count(out, Ping) \in Nat /\ Count(in, Pong) \in Nat /\ pings \in Int
         /\ pending \in Seq(Message) /\ server.got \in Seq(Message)
<1>1. Ping \in Item /\ Pong \in Item /\ Ping # Pong
  BY ItemFacts DEF Ping, Pong
<1>2. out \in Seq(Item) /\ in \in Seq({Ping, Pong}) /\ pings \in Int
  BY DEF TypeOK
<1>3. in \in Seq(Item)
  BY <1>1, <1>2
<1>4. pending \in Seq(Message) /\ server.got \in Seq(Message)
  BY DEF TypeOK
<1> QED
  BY <1>1, <1>2, <1>3, <1>4, CountFacts

\* A send adds what it sends, or there is no link any more.
LEMMA SendPings ==
  ASSUME TypeOK, NEW item \in Item, Send(item), conn'.open, ~conn'.dead
  PROVE  /\ conn.open /\ ~conn.dead
         /\ Unanswered' = Unanswered + (IF item = Ping THEN 1 ELSE 0)
<1>1. Sent(item)
  BY SendCases, LinkCut, LinkGone DEF Voided, SendFails
<1> QED
  BY <1>1, CountAppend, LinkTypes DEF Sent, Unanswered

LEMMA SoloPingsStep ==
  ASSUME TypeOK, Alone, SoloLink, SoloPings, SoloNext
  PROVE  SoloPings'
<1> SUFFICES ASSUME conn'.open, ~conn'.dead
             PROVE  pings' = Unanswered' + (IF Solo'.pc = "pingsend" THEN 1 ELSE 0)
  <2>1. conn'.connected => ~conn'.dead
    BY SoloLinkStep DEF SoloLink, LinkKept
  <2> QED
    BY <2>1 DEF SoloPings
<1> USE SoloType, LinkTypes
<1>0. ~Disconnect /\ ~TransportDrops /\ ~LinkFails
  BY LinkGone, LinkCut, LinkDropped
<1>1. CASE /\ UNCHANGED <<conn, out, in, pings>>
           /\ (Solo'.pc = "pingsend") <=> (Solo.pc = "pingsend")
  BY <1>1 DEF SoloPings, Unanswered
<1>19. CASE out' = <<>> /\ in' = <<>> /\ pings' = 0 /\ Solo'.pc = "idle"
  BY <1>19, CountEmpty DEF Unanswered
<1>2. CASE Publish(Main)
  <2>1. Solo'.pc = "check" /\ Solo.pc = "idle"
    BY <1>2, SoloHolding DEF Publish, Free, At, Solo, SoloBecomes
  <2> QED
    BY <1>1, <1>2, <2>1 DEF Publish
<1>3. CASE PublishCheck(Main)
  <2>1. Solo'.pc # "pingsend" /\ Solo.pc = "check"
    <3>1. Solo.pc = "check"
      BY <1>3 DEF PublishCheck, At, Solo
    <3>2. CASE Published(Main, FALSE)
      BY <3>1, <3>2, SoloPublished DEF SoloBecomes
    <3>3. CASE Goto(Main, "line")
      BY <3>1, <3>3, SoloGoto DEF SoloBecomes
    <3>4. CASE Goto(Main, "push")
      BY <3>1, <3>4, SoloGoto DEF SoloBecomes
    <3> QED
      BY <1>3, <3>2, <3>3, <3>4 DEF PublishCheck
  <2> QED
    BY <1>1, <1>3, <2>1 DEF PublishCheck
<1>4. CASE PublishPush(Main)
  <2>1. Solo'.pc # "pingsend" /\ Solo.pc = "push"
    BY <1>4, SoloPublished DEF PublishPush, At, Solo, SoloBecomes
  <2> QED
    BY <1>1, <1>4, <2>1 DEF PublishPush
<1>5. CASE PublishLine(Main) \/ PublishPayload(Main)
  <2>1. Solo'.pc # "pingsend" /\ Solo.pc \in {"line", "payload"} /\ UNCHANGED pings
    <3>1. Solo.pc \in {"line", "payload"} /\ UNCHANGED pings
      BY <1>5 DEF PublishLine, PublishPayload, At, Solo
    <3>2. CASE Published(Main, conn'.connected)
      BY <3>1, <3>2, SoloPublished DEF SoloBecomes
    <3>3. CASE Goto(Main, "payload")
      BY <3>1, <3>3, SoloGoto DEF SoloBecomes
    <3> QED
      BY <1>5, <3>1, <3>2, <3>3 DEF PublishLine, PublishPayload
  <2>2. Solo.msg \in Message
    BY <2>1 DEF Frame, TaskRecord, Publishing
  <2>3. SendNothing \/ \E item \in Item \ {Ping} : Send(item)
    <3>1. {Line(Solo.msg), Payload(Solo.msg), WithHeaders(Solo.msg)} \subseteq Item \ {Ping}
      BY <2>2, ItemFacts DEF Line, Payload, WithHeaders, Ping
    <3> QED
      BY <1>5, <3>1 DEF PublishLine, PublishPayload, SendPayload, Solo
  <2>4. CASE SendNothing
    BY <1>1, <2>1, <2>4 DEF SendNothing
  <2>5. CASE \E item \in Item \ {Ping} : Send(item)
    BY <2>1, <2>5, SendPings DEF SoloPings
  <2> QED
    BY <2>3, <2>4, <2>5
<1>6. CASE ReplayBegin(Main) \/ ReplayPop(Main)
  <2>1. Solo'.pc # "pingsend" /\ Solo.pc = "idle"
    BY <1>6, SoloStage, SoloHolding DEF ReplayBegin, ReplayPop, At, Solo, SoloBecomes
  <2> QED
    BY <1>1, <1>6, <2>1 DEF ReplayBegin, ReplayPop
<1>7. CASE PingSend(Main)
  <2>1. Solo'.pc = "idle" /\ Solo.pc = "pingsend" /\ UNCHANGED pings
    BY <1>7, SoloGoto DEF PingSend, At, Solo, SoloBecomes
  <2> QED
    BY <1>7, <2>1, SendPings DEF PingSend, SoloPings, Unanswered
<1>8. CASE FlushTrue(Main) \/ FlushFalse(Main)
  <2>1. Solo'.pc = "idle" /\ Solo.pc = "idle"
    BY <1>8, SoloFlushing DEF FlushTrue, FlushFalse, FlushReturns, At, Solo, SoloBecomes
  <2> QED
    BY <1>1, <1>8, <2>1 DEF FlushTrue, FlushFalse, FlushReturns
<1>9. CASE FlushBegin(Main)
  <2>1. Solo'.pc = "pingsend" /\ Solo.pc = "idle"
    BY <1>9, SoloFlushing DEF FlushBegin, Free, At, Solo, SoloBecomes
  <2> QED
    BY <1>9, <2>1 DEF FlushBegin, SoloPings, Unanswered
<1>10. CASE RecvInfo(Main)
  <2>1. /\ Solo'.pc = "idle" /\ Solo.pc = "idle" /\ (InConnect \/ HalfOpen) /\ ~conn.dead
        /\ UNCHANGED <<out, in, pings>>
    BY <1>0, <1>10, SoloStage DEF RecvInfo, Receiving, At, Solo, SoloBecomes
  <2>2. conn.open
    BY <2>1 DEF SoloLink, LinkKept, InConnect, HalfOpen
  <2> QED
    BY <2>1, <2>2 DEF SoloPings, Unanswered
<1>11. CASE RecvPong(Main)
  <2>1. /\ UNCHANGED <<conn, out, task>> /\ in # <<>> /\ Head(in) = Pong /\ in' = Tail(in)
        /\ pings' = pings - 1
    BY <1>11 DEF RecvPong
  <2>2. Count(in', Pong) = Count(in, Pong) - 1 /\ Count(out', Ping) = Count(out, Ping)
    <3>1. Count(in, Pong) = Count(Tail(in), Pong) + 1
      BY <2>1, CountTail
    <3>2. Tail(in) \in Seq(Item)
      BY <2>1
    <3>3. Count(Tail(in), Pong) \in Nat
      BY <3>2, CountFacts
    <3> QED
      BY <2>1, <3>1, <3>3
  <2> QED
    BY <2>1, <2>2 DEF SoloPings, Unanswered, Solo
<1>12. CASE RecvPing(Main)
  <2>1. /\ UNCHANGED <<conn, pings, task>> /\ in # <<>> /\ Head(in) = Ping
        /\ in' = Tail(in) /\ out' = Append(out, Pong)
    BY <1>0, <1>12 DEF RecvPing
  <2>2. Count(in', Pong) = Count(in, Pong)
    <3>1. Tail(in) \in Seq(Item)
      BY <2>1
    <3>2. Count(Tail(in), Pong) \in Nat
      BY <3>1, CountFacts
    <3> QED
      BY <2>1, <3>2, CountTail
  <2>3. Count(out', Ping) = Count(out, Ping)
    BY <2>1, CountAppend
  <2> QED
    BY <2>1, <2>2, <2>3 DEF SoloPings, Unanswered, Solo
<1>13. CASE PingCheck
  <2>1. /\ UNCHANGED <<conn, out, in, pings>> /\ Solo.pc = "idle"
        /\ Goto(Main, "ping") \/ UNCHANGED task
    BY <1>0, <1>13 DEF PingCheck, InProcess, At, Solo
  <2>2. Solo'.pc # "pingsend"
    BY <2>1, SoloGoto DEF SoloBecomes, Solo
  <2> QED
    BY <1>1, <2>1, <2>2
<1>14. CASE PingCount
  <2>1. /\ UNCHANGED <<conn, out, in>> /\ Goto(Main, "pingsend") /\ Solo.pc = "ping"
        /\ pings' = pings + 1
    BY <1>14 DEF PingCount, At, Solo
  <2> QED
    BY <2>1, SoloGoto DEF SoloBecomes, SoloPings, Unanswered
<1>15. CASE Dial
  <2>1. ~conn.open /\ UNCHANGED <<out, in, task>> /\ pings' = 0 /\ Solo.pc = "idle"
    BY <1>15 DEF Dial, InProcess, At, Solo
  <2> QED
    BY <1>19, <2>1 DEF SoloLink, LinkKept, Solo
<1>20. CASE HandshakeFails
  <2>1. Solo.pc = "idle" /\ UNCHANGED task /\ InConnect
    BY <1>20, HandshakeOver DEF Receiving, At, Solo
  <2>2. out = <<>> /\ in = <<>> /\ pings = 0
    BY <2>1 DEF SoloLink
  <2>3. out' = <<>> /\ in' = <<>> /\ pings' = 0
    BY <1>0, <1>20, <2>2, HandshakeOver
  <2> QED
    BY <1>19, <2>1, <2>3 DEF Solo
<1>16. CASE ServerReads
  <2>1. UNCHANGED <<conn, pings, task>> /\ out # <<>> /\ out' = Tail(out)
        /\ in' = IF Head(out) = Ping THEN Append(in, Pong) ELSE in
    BY <1>16 DEF ServerReads
  <2>2. Count(out', Ping) = Count(out, Ping) - (IF Head(out) = Ping THEN 1 ELSE 0)
    <3>1. Count(out, Ping) = Count(Tail(out), Ping) + (IF Head(out) = Ping THEN 1 ELSE 0)
      BY <2>1, CountTail
    <3>2. Tail(out) \in Seq(Item)
      BY <2>1
    <3>3. Count(Tail(out), Ping) \in Nat
      BY <3>2, CountFacts
    <3> QED
      BY <2>1, <3>1, <3>3
  <2>3. Count(in', Pong) = Count(in, Pong) + (IF Head(out) = Ping THEN 1 ELSE 0)
    BY <2>1, CountAppend
  <2>4. pings = Count(out, Ping) + Count(in, Pong)
                  + (IF Solo.pc = "pingsend" THEN 1 ELSE 0)
    BY <2>1 DEF SoloPings, Unanswered
  <2>5. pings' = Count(out', Ping) + Count(in', Pong)
                  + (IF Solo'.pc = "pingsend" THEN 1 ELSE 0)
    BY <2>1, <2>2, <2>3, <2>4 DEF Solo
  <2> QED
    BY <2>5 DEF Unanswered
<1>17. CASE ServerPings
  <2>1. UNCHANGED <<conn, out, pings, task>> /\ in' = Append(in, Ping)
    BY <1>17 DEF ServerPings
  <2>2. Count(in', Pong) = Count(in, Pong)
    BY <2>1, CountAppend
  <2> QED
    BY <2>1, <2>2 DEF SoloPings, Unanswered, Solo
<1>18. CASE MoodChanges
  BY <1>1, <1>18 DEF MoodChanges, Solo
<1> QED
  BY <1>0, <1>2, <1>3, <1>4, <1>5, <1>6, <1>7, <1>8, <1>9, <1>10, <1>11, <1>12, <1>13,
     <1>14, <1>15, <1>16, <1>17, <1>18, <1>20
     DEF SoloNext, Application, Progress, Recv, Process, Environment, ConnectionEnds,
         ProcessDropped

-----------------------------------------------------------------------------
(* The order of messages                                                   *)

\* Message a may reach the server before message b.
Early(a, b) == a < b \/ a \in past.eager

\* Whatever the server has or will still get from the link may come before b.
DeliveredBefore(b) ==
  /\ \A i \in 1 .. Len(server.got) : Early(server.got[i], b)
  /\ \A i \in 1 .. Len(out) : Delivers(out[i]) => Early(out[i].msg, b)

OrderOnLink ==
  /\ \A i, j \in 1 .. Len(server.got) : i < j => Early(server.got[i], server.got[j])
  /\ \A i \in 1 .. Len(server.got), j \in 1 .. Len(out) :
       Delivers(out[j]) => Early(server.got[i], out[j].msg)
  /\ \A i, j \in 1 .. Len(out) :
       i < j /\ Delivers(out[i]) /\ Delivers(out[j]) => Early(out[i].msg, out[j].msg)

\* The buffer is sorted and comes after everything on the link; so does whatever
\* is published next.
OrderInBuffer ==
  /\ DeliveredBefore(next + 1)
  /\ \A k \in 1 .. Len(pending) : DeliveredBefore(pending[k]) /\ pending[k] <= next
  /\ \A j, k \in 1 .. Len(pending) : j < k => pending[j] < pending[k]

\* A message that is being replayed comes before the rest of the buffer, a new
\* one after it; a new one passes the buffer only while on_connect runs.
OrderHeld ==
  Solo.pc \in Publishing =>
    /\ DeliveredBefore(Solo.msg) /\ Solo.msg <= next
    /\ \A k \in 1 .. Len(pending) :
         IF Solo.stage = "replay" THEN Solo.msg < pending[k] ELSE pending[k] < Solo.msg
    /\ Solo.stage = "on_connect" => Solo.msg \in past.eager
    /\ Solo.stage = "run" /\ Solo.pc \in {"line", "payload"} => pending = <<>>

\* Outside the handshake a connected client has nothing buffered, and the replay
\* goes on only as long as there is a connection.
BufferDrained ==
  /\ Solo.stage = "run" /\ conn.connected => pending = <<>>
  /\ Solo.stage = "replay" => Solo.pc \notin {"push", "ping", "pingsend"}
  /\ Solo.stage = "replay" /\ Solo.pc \in {"idle", "check", "line"} => conn.connected

SoloOrder == OrderOnLink /\ OrderInBuffer /\ OrderHeld /\ BufferDrained

LEMMA WiderSeq ==
  ASSUME NEW S, NEW T, S \subseteq T, NEW s \in Seq(S)
  PROVE  s \in Seq(T)
<1>1. Len(s) \in Nat /\ DOMAIN s = 1 .. Len(s) /\ \A i \in 1 .. Len(s) : s[i] \in T
  OBVIOUS
<1>2. s = [i \in 1 .. Len(s) |-> s[i]]
  BY <1>1
<1> QED
  BY <1>1, <1>2

LEMMA OrderTypes ==
  ASSUME TypeOK
  PROVE  /\ server.got \in Seq(Nat) /\ pending \in Seq(Nat) /\ next \in Nat
         /\ out \in Seq(Item) /\ \A i \in 1 .. Len(out) : out[i].msg \in Nat
         /\ Solo.msg \in Nat /\ past.eager \subseteq Nat
         /\ \A item \in Item : item.msg \in Nat
<1>1. Message \subseteq Nat /\ NoMessage \in Nat
  BY ConstantFacts DEF NoMessage
<1>2. \A item \in Item : item.msg \in Nat
  BY <1>1 DEF Item
<1>3. out \in Seq(Item)
  BY DEF TypeOK
<1>4. \A i \in 1 .. Len(out) : out[i] \in Item
  BY <1>3
<1>5. server.got \in Seq(Message) /\ pending \in Seq(Message)
  BY DEF TypeOK
<1>6. Solo.msg \in Nat
  BY <1>1, SoloType DEF TaskRecord
<1>7. past.eager \subseteq Nat /\ next \in Nat
  BY <1>1 DEF TypeOK
<1>8. \A s \in Seq(Message) : s \in Seq(Nat)
  BY <1>1, WiderSeq
<1>9. \A i \in 1 .. Len(out) : out[i].msg \in Nat
  BY <1>2, <1>4
<1> QED
  BY <1>2, <1>3, <1>5, <1>6, <1>7, <1>8, <1>9

\* Later messages come after what comes before earlier ones.
LEMMA BeforeLater ==
  ASSUME TypeOK, NEW a \in Nat, NEW b \in Nat, a <= b, DeliveredBefore(a)
  PROVE  DeliveredBefore(b)
<1>1. \A n \in Nat : Early(n, a) => Early(n, b)
  BY DEF Early
<1>2. \A i \in 1 .. Len(server.got) : server.got[i] \in Nat
  BY OrderTypes
<1>3. \A i \in 1 .. Len(out) : out[i].msg \in Nat
  BY OrderTypes
<1> QED
  BY <1>1, <1>2, <1>3 DEF DeliveredBefore

\* The order survives a step that adds nothing to the link.
Carried ==
  /\ OrderOnLink'
  /\ \A b \in Nat : DeliveredBefore(b) => DeliveredBefore(b)'

LEMMA CarriedKept ==
  ASSUME OrderOnLink, past.eager \subseteq past'.eager, server'.got = server.got,
         out' = out \/ out' = <<>>
  PROVE  Carried
<1>1. CASE out' = out
  BY <1>1 DEF Carried, OrderOnLink, DeliveredBefore, Early
<1>2. CASE out' = <<>>
  <2>1. 1 .. Len(out') = {}
    BY <1>2
  <2> QED
    BY <2>1 DEF Carried, OrderOnLink, DeliveredBefore, Early
<1> QED
  BY <1>1, <1>2

\* Something is sent: nothing but a message that may come now is delivered.
LEMMA CarriedSent ==
  ASSUME TypeOK, OrderOnLink, past'.eager = past.eager, server' = server,
         NEW item \in Item, out' = Append(out, item),
         Delivers(item) => DeliveredBefore(item.msg)
  PROVE  /\ OrderOnLink'
         /\ \A b \in Nat : DeliveredBefore(b) /\ (Delivers(item) => Early(item.msg, b))
                             => DeliveredBefore(b)'
<1>1. /\ Len(out') = Len(out) + 1 /\ Len(out) \in Nat
      /\ \A i \in 1 .. Len(out) : out'[i] = out[i]
      /\ out'[Len(out) + 1] = item
  BY OrderTypes
<1>2. \A i \in 1 .. Len(out') : i \in 1 .. Len(out) \/ i = Len(out) + 1
  BY <1>1
<1>3. \A i, j \in 1 .. Len(out') : i < j => i \in 1 .. Len(out)
  BY <1>1
<1>4. \A i \in 1 .. Len(server.got), j \in 1 .. Len(out') :
        Delivers(out'[j]) => Early(server.got[i], out'[j].msg)
  BY <1>1, <1>2 DEF OrderOnLink, DeliveredBefore
<1>5. \A i, j \in 1 .. Len(out') :
        i < j /\ Delivers(out'[i]) /\ Delivers(out'[j]) => Early(out'[i].msg, out'[j].msg)
  BY <1>1, <1>2, <1>3 DEF OrderOnLink, DeliveredBefore
<1>6. OrderOnLink'
  BY <1>4, <1>5 DEF OrderOnLink, Early
<1>7. ASSUME NEW b \in Nat, DeliveredBefore(b), Delivers(item) => Early(item.msg, b)
      PROVE  DeliveredBefore(b)'
  BY <1>1, <1>2, <1>7 DEF DeliveredBefore, Early
<1> QED
  BY <1>6, <1>7

\* The server reads the first item of the link.
LEMMA CarriedRead ==
  ASSUME TypeOK, OrderOnLink, ServerReads
  PROVE  Carried
<1>1. /\ out # <<>> /\ out' = Tail(out) /\ UNCHANGED past
      /\ server' = Parsed(server, Head(out))
  BY DEF ServerReads
<1>2. /\ Head(out) = out[1] /\ Len(out') = Len(out) - 1 /\ Len(out) \in Nat /\ Len(out) >= 1
      /\ \A i \in 1 .. Len(out') : out'[i] = out[i + 1] /\ i + 1 \in 1 .. Len(out)
      /\ 1 \in 1 .. Len(out)
  BY <1>1, OrderTypes
<1>3. server \in ServerType /\ Head(out) \in Item
  BY <1>1, OrderTypes DEF TypeOK, ServerType
<1>4. CASE server'.got = server.got
  BY <1>1, <1>2, <1>4 DEF Carried, OrderOnLink, DeliveredBefore, Early
<1>5. CASE Delivers(out[1]) /\ server'.got = Append(server.got, out[1].msg)
  <2>1. /\ Len(server'.got) = Len(server.got) + 1 /\ Len(server.got) \in Nat
        /\ \A i \in 1 .. Len(server.got) : server'.got[i] = server.got[i]
        /\ server'.got[Len(server.got) + 1] = out[1].msg
    BY <1>2, <1>5, OrderTypes
  <2>2. \A i \in 1 .. Len(server'.got) : i \in 1 .. Len(server.got) \/ i = Len(server.got) + 1
    BY <2>1
  <2>3. \A i, j \in 1 .. Len(server'.got) : i < j => i \in 1 .. Len(server.got)
    BY <2>1
  <2>4. \A i, j \in 1 .. Len(server'.got) :
          i < j => Early(server'.got[i], server'.got[j])
    BY <1>2, <1>5, <2>1, <2>2, <2>3 DEF OrderOnLink
  <2>5. \A i \in 1 .. Len(server'.got), j \in 1 .. Len(out') :
          Delivers(out'[j]) => Early(server'.got[i], out'[j].msg)
    <3> SUFFICES ASSUME NEW i \in 1 .. Len(server'.got), NEW j \in 1 .. Len(out'),
                        Delivers(out'[j])
                 PROVE  Early(server'.got[i], out'[j].msg)
      OBVIOUS
    <3>1. out'[j] = out[j + 1] /\ j + 1 \in 1 .. Len(out) /\ 1 < j + 1
      BY <1>2
    <3> QED
      BY <1>2, <1>5, <2>1, <2>2, <3>1 DEF OrderOnLink
  <2>6. \A i, j \in 1 .. Len(out') :
          i < j /\ Delivers(out'[i]) /\ Delivers(out'[j])
            => Early(out'[i].msg, out'[j].msg)
    <3> SUFFICES ASSUME NEW i \in 1 .. Len(out'), NEW j \in 1 .. Len(out'), i < j,
                        Delivers(out'[i]), Delivers(out'[j])
                 PROVE  Early(out'[i].msg, out'[j].msg)
      OBVIOUS
    <3>1. i + 1 < j + 1
      OBVIOUS
    <3> QED
      BY <1>2, <3>1 DEF OrderOnLink
  <2>7. OrderOnLink'
    BY <1>1, <2>4, <2>5, <2>6 DEF OrderOnLink, Early
  <2>8. ASSUME NEW b \in Nat, DeliveredBefore(b)
        PROVE  DeliveredBefore(b)'
    BY <1>1, <1>2, <1>5, <2>1, <2>2, <2>8 DEF DeliveredBefore, Early
  <2> QED
    BY <2>7, <2>8 DEF Carried
<1> QED
  BY <1>1, <1>2, <1>3, <1>4, <1>5, ParsedFacts

\* A step that touches neither the buffer nor what is being published.
LEMMA OrderCarried ==
  ASSUME TypeOK, SoloOrder, Carried, UNCHANGED <<pending, next>>,
         past.eager \subseteq past'.eager, BufferDrained',
         Solo'.pc \in Publishing =>
           /\ Solo.pc \in Publishing /\ Solo'.msg = Solo.msg /\ Solo'.stage = Solo.stage
           /\ Solo.stage = "run" /\ Solo'.pc \in {"line", "payload"} => pending = <<>>
  PROVE  SoloOrder'
<1>1. OrderInBuffer'
  BY OrderTypes DEF SoloOrder, OrderInBuffer, Carried
<1>2. OrderHeld'
  BY OrderTypes DEF SoloOrder, OrderHeld, Carried
<1> QED
  BY <1>1, <1>2 DEF SoloOrder, Carried

\* The send of publish(), of its line or of what is delivered.
LEMMA OrderSent ==
  ASSUME TypeOK, SoloLink, SoloOrder, NEW item \in Item, Send(item) \/ SendNothing,
         item.msg = Solo.msg, UNCHANGED <<pending, next>>,
         Solo.pc \in {"line", "payload"}, BufferDrained',
         IF Delivers(item)
           THEN Solo'.pc = "idle"
           ELSE /\ Solo.pc = "line" /\ Solo'.pc = "payload"
                /\ Solo'.msg = Solo.msg /\ Solo'.stage = Solo.stage
  PROVE  SoloOrder'
<1> USE OrderTypes
<1>0. Solo.pc \in Publishing
  BY DEF Publishing
<1>1. CASE SendNothing \/ Voided \/ SendFails
  <2>1. past'.eager = past.eager /\ server'.got = server.got /\ out' \in {out, <<>>}
    BY <1>1, LinkCut DEF SendNothing, Voided, SendFails
  <2>2. Carried
    BY <2>1, CarriedKept DEF SoloOrder
  <2>3. Solo.stage = "run" => pending = <<>>
    BY <1>0 DEF SoloOrder, OrderHeld
  <2>4. Solo'.pc \in Publishing => ~Delivers(item)
    BY DEF Publishing
  <2> QED
    BY <1>0, <2>1, <2>2, <2>3, <2>4, OrderCarried
<1>2. CASE Sent(item)
  <2>1. /\ out' = Append(out, item) /\ UNCHANGED <<past, server>>
        /\ DeliveredBefore(Solo.msg) /\ Solo.msg <= next
    BY <1>0, <1>2 DEF Sent, SoloOrder, OrderHeld
  <2>2. /\ OrderOnLink'
        /\ \A b \in Nat : DeliveredBefore(b) /\ (Delivers(item) => Early(item.msg, b))
                            => DeliveredBefore(b)'
    BY <2>1, CarriedSent DEF SoloOrder
  <2>3. Early(Solo.msg, next + 1)
    BY <2>1 DEF Early
  <2>4. \A k \in 1 .. Len(pending) : Early(Solo.msg, pending[k])
    <3>1. Solo.stage \in {"run", "on_connect", "replay"}
      BY SoloType DEF TaskRecord
    <3>2. CASE Solo.stage = "run"
      BY <1>0, <3>2 DEF SoloOrder, OrderHeld
    <3>3. CASE Solo.stage = "on_connect"
      BY <1>0, <3>3 DEF SoloOrder, OrderHeld, Early
    <3>4. CASE Solo.stage = "replay"
      BY <1>0, <3>4 DEF SoloOrder, OrderHeld, Early
    <3> QED
      BY <3>1, <3>2, <3>3, <3>4
  <2>5. \A k \in 1 .. Len(pending) : pending[k] \in Nat
    OBVIOUS
  <2>6. OrderInBuffer'
    BY <2>2, <2>3, <2>4, <2>5 DEF SoloOrder, OrderInBuffer
  <2>7. OrderHeld'
    <3>1. CASE Delivers(item)
      BY <3>1 DEF OrderHeld, Publishing
    <3>2. CASE ~Delivers(item)
      <4>1. DeliveredBefore(Solo.msg)'
        <5>1. \A b \in Nat : DeliveredBefore(b) => DeliveredBefore(b)'
          BY <2>2, <3>2
        <5>2. PICK b \in Nat : b = Solo.msg
          OBVIOUS
        <5>3. DeliveredBefore(b)' /\ Solo'.msg = b
          BY <2>1, <3>2, <5>1, <5>2
        <5> QED
          BY <5>3 DEF DeliveredBefore
      <4> QED
        BY <1>0, <2>1, <3>2, <4>1 DEF SoloOrder, OrderHeld
    <3> QED
      BY <3>1, <3>2
  <2> QED
    BY <2>2, <2>6, <2>7 DEF SoloOrder
<1> QED
  BY <1>1, <1>2, SendCases

\* What a send leaves of the connection.
LEMMA SendConnected ==
  ASSUME TypeOK, NEW item, Send(item) \/ SendNothing, conn'.connected
  PROVE  conn.connected
BY SendCases, LinkCut DEF SendNothing, Sent, Voided, SendFails

LEMMA SoloOrderStep ==
  ASSUME TypeOK, Alone, SoloLink, SoloOrder, SoloNext, ~past'.reordered
  PROVE  SoloOrder'
<1> USE OrderTypes
<1>0. /\ Solo.stage \in {"run", "on_connect", "replay"}
      /\ Solo.flush \in {"no", "run", "on_connect"}
      /\ OrderOnLink /\ BufferDrained
  BY SoloType DEF TaskRecord, SoloOrder
<1>1. CASE /\ server'.got = server.got /\ (out' = out \/ out' = <<>>)
           /\ UNCHANGED <<pending, next, past>>
           /\ BufferDrained' /\ (Solo'.pc \notin Publishing \/ SoloStays)
  <2>1. Carried
    BY <1>0, <1>1, CarriedKept
  <2> QED
    BY <1>1, <2>1, OrderCarried DEF SoloStays, SoloBecomes, SoloOrder, OrderHeld
<1>2. ASSUME conn'.connected => conn.connected,
             Solo'.stage = Solo.stage, Solo'.pc = Solo.pc,
             Solo.stage # "replay", UNCHANGED pending
      PROVE  BufferDrained'
  BY <1>0, <1>2 DEF BufferDrained
<1>3. CASE Publish(Main)
  <2>1. SoloBecomes("check", next + 1, Solo.stage, Solo.flush, Solo.initial, Solo.due)
    BY <1>3, SoloHolding DEF Publish
  <2>2. /\ UNCHANGED <<conn, out, in, server, pending>> /\ next' = next + 1
        /\ Solo.stage # "replay"
        /\ past.eager \subseteq past'.eager
        /\ Solo.stage = "on_connect" => next + 1 \in past'.eager
    BY <1>3, TypeParts DEF Publish, Free, Solo, PastType
  <2>3. Carried
    BY <1>0, <2>2, CarriedKept
  <2>4. PICK n \in Nat : n = next + 1
    OBVIOUS
  <2>5. DeliveredBefore(n)
    BY <2>4 DEF SoloOrder, OrderInBuffer, DeliveredBefore
  <2>12. DeliveredBefore(n + 1)
    <3>1. n + 1 \in Nat /\ n <= n + 1
      OBVIOUS
    <3> QED
      BY <2>5, <3>1, BeforeLater
  <2>6. DeliveredBefore(n)' /\ DeliveredBefore(n + 1)'
    <3>1. n + 1 \in Nat
      OBVIOUS
    <3> QED
      BY <2>3, <2>5, <2>12, <3>1 DEF Carried
  <2>7. n = next' /\ n = Solo'.msg
    BY <2>1, <2>2, <2>4 DEF SoloBecomes
  <2>8. DeliveredBefore(next + 1)' /\ DeliveredBefore(Solo.msg)'
    BY <2>6, <2>7 DEF DeliveredBefore
  <2>9. OrderInBuffer'
    BY <2>2, <2>3, <2>8 DEF SoloOrder, OrderInBuffer, Carried
  <2>10. OrderHeld'
    BY <2>1, <2>2, <2>7, <2>8 DEF SoloOrder, OrderInBuffer, OrderHeld, SoloBecomes
  <2>11. BufferDrained'
    BY <1>0, <2>1, <2>2 DEF BufferDrained, SoloBecomes
  <2> QED
    BY <2>3, <2>9, <2>10, <2>11 DEF SoloOrder, Carried
<1>4. CASE PublishCheck(Main)
  <2>1. /\ UNCHANGED <<conn, out, in, server, pending, next, past>>
        /\ Solo.pc = "check" /\ Solo.pc \in Publishing
    BY <1>4 DEF PublishCheck, At, Solo, Publishing
  <2>2. Carried
    BY <1>0, <2>1, CarriedKept
  <2>3. CASE conn.connected /\ Goto(Main, "line")
    <3>1. SoloBecomes("line", Solo.msg, Solo.stage, Solo.flush, Solo.initial, Solo.due)
      BY <2>3, SoloGoto
    <3>2. BufferDrained' /\ (Solo.stage = "run" => pending = <<>>)
      BY <1>0, <2>1, <2>3, <3>1 DEF SoloBecomes, BufferDrained
    <3> QED
      BY <2>1, <2>2, <3>1, <3>2, OrderCarried DEF SoloBecomes
  <2>4. CASE ~conn.connected /\ Published(Main, FALSE)
    <3>1. Solo'.pc = "idle" /\ Solo'.stage # "replay" /\ Solo'.pc \notin Publishing
      BY <2>4, SoloPublished DEF SoloBecomes, Publishing
    <3>2. BufferDrained'
      BY <2>1, <2>4, <3>1 DEF BufferDrained
    <3> QED
      BY <1>1, <2>1, <3>1, <3>2
  <2>5. CASE ~conn.connected /\ Goto(Main, "push")
    <3>1. SoloBecomes("push", Solo.msg, Solo.stage, Solo.flush, Solo.initial, Solo.due)
      BY <2>5, SoloGoto
    <3>2. BufferDrained'
      BY <1>0, <2>1, <2>5, <3>1 DEF SoloBecomes, BufferDrained
    <3> QED
      BY <2>1, <2>2, <3>1, <3>2, OrderCarried DEF SoloBecomes
  <2> QED
    BY <1>4, <2>3, <2>4, <2>5 DEF PublishCheck
<1>5. CASE PublishPush(Main)
  <2>1. /\ UNCHANGED <<conn, out, in, server, next>> /\ Solo.pc = "push"
        /\ Published(Main, conn.connected) /\ ~conn.connected
    BY <1>5 DEF PublishPush, At, Solo, SoloLink
  <2>2. UNCHANGED past /\ pending' = Append(pending, Solo.msg)
    BY <1>5 DEF PublishPush, QueueInUse, SoloLink, LinkKept, Alone, Solo
  <2>3. Solo.stage # "replay" /\ Solo.pc \in Publishing
    BY <1>0, <2>1 DEF BufferDrained, Publishing
  <2>4. Solo'.pc = "idle" /\ Solo'.pc \notin Publishing /\ Solo'.stage # "replay"
    BY <2>1, <2>3, SoloPublished DEF SoloBecomes, Publishing
  <2>5. Carried
    BY <1>0, <2>1, <2>2, CarriedKept
  <2>6. BufferDrained' /\ OrderHeld'
    BY <2>1, <2>4 DEF BufferDrained, OrderHeld
  <2>7. /\ Len(pending') = Len(pending) + 1 /\ pending'[Len(pending) + 1] = Solo.msg
        /\ Len(pending) \in Nat
        /\ \A k \in 1 .. Len(pending) : pending'[k] = pending[k]
        /\ \A k \in 1 .. Len(pending') : k \in 1 .. Len(pending) \/ k = Len(pending) + 1
    BY <2>2
  <2>8. /\ DeliveredBefore(Solo.msg) /\ Solo.msg <= next
        /\ \A k \in 1 .. Len(pending) : pending[k] < Solo.msg
    BY <2>3 DEF SoloOrder, OrderHeld
  <2>9. \A j, k \in 1 .. Len(pending') : j < k => pending'[j] < pending'[k]
    <3> SUFFICES ASSUME NEW j \in 1 .. Len(pending'), NEW k \in 1 .. Len(pending'), j < k
                 PROVE  pending'[j] < pending'[k]
      OBVIOUS
    <3>1. j \in 1 .. Len(pending)
      BY <2>7
    <3> QED
      BY <2>7, <2>8, <3>1 DEF SoloOrder, OrderInBuffer
  <2>10. \A k \in 1 .. Len(pending') : DeliveredBefore(pending'[k]) /\ pending'[k] <= next
    BY <2>7, <2>8 DEF SoloOrder, OrderInBuffer
  <2>11. \A k \in 1 .. Len(pending') : pending'[k] \in Nat
    BY <2>7
  <2>12. DeliveredBefore(next + 1)' /\ \A k \in 1 .. Len(pending') : DeliveredBefore(pending[k])'
    BY <2>1, <2>2, <2>5, <2>10, <2>11 DEF SoloOrder, OrderInBuffer, DeliveredBefore, Early
  <2>13. OrderInBuffer'
    BY <2>1, <2>9, <2>10, <2>12 DEF OrderInBuffer
  <2> QED
    BY <2>5, <2>6, <2>13 DEF SoloOrder, Carried
<1>6. CASE PublishLine(Main)
  <2>1. /\ Solo.pc = "line" /\ conn.connected /\ UNCHANGED <<pending, next>>
        /\ Solo.msg \in Message
    BY <1>6, SoloType DEF PublishLine, At, Solo, SoloLink, Frame, Publishing, TaskRecord
  <2>2. Solo.stage = "run" => pending = <<>>
    BY <1>0, <2>1 DEF BufferDrained
  <2>3. CASE Send(WithHeaders(Solo.msg)) /\ Published(Main, conn'.connected)
    <3>1. SoloBecomes("idle", NoMessage,
                      IF Solo.stage = "replay" /\ ~conn'.connected THEN "run" ELSE Solo.stage,
                      Solo.flush, Solo.initial, Solo.due)
      BY <2>3, SoloPublished
    <3>2. BufferDrained'
      BY <2>1, <2>2, <3>1 DEF BufferDrained, SoloBecomes
    <3>3. /\ WithHeaders(Solo.msg) \in Item /\ WithHeaders(Solo.msg).msg = Solo.msg
          /\ Delivers(WithHeaders(Solo.msg))
      BY <2>1 DEF WithHeaders, Item, Delivers
    <3> HIDE DEF WithHeaders
    <3> QED
      BY <2>1, <2>3, <3>1, <3>2, <3>3, OrderSent DEF SoloBecomes
  <2>4. CASE Send(Line(Solo.msg)) /\ Goto(Main, "payload")
    <3>1. SoloBecomes("payload", Solo.msg, Solo.stage, Solo.flush, Solo.initial, Solo.due)
      BY <2>4, SoloGoto
    <3>2. BufferDrained'
      BY <2>1, <2>2, <3>1 DEF BufferDrained, SoloBecomes
    <3>3. /\ Line(Solo.msg) \in Item /\ Line(Solo.msg).msg = Solo.msg
          /\ ~Delivers(Line(Solo.msg))
      BY <2>1 DEF Line, Item, Delivers
    <3> HIDE DEF Line
    <3> QED
      BY <2>1, <2>4, <3>1, <3>2, <3>3, OrderSent DEF SoloBecomes
  <2> QED
    BY <1>6, <2>3, <2>4 DEF PublishLine, Solo
<1>7. CASE PublishPayload(Main)
  <2>1. /\ Solo.pc = "payload" /\ UNCHANGED <<pending, next>> /\ Solo.pc \in Publishing
        /\ Solo.msg \in Message
    BY <1>7, SoloType DEF PublishPayload, At, Solo, Frame, Publishing, TaskRecord
  <2>2. Solo.stage = "run" => pending = <<>>
    BY <2>1 DEF SoloOrder, OrderHeld
  <2>3. Send(Payload(Solo.msg)) \/ SendNothing
    BY <1>7 DEF PublishPayload, SendPayload, Solo
  <2>4. SoloBecomes("idle", NoMessage,
                    IF Solo.stage = "replay" /\ ~conn'.connected THEN "run" ELSE Solo.stage,
                    Solo.flush, Solo.initial, Solo.due)
    BY <1>7, SoloPublished DEF PublishPayload
  <2>5. BufferDrained'
    BY <2>1, <2>2, <2>4 DEF BufferDrained, SoloBecomes
  <2>6. /\ Payload(Solo.msg) \in Item /\ Payload(Solo.msg).msg = Solo.msg
        /\ Delivers(Payload(Solo.msg))
    BY <2>1 DEF Payload, Item, Delivers
  <2> HIDE DEF Payload
  <2> QED
    BY <2>1, <2>3, <2>4, <2>5, <2>6, OrderSent DEF SoloBecomes
<1>8. CASE ReplayBegin(Main)
  <2>1. /\ UNCHANGED <<conn, out, in, server, pending, next>> /\ Solo.pc = "idle"
        /\ Becomes(Main, [task[Main] EXCEPT !.stage = "replay"])
    BY <1>8 DEF ReplayBegin, At, Solo
  <2>2. conn.connected /\ UNCHANGED past
    BY <1>8, TypeParts DEF ReplayBegin, PastType
  <2>3. Solo'.pc = "idle" /\ Solo'.stage = "replay" /\ Solo'.pc \notin Publishing
    BY <2>1, SoloStage DEF SoloBecomes, Publishing
  <2>4. BufferDrained'
    BY <2>1, <2>2, <2>3 DEF BufferDrained
  <2> QED
    BY <1>1, <2>1, <2>2, <2>3, <2>4
<1>9. CASE ReplayPop(Main)
  <2>1. /\ UNCHANGED <<conn, out, in, server, next, past>>
        /\ Solo.stage = "replay" /\ Solo.pc = "idle" /\ conn.connected
    BY <1>0, <1>9 DEF ReplayPop, At, Solo, BufferDrained
  <2>2. CASE pending = <<>>
    <3>1. Solo'.pc = "idle" /\ Solo'.stage = "run" /\ Solo'.pc \notin Publishing
      BY <1>9, <2>1, <2>2, SoloStage DEF ReplayPop, SoloBecomes, Publishing
    <3>2. UNCHANGED pending
      BY <1>9, <2>2 DEF ReplayPop
    <3>3. BufferDrained'
      BY <2>2, <3>1, <3>2 DEF BufferDrained
    <3> QED
      BY <1>1, <2>1, <3>1, <3>2, <3>3
  <2>3. CASE pending # <<>>
    <3>1. pending' = Tail(pending) /\ Becomes(Main, Holding(task[Main], Head(pending)))
      BY <1>9, <2>3 DEF ReplayPop
    <3>2. /\ Head(pending) = pending[1] /\ Len(pending') = Len(pending) - 1
          /\ Len(pending) \in Nat /\ Len(pending) >= 1 /\ 1 \in 1 .. Len(pending)
          /\ \A k \in 1 .. Len(pending') : pending'[k] = pending[k + 1] /\ k + 1 \in 1 .. Len(pending)
      BY <2>3, <3>1
    <3>3. SoloBecomes("check", pending[1], "replay", Solo.flush, Solo.initial, Solo.due)
      BY <2>1, <3>1, <3>2, SoloHolding
    <3>4. Carried
      BY <1>0, <2>1, CarriedKept
    <3>5. PICK m \in Nat : m = pending[1]
      BY <3>2
    <3>6. DeliveredBefore(m)' /\ Solo'.msg = m /\ m <= next
      BY <3>2, <3>3, <3>4, <3>5 DEF SoloOrder, OrderInBuffer, Carried, SoloBecomes
    <3>7. DeliveredBefore(Solo.msg)'
      BY <3>6 DEF DeliveredBefore
    <3>8. \A k \in 1 .. Len(pending') : m < pending'[k]
      <4> SUFFICES ASSUME NEW k \in 1 .. Len(pending') PROVE m < pending'[k]
        OBVIOUS
      <4>1. pending'[k] = pending[k + 1] /\ k + 1 \in 1 .. Len(pending) /\ 1 < k + 1
        BY <3>2
      <4> QED
        BY <3>2, <3>5, <4>1 DEF SoloOrder, OrderInBuffer
    <3>9. OrderHeld'
      BY <2>1, <3>3, <3>6, <3>7, <3>8 DEF OrderHeld, SoloBecomes
    <3>10. OrderInBuffer'
      <4>1. \A k \in 1 .. Len(pending') : pending'[k] \in Nat
        <5>1. \A k \in 1 .. Len(pending) : pending[k] \in Nat
          OBVIOUS
        <5> QED
          BY <3>2, <5>1
      <4>2. \A k \in 1 .. Len(pending') : DeliveredBefore(pending'[k]) /\ pending'[k] <= next
        BY <3>2 DEF SoloOrder, OrderInBuffer
      <4>3. \A j, k \in 1 .. Len(pending') : j < k => pending'[j] < pending'[k]
        <5> SUFFICES ASSUME NEW j \in 1 .. Len(pending'), NEW k \in 1 .. Len(pending'), j < k
                     PROVE  pending'[j] < pending'[k]
          OBVIOUS
        <5>1. pending'[j] = pending[j + 1] /\ j + 1 \in 1 .. Len(pending)
          BY <3>2
        <5>2. pending'[k] = pending[k + 1] /\ k + 1 \in 1 .. Len(pending)
          BY <3>2
        <5>3. j + 1 < k + 1
          BY <3>2
        <5> QED
          BY <5>1, <5>2, <5>3 DEF SoloOrder, OrderInBuffer
      <4>4. /\ DeliveredBefore(next + 1)'
            /\ \A k \in 1 .. Len(pending') : DeliveredBefore(pending[k])'
        BY <2>1, <4>2 DEF SoloOrder, OrderInBuffer, DeliveredBefore, Early
      <4> QED
        BY <2>1, <4>2, <4>3, <4>4 DEF OrderInBuffer
    <3>11. BufferDrained'
      BY <2>1, <3>3 DEF BufferDrained, SoloBecomes
    <3> QED
      BY <3>4, <3>9, <3>10, <3>11 DEF SoloOrder, Carried
  <2> QED
    BY <2>2, <2>3
<1>10. CASE PingSend(Main)
  <2>1. Solo.pc = "pingsend" /\ UNCHANGED <<pending, next>> /\ Send(Ping) /\ Solo.stage # "replay"
    BY <1>0, <1>10 DEF PingSend, At, Solo, BufferDrained
  <2>2. Solo'.pc = "idle" /\ Solo'.stage = Solo.stage /\ Solo'.pc \notin Publishing
    BY <1>10, SoloGoto DEF PingSend, SoloBecomes, Publishing
  <2>3. BufferDrained'
    BY <1>0, <2>1, <2>2, SendConnected DEF BufferDrained
  <2>4. Ping \in Item /\ ~Delivers(Ping) /\ Ping.kind \notin {"line", "headers"}
    BY DEF Ping, Item, Delivers
  <2>5. Carried /\ UNCHANGED past
    <3>1. CASE Sent(Ping)
      BY <1>0, <2>4, <3>1, CarriedSent DEF Sent, Carried
    <3>2. CASE (Voided /\ UNCHANGED past) \/ SendFails
      <4>1. UNCHANGED past /\ server'.got = server.got /\ out' \in {out, <<>>}
        BY <3>2, LinkCut DEF Voided, SendFails
      <4> QED
        BY <1>0, <4>1, CarriedKept
    <3> QED
      BY <2>1, <2>4, <3>1, <3>2, SendCases
  <2> QED
    BY <2>1, <2>2, <2>3, <2>5, OrderCarried
<1>11. CASE FlushTrue(Main) \/ FlushFalse(Main)
  <2>1. /\ UNCHANGED <<conn, out, in, server, past, pending, next>>
        /\ Solo.pc = "idle" /\ Solo.flush = Solo.stage
        /\ Becomes(Main, Flushing(task[Main], "idle", "no", 0, {}))
    BY <1>11 DEF FlushTrue, FlushFalse, FlushReturns, At, Solo
  <2>2. Solo'.pc = "idle" /\ Solo'.stage = Solo.stage /\ Solo'.pc \notin Publishing
    BY <2>1, SoloFlushing DEF SoloBecomes, Publishing
  <2> QED
    BY <1>0, <1>1, <1>2, <2>1, <2>2
<1>12. CASE FlushBegin(Main)
  <2>1. /\ UNCHANGED <<conn, out, in, server, past, pending, next>> /\ Solo.stage # "replay"
    BY <1>12 DEF FlushBegin, Free, Solo
  <2>2. Solo'.pc = "pingsend" /\ Solo'.stage = Solo.stage /\ Solo'.pc \notin Publishing
    BY <1>12, SoloFlushing DEF FlushBegin, SoloBecomes, Publishing
  <2>3. BufferDrained'
    BY <1>0, <2>1, <2>2 DEF BufferDrained
  <2> QED
    BY <1>1, <2>1, <2>2, <2>3
<1>13. CASE RecvInfo(Main)
  <2>1. /\ UNCHANGED <<pending, next, past>> /\ Solo.pc = "idle"
        /\ Becomes(Main, [task[Main] EXCEPT !.stage = "on_connect"])
    BY <1>13 DEF RecvInfo, Receiving, At, Solo
  <2>2. Solo'.pc = "idle" /\ Solo'.stage = "on_connect" /\ Solo'.pc \notin Publishing
    BY <2>1, SoloStage DEF SoloBecomes, Publishing
  <2>3. BufferDrained'
    BY <2>2 DEF BufferDrained
  <2>4. server'.got = server.got /\ out' \in {out, <<>>}
    BY <1>13, LinkGone DEF RecvInfo
  <2> QED
    BY <1>1, <2>1, <2>2, <2>3, <2>4
<1>14. CASE /\ UNCHANGED <<pending, next, past, task>> /\ Solo.stage # "replay"
            /\ server'.got = server.got /\ (out' = out \/ out' = <<>>)
            /\ conn'.connected => conn.connected
  <2>1. SoloStays /\ Solo'.stage = Solo.stage /\ Solo'.pc = Solo.pc
    BY <1>14, SoloSame DEF SoloStays, SoloBecomes
  <2> QED
    BY <1>1, <1>2, <1>14, <2>1
<1>15. ASSUME Receiving(Main) PROVE Solo.stage # "replay"
  BY <1>0, <1>15 DEF Receiving, Solo
<1>16. ASSUME InProcess PROVE Solo.stage # "replay"
  BY <1>16 DEF InProcess, Solo
<1>17. CASE /\ Disconnect \/ LinkFails
            /\ UNCHANGED <<pending, next, past, task>> /\ Solo.stage # "replay"
  BY <1>14, <1>17, LinkGone, LinkCut
<1>18. CASE RecvPong(Main)
  BY <1>14, <1>15, <1>18 DEF RecvPong
<1>19. CASE RecvPing(Main)
  <2>1. CASE conn.open /\ out' = Append(out, Pong) /\ UNCHANGED <<conn, server>>
    <3>1. Pong \in Item /\ ~Delivers(Pong)
      BY DEF Pong, Item, Delivers
    <3>2. UNCHANGED <<pending, next, past, task>> /\ Solo.stage # "replay"
      BY <1>15, <1>19 DEF RecvPing
    <3>3. Carried
      BY <1>0, <2>1, <3>1, <3>2, CarriedSent DEF Carried
    <3>4. SoloStays /\ Solo'.stage = Solo.stage /\ Solo'.pc = Solo.pc
      BY <3>2, SoloSame DEF SoloStays, SoloBecomes
    <3>5. BufferDrained'
      BY <1>2, <2>1, <3>2, <3>4
    <3> QED
      BY <3>2, <3>3, <3>4, <3>5, OrderCarried DEF SoloStays, SoloBecomes, SoloOrder, OrderHeld
  <2> QED
    BY <1>15, <1>17, <1>19, <2>1 DEF RecvPing
<1>20. CASE ConnectionEnds(Main) \/ ProcessDropped
  BY <1>15, <1>16, <1>17, <1>20 DEF ConnectionEnds, ProcessDropped
<1>21. CASE PingCheck
  <2>1. CASE pings > MaxPings
    BY <1>14, <1>16, <1>17, <1>21, <2>1 DEF PingCheck
  <2>2. CASE ~(pings > MaxPings)
    <3>1. /\ UNCHANGED <<conn, out, in, server, past, pending, next>>
          /\ Goto(Main, "ping") /\ Solo.stage # "replay"
      BY <1>16, <1>21, <2>2 DEF PingCheck
    <3>2. Solo'.pc = "ping" /\ Solo'.stage = Solo.stage /\ Solo'.pc \notin Publishing
      BY <3>1, SoloGoto DEF SoloBecomes, Publishing
    <3>3. BufferDrained'
      BY <1>0, <3>1, <3>2 DEF BufferDrained
    <3> QED
      BY <1>1, <3>1, <3>2, <3>3
  <2> QED
    BY <2>1, <2>2
<1>22. CASE PingCount
  <2>1. /\ UNCHANGED <<conn, out, in, server, past, pending, next>>
        /\ Goto(Main, "pingsend") /\ Solo.stage # "replay"
    BY <1>0, <1>22 DEF PingCount, At, Solo, BufferDrained
  <2>2. Solo'.pc = "pingsend" /\ Solo'.stage = Solo.stage /\ Solo'.pc \notin Publishing
    BY <2>1, SoloGoto DEF SoloBecomes, Publishing
  <2>3. BufferDrained'
    BY <1>0, <2>1, <2>2 DEF BufferDrained
  <2> QED
    BY <1>1, <2>1, <2>2, <2>3
<1>23. CASE Dial
  <2>1. /\ UNCHANGED <<out, in, server, past, task, pending, next>> /\ Solo.stage # "replay"
        /\ ~conn'.connected
    BY <1>16, <1>23 DEF Dial, LinkOK, TypeOK
  <2> QED
    BY <1>14, <2>1
<1>28. CASE HandshakeFails
  <2>1. /\ UNCHANGED <<past, task, pending, next>> /\ Receiving(Main)
        /\ server'.got = server.got /\ (out' = out \/ out' = <<>>)
        /\ conn'.connected => conn.connected
    BY <1>28, HandshakeOver, LinkGone
  <2> QED
    BY <1>14, <1>15, <2>1
<1>24. CASE ServerReads
  <2>1. UNCHANGED <<conn, past, task, pending, next>>
    BY <1>24 DEF ServerReads
  <2>2. SoloStays
    BY <2>1, SoloSame
  <2>3. BufferDrained'
    BY <1>0, <2>1, <2>2 DEF BufferDrained, SoloStays, SoloBecomes
  <2>4. Carried
    BY <1>0, <1>24, CarriedRead
  <2> QED
    BY <2>1, <2>2, <2>3, <2>4, OrderCarried DEF SoloStays, SoloBecomes, SoloOrder, OrderHeld
<1>25. CASE UNCHANGED <<conn, server, past, task, pending, next, out>>
  <2>1. SoloStays /\ BufferDrained'
    BY <1>0, <1>25, SoloSame DEF BufferDrained, Solo, SoloStays, SoloBecomes
  <2> QED
    BY <1>1, <1>25, <2>1
<1>26. CASE TransportDrops
  <2>1. /\ UNCHANGED <<past, task, pending, next>>
        /\ conn'.connected = conn.connected /\ out' = <<>> /\ server'.got = server.got
    BY <1>26, LinkDropped DEF TransportDrops
  <2>2. SoloStays /\ BufferDrained'
    BY <1>0, <2>1, SoloSame DEF BufferDrained, Solo, SoloStays, SoloBecomes
  <2> QED
    BY <1>1, <2>1, <2>2
<1>27. CASE ServerPings \/ MoodChanges
  BY <1>25, <1>27 DEF ServerPings, MoodChanges
<1> QED
  BY <1>3, <1>4, <1>5, <1>6, <1>7, <1>8, <1>9, <1>10, <1>11, <1>12, <1>13, <1>18, <1>19,
     <1>20, <1>21, <1>22, <1>23, <1>24, <1>26, <1>27, <1>28
     DEF SoloNext, Application, Progress, Recv, Process, Environment
-----------------------------------------------------------------------------
(* The framing of one task                                                 *)

\* Every payload is sent: none of a binary message goes to a transport.
PayloadsSent == "transport" \notin Links \/ \A m \in Message : Kind[m] # "binary"

\* On the link a line is followed by its payload, which the server waits for
\* when it has read the line and the task is about to send when it is the last.
SoloFramed ==
  /\ ~server.garbled
  /\ \A i \in 1 .. Len(out) :
       /\ out[i].kind = "payload" =>
            IF i = 1 THEN server.expects = out[i].msg
                     ELSE out[i - 1].kind = "line" /\ out[i - 1].msg = out[i].msg
       /\ out[i].kind = "line" =>
            IF i = Len(out) THEN Solo.pc = "payload" /\ Solo.msg = out[i].msg
                            ELSE out[i + 1].kind = "payload" /\ out[i + 1].msg = out[i].msg
  /\ server.expects # NoMessage =>
       IF out = <<>> THEN Solo.pc = "payload" /\ Solo.msg = server.expects
                     ELSE out[1].kind = "payload" /\ out[1].msg = server.expects
  /\ Solo.pc = "payload" /\ conn.open =>
       IF out = <<>> THEN server.expects = Solo.msg
                     ELSE out[Len(out)].kind = "line" /\ out[Len(out)].msg = Solo.msg

LEMMA FramedEmpty ==
  ASSUME SoloFramed, out' = <<>>, server'.expects = NoMessage,
         server'.garbled = server.garbled, Solo'.pc = "payload" => ~conn'.open
  PROVE  SoloFramed'
<1>1. 1 .. Len(out') = {}
  OBVIOUS
<1> QED
  BY <1>1 DEF SoloFramed

LEMMA FramedSame ==
  ASSUME SoloFramed, UNCHANGED <<out, server>>,
         Solo'.pc = "payload" <=> Solo.pc = "payload",
         Solo.pc = "payload" => Solo'.msg = Solo.msg /\ conn'.open = conn.open
  PROVE  SoloFramed'
BY DEF SoloFramed

\* A line, a message with headers, a PING or a PONG is sent.
LEMMA FramedSent ==
  ASSUME TypeOK, SoloFramed, Solo.pc # "payload", NEW item \in Item,
         out' = Append(out, item), UNCHANGED server, item.kind # "payload",
         IF item.kind = "line" THEN Solo'.pc = "payload" /\ Solo'.msg = item.msg
                               ELSE Solo'.pc # "payload"
  PROVE  SoloFramed'
<1>1. /\ out \in Seq(Item) /\ Len(out) \in Nat /\ Len(out') = Len(out) + 1
      /\ \A i \in 1 .. Len(out) : out'[i] = out[i]
      /\ out'[Len(out) + 1] = item /\ out' # <<>>
      /\ \A i \in 1 .. Len(out') : i \in 1 .. Len(out) \/ i = Len(out) + 1
      /\ Len(out) + 1 \in 1 .. Len(out')
  BY LinkTypes
<1>2. server.expects # NoMessage => out # <<>>
  BY DEF SoloFramed
<1>3. ASSUME NEW i \in 1 .. Len(out')
      PROVE  /\ out'[i].kind = "payload" =>
                  IF i = 1 THEN server'.expects = out'[i].msg
                           ELSE out'[i - 1].kind = "line" /\ out'[i - 1].msg = out'[i].msg
             /\ out'[i].kind = "line" =>
                  IF i = Len(out')
                    THEN Solo'.pc = "payload" /\ Solo'.msg = out'[i].msg
                    ELSE out'[i + 1].kind = "payload" /\ out'[i + 1].msg = out'[i].msg
  <2>1. CASE i = Len(out) + 1
    BY <1>1, <2>1
  <2>2. CASE i \in 1 .. Len(out)
    <3>1. out'[i] = out[i] /\ i # Len(out')
      BY <1>1, <2>2
    <3>2. out[i].kind = "line" => i # Len(out)
      BY <2>2 DEF SoloFramed
    <3>3. i # Len(out) => i + 1 \in 1 .. Len(out)
      BY <1>1, <2>2
    <3>4. i # 1 => i - 1 \in 1 .. Len(out)
      BY <1>1, <2>2
    <3> QED
      BY <1>1, <2>2, <3>1, <3>2, <3>3, <3>4 DEF SoloFramed
  <2> QED
    BY <1>1, <2>1, <2>2
<1>4. server'.expects # NoMessage =>
        out'[1].kind = "payload" /\ out'[1].msg = server'.expects
  <2>1. out # <<>> => 1 \in 1 .. Len(out)
    BY <1>1
  <2> QED
    BY <1>1, <1>2, <2>1 DEF SoloFramed
<1> QED
  BY <1>1, <1>3, <1>4 DEF SoloFramed

\* The payload is sent after its line.
LEMMA FramedPaid ==
  ASSUME TypeOK, SoloFramed, Solo.pc = "payload", conn.open, NEW item \in Item,
         item.kind = "payload", item.msg = Solo.msg,
         out' = Append(out, item), UNCHANGED server, Solo'.pc # "payload"
  PROVE  SoloFramed'
<1>1. /\ out \in Seq(Item) /\ Len(out) \in Nat /\ Len(out') = Len(out) + 1
      /\ \A i \in 1 .. Len(out) : out'[i] = out[i]
      /\ out'[Len(out) + 1] = item /\ out' # <<>>
      /\ \A i \in 1 .. Len(out') : i \in 1 .. Len(out) \/ i = Len(out) + 1
      /\ Len(out) + 1 \in 1 .. Len(out')
      /\ out = <<>> <=> Len(out) = 0
  BY LinkTypes
<1>2. ASSUME NEW i \in 1 .. Len(out')
      PROVE  /\ out'[i].kind = "payload" =>
                  IF i = 1 THEN server'.expects = out'[i].msg
                           ELSE out'[i - 1].kind = "line" /\ out'[i - 1].msg = out'[i].msg
             /\ out'[i].kind = "line" =>
                  IF i = Len(out')
                    THEN Solo'.pc = "payload" /\ Solo'.msg = out'[i].msg
                    ELSE out'[i + 1].kind = "payload" /\ out'[i + 1].msg = out'[i].msg
  <2>1. CASE i = Len(out) + 1
    <3>1. out'[i] = item
      BY <1>1, <2>1
    <3>2. CASE out = <<>>
      BY <1>1, <2>1, <3>1, <3>2 DEF SoloFramed
    <3>3. CASE out # <<>>
      <4>1. i # 1 /\ i - 1 = Len(out) /\ i - 1 \in 1 .. Len(out)
        BY <1>1, <2>1, <3>3
      <4>2. out[Len(out)].kind = "line" /\ out[Len(out)].msg = Solo.msg
        BY <3>3 DEF SoloFramed
      <4> QED
        BY <1>1, <3>1, <4>1, <4>2
    <3> QED
      BY <3>2, <3>3
  <2>2. CASE i \in 1 .. Len(out)
    <3>1. out'[i] = out[i] /\ i # Len(out')
      BY <1>1, <2>2
    <3>2. CASE i = Len(out)
      <4>1. out[i].kind = "line" => out'[i + 1] = item /\ item.msg = out[i].msg
        BY <1>1, <2>2, <3>2 DEF SoloFramed
      <4>2. i # 1 => i - 1 \in 1 .. Len(out)
        BY <1>1, <2>2
      <4> QED
        BY <1>1, <2>2, <3>1, <4>1, <4>2 DEF SoloFramed
    <3>3. CASE i # Len(out)
      <4>1. i + 1 \in 1 .. Len(out)
        BY <1>1, <2>2, <3>3
      <4>2. i # 1 => i - 1 \in 1 .. Len(out)
        BY <1>1, <2>2
      <4> QED
        BY <1>1, <2>2, <3>1, <3>3, <4>1, <4>2 DEF SoloFramed
    <3> QED
      BY <3>2, <3>3
  <2> QED
    BY <1>1, <2>1, <2>2
<1>3. server'.expects # NoMessage =>
        out'[1].kind = "payload" /\ out'[1].msg = server'.expects
  <2>1. CASE out = <<>>
    BY <1>1, <2>1 DEF SoloFramed
  <2>2. CASE out # <<>>
    <3>1. 1 \in 1 .. Len(out)
      BY <1>1, <2>2
    <3> QED
      BY <1>1, <2>2, <3>1 DEF SoloFramed
  <2> QED
    BY <2>1, <2>2
<1> QED
  BY <1>1, <1>2, <1>3 DEF SoloFramed

LEMMA ParsedFrame ==
  ASSUME NEW s \in ServerType, NEW item \in Item
  PROVE  /\ item.kind = "payload" /\ item.msg = s.expects =>
              /\ Parsed(s, item).expects = NoMessage
              /\ Parsed(s, item).garbled = s.garbled
              /\ Parsed(s, item).got = Append(s.got, item.msg)
         /\ item.kind # "payload" /\ s.expects = NoMessage =>
              /\ Parsed(s, item).expects = (IF item.kind = "line" THEN item.msg ELSE NoMessage)
              /\ Parsed(s, item).garbled = s.garbled
              /\ item.kind = "headers" => Parsed(s, item).got = Append(s.got, item.msg)
BY DEF Parsed, ServerType

LEMMA FramedRead ==
  ASSUME TypeOK, SoloLink, SoloFramed, ServerReads
  PROVE  /\ SoloFramed'
         /\ Delivers(out[1]) => server'.got = Append(server.got, out[1].msg)
<1>1. /\ out # <<>> /\ out' = Tail(out) /\ UNCHANGED <<conn, task>>
      /\ server' = Parsed(server, Head(out))
  BY DEF ServerReads
<1>2. /\ out \in Seq(Item) /\ Head(out) = out[1] /\ Len(out') = Len(out) - 1
      /\ Len(out) \in Nat /\ Len(out) >= 1
      /\ \A i \in 1 .. Len(out') : out'[i] = out[i + 1] /\ i + 1 \in 1 .. Len(out)
      /\ 1 \in 1 .. Len(out) /\ out[1] \in Item
  BY <1>1, LinkTypes
<1>13. out' = <<>> <=> Len(out) = 1
  BY <1>1, <1>2
<1>3. server \in ServerType /\ SoloStays
  BY <1>1, SoloSame DEF TypeOK, ServerType
<1>4. out[1].kind = "payload" => out[1].msg = server.expects
  BY <1>2 DEF SoloFramed
<1>5. out[1].kind # "payload" => server.expects = NoMessage
  BY <1>1 DEF SoloFramed
<1>6. ~server'.garbled
  <2>1. ~server.garbled
    BY DEF SoloFramed
  <2> QED
    BY <1>1, <1>2, <1>3, <1>4, <1>5, <2>1, ParsedFrame
<1>7. server'.expects = IF out[1].kind = "line" THEN out[1].msg ELSE NoMessage
  BY <1>1, <1>2, <1>3, <1>4, <1>5, ParsedFrame
<1>8. Delivers(out[1]) => server'.got = Append(server.got, out[1].msg)
  BY <1>1, <1>2, <1>3, <1>4, <1>5, ParsedFrame DEF Delivers
<1>9. ASSUME NEW i \in 1 .. Len(out')
      PROVE  /\ out'[i].kind = "payload" =>
                  IF i = 1 THEN server'.expects = out'[i].msg
                           ELSE out'[i - 1].kind = "line" /\ out'[i - 1].msg = out'[i].msg
             /\ out'[i].kind = "line" =>
                  IF i = Len(out')
                    THEN Solo'.pc = "payload" /\ Solo'.msg = out'[i].msg
                    ELSE out'[i + 1].kind = "payload" /\ out'[i + 1].msg = out'[i].msg
  <2>1. /\ out'[i] = out[i + 1] /\ i + 1 \in 1 .. Len(out) /\ i + 1 # 1 /\ (i + 1) - 1 = i
        /\ i = Len(out') <=> i + 1 = Len(out)
    BY <1>2
  <2>2. /\ i # 1 => i - 1 \in 1 .. Len(out') /\ out'[i - 1] = out[i]
        /\ i # Len(out') => i + 1 \in 1 .. Len(out') /\ out'[i + 1] = out[(i + 1) + 1]
    <3>1. i # 1 => i - 1 \in 1 .. Len(out') /\ (i - 1) + 1 = i
      BY <1>2
    <3>2. i # Len(out') => i + 1 \in 1 .. Len(out')
      BY <1>2
    <3> QED
      BY <1>2, <3>1, <3>2
  <2>3. out[i + 1].kind = "payload" => out[i].kind = "line" /\ out[i].msg = out[i + 1].msg
    BY <2>1 DEF SoloFramed
  <2>4. out[i + 1].kind = "line" =>
          IF i + 1 = Len(out)
            THEN Solo.pc = "payload" /\ Solo.msg = out[i + 1].msg
            ELSE out[(i + 1) + 1].kind = "payload" /\ out[(i + 1) + 1].msg = out[i + 1].msg
    BY <2>1 DEF SoloFramed
  <2> QED
    BY <1>3, <1>7, <2>1, <2>2, <2>3, <2>4 DEF SoloStays, SoloBecomes
<1>10. server'.expects # NoMessage =>
         IF out' = <<>> THEN Solo'.pc = "payload" /\ Solo'.msg = server'.expects
                        ELSE out'[1].kind = "payload" /\ out'[1].msg = server'.expects
  <2>1. CASE out[1].kind # "line"
    BY <1>7, <2>1
  <2>2. CASE out[1].kind = "line" /\ Len(out) = 1
    BY <1>2, <1>3, <1>7, <1>13, <2>2 DEF SoloFramed, SoloStays, SoloBecomes
  <2>3. CASE out[1].kind = "line" /\ Len(out) # 1
    <3>1. 1 \in 1 .. Len(out') /\ out'[1] = out[1 + 1]
      BY <1>2, <2>3
    <3>2. out[1 + 1].kind = "payload" /\ out[1 + 1].msg = out[1].msg
      BY <1>2, <2>3 DEF SoloFramed
    <3> QED
      BY <1>2, <1>7, <1>13, <2>3, <3>1, <3>2
  <2> QED
    BY <2>1, <2>2, <2>3
<1>11. Solo'.pc = "payload" /\ conn'.open =>
         IF out' = <<>> THEN server'.expects = Solo'.msg
                        ELSE out'[Len(out')].kind = "line" /\ out'[Len(out')].msg = Solo'.msg
  <2> SUFFICES ASSUME Solo.pc = "payload", conn.open
               PROVE  IF out' = <<>> THEN server'.expects = Solo.msg
                      ELSE out'[Len(out')].kind = "line" /\ out'[Len(out')].msg = Solo.msg
    BY <1>1, <1>3 DEF SoloStays, SoloBecomes
  <2>1. out[Len(out)].kind = "line" /\ out[Len(out)].msg = Solo.msg
    BY <1>1 DEF SoloFramed
  <2>2. CASE Len(out) = 1
    BY <1>2, <1>7, <1>13, <2>1, <2>2
  <2>3. CASE Len(out) # 1
    <3>1. Len(out') \in 1 .. Len(out') /\ Len(out') + 1 = Len(out)
      BY <1>2, <2>3
    <3>2. out'[Len(out')] = out[Len(out)]
      BY <1>2, <3>1
    <3> QED
      BY <1>2, <1>13, <2>1, <2>3, <3>2
  <2> QED
    BY <2>2, <2>3
<1>12. SoloFramed'
  BY <1>6, <1>9, <1>10, <1>11 DEF SoloFramed
<1> QED
  BY <1>8, <1>12
LEMMA SoloFramedStep ==
  ASSUME TypeOK, PayloadsSent, Alone, SoloLink, SoloFramed, SoloNext
  PROVE  SoloFramed'
<1> USE SoloType
<1>1. CASE /\ UNCHANGED <<out, server>>
           /\ Solo.pc # "payload" /\ Solo'.pc # "payload"
  BY <1>1, FramedSame
<1>2. CASE (Disconnect \/ LinkFails) /\ Solo'.pc # "payload"
  BY <1>2, LinkGone, LinkCut, FramedEmpty
<1>3. ASSUME NEW item \in Item, Send(item), item.kind # "payload",
             Solo.pc # "payload",
             IF item.kind = "line"
               THEN Solo'.pc = "payload" /\ Solo'.msg = item.msg /\ conn.connected
               ELSE Solo'.pc # "payload"
      PROVE  SoloFramed'
  <2>1. CASE Sent(item)
    BY <1>3, <2>1, FramedSent DEF Sent
  <2>2. CASE Voided
    <3>1. CASE item.kind # "line"
      BY <1>1, <1>3, <2>2, <3>1 DEF Voided
    <3>2. CASE item.kind = "line"
      BY <1>3, <2>2, <3>2, FramedEmpty DEF Voided, SoloLink, LinkKept
    <3> QED
      BY <3>1, <3>2
  <2>3. CASE SendFails
    <3>1. item.kind = "line" => ~conn'.open
      BY <1>3, <2>3, LinkCut, LinkGone DEF SendFails
    <3> QED
      BY <1>3, <2>3, <3>1, LinkCut, FramedEmpty DEF SendFails
  <2> QED
    BY <1>3, <2>1, <2>2, <2>3, SendCases
<1>4. CASE Publish(Main)
  <2>1. Solo.pc # "payload" /\ Solo'.pc # "payload"
    BY <1>4, SoloHolding DEF Publish, Free, At, Solo, SoloBecomes
  <2> QED
    BY <1>1, <1>4, <2>1 DEF Publish
<1>5. CASE PublishCheck(Main)
  <2>1. Solo.pc # "payload" /\ Solo'.pc # "payload"
    <3>1. Solo.pc = "check"
      BY <1>5 DEF PublishCheck, At, Solo
    <3>2. Goto(Main, "line") \/ Goto(Main, "push") \/ Published(Main, FALSE)
      BY <1>5 DEF PublishCheck
    <3>3. CASE Goto(Main, "line")
      BY <3>1, <3>3, SoloGoto DEF SoloBecomes
    <3>4. CASE Goto(Main, "push")
      BY <3>1, <3>4, SoloGoto DEF SoloBecomes
    <3>5. CASE Published(Main, FALSE)
      BY <3>1, <3>5, SoloPublished DEF SoloBecomes
    <3> QED
      BY <3>2, <3>3, <3>4, <3>5
  <2> QED
    BY <1>1, <1>5, <2>1 DEF PublishCheck
<1>6. CASE PublishPush(Main)
  <2>1. Solo.pc # "payload" /\ Solo'.pc # "payload"
    BY <1>6, SoloPublished DEF PublishPush, At, Solo, SoloBecomes
  <2> QED
    BY <1>1, <1>6, <2>1 DEF PublishPush
<1>7. CASE PublishLine(Main)
  <2>1. Solo.pc = "line" /\ conn.connected /\ Solo.msg \in Message
    BY <1>7 DEF PublishLine, At, Solo, SoloLink, Frame, Publishing, TaskRecord
  <2>2. CASE Send(WithHeaders(Solo.msg)) /\ Published(Main, conn'.connected)
    <3>1. Solo'.pc # "payload"
      BY <2>2, SoloPublished DEF SoloBecomes
    <3>2. WithHeaders(Solo.msg) \in Item /\ WithHeaders(Solo.msg).kind = "headers"
      BY <2>1 DEF WithHeaders, Item
    <3> HIDE DEF WithHeaders
    <3> QED
      BY <1>3, <2>1, <2>2, <3>1, <3>2
  <2>3. CASE Send(Line(Solo.msg)) /\ Goto(Main, "payload")
    <3>1. Solo'.pc = "payload" /\ Solo'.msg = Solo.msg
      BY <2>3, SoloGoto DEF SoloBecomes
    <3>2. /\ Line(Solo.msg) \in Item /\ Line(Solo.msg).kind = "line"
          /\ Line(Solo.msg).msg = Solo.msg
      BY <2>1 DEF Line, Item
    <3> HIDE DEF Line
    <3> QED
      BY <1>3, <2>1, <2>3, <3>1, <3>2
  <2> QED
    BY <1>7, <2>2, <2>3 DEF PublishLine, Solo
<1>8. CASE PublishPayload(Main)
  <2>1. Solo.pc = "payload" /\ Solo.msg \in Message
    BY <1>8 DEF PublishPayload, At, Solo, Frame, Publishing, TaskRecord
  <2>2. Solo'.pc # "payload"
    BY <1>8, SoloPublished DEF PublishPayload, SoloBecomes
  <2>3. Send(Payload(Solo.msg))
    <3>1. ~(Kind[Solo.msg] = "binary" /\ conn.link = "transport")
      BY <2>1 DEF PayloadsSent, LinkOK
    <3> QED
      BY <1>8, <3>1 DEF PublishPayload, SendPayload, Solo
  <2>4. /\ Payload(Solo.msg) \in Item /\ Payload(Solo.msg).kind = "payload"
        /\ Payload(Solo.msg).msg = Solo.msg
    BY <2>1 DEF Payload, Item
  <2> HIDE DEF Payload
  <2>5. CASE Sent(Payload(Solo.msg))
    BY <2>1, <2>2, <2>4, <2>5, FramedPaid DEF Sent
  <2>6. CASE Voided
    <3>1. Solo.pc = "payload"
      BY <1>8 DEF PublishPayload, At, Solo
    <3>2. ~conn.open
      BY <2>6, <3>1 DEF Voided, SoloLink, LinkKept, InConnect, HalfOpen
    <3> QED
      BY <2>2, <2>6, <3>2, FramedEmpty DEF Voided, SoloLink, LinkKept
  <2>7. CASE SendFails
    BY <1>2, <2>2, <2>7 DEF SendFails
  <2> QED
    BY <2>3, <2>5, <2>6, <2>7, SendCases
<1>9. CASE ReplayBegin(Main) \/ ReplayPop(Main)
  <2>1. Solo.pc # "payload" /\ Solo'.pc # "payload"
    BY <1>9, SoloStage, SoloHolding DEF ReplayBegin, ReplayPop, At, Solo, SoloBecomes
  <2> QED
    BY <1>1, <1>9, <2>1 DEF ReplayBegin, ReplayPop
<1>10. CASE PingSend(Main)
  <2>1. Solo.pc # "payload" /\ Solo'.pc # "payload" /\ Send(Ping)
    BY <1>10, SoloGoto DEF PingSend, At, Solo, SoloBecomes
  <2>2. Ping \in Item /\ Ping.kind = "PING"
    BY LinkTypes DEF Ping
  <2> QED
    BY <1>3, <2>1, <2>2
<1>11. CASE FlushTrue(Main) \/ FlushFalse(Main) \/ FlushBegin(Main)
  <2>1. Solo.pc # "payload" /\ Solo'.pc # "payload"
    BY <1>11, SoloFlushing
       DEF FlushTrue, FlushFalse, FlushReturns, FlushBegin, Free, At, Solo, SoloBecomes
  <2> QED
    BY <1>1, <1>11, <2>1 DEF FlushTrue, FlushFalse, FlushReturns, FlushBegin
<1>12. CASE RecvInfo(Main)
  <2>1. Solo.pc # "payload" /\ Solo'.pc # "payload"
    BY <1>12, SoloStage DEF RecvInfo, Receiving, At, Solo, SoloBecomes
  <2> QED
    BY <1>1, <1>2, <1>12, <2>1 DEF RecvInfo
<1>13. CASE /\ UNCHANGED task /\ Solo.pc # "payload"
            /\ UNCHANGED <<out, server>> \/ Disconnect \/ LinkFails
  BY <1>1, <1>2, <1>13 DEF Solo
<1>14. CASE Recv(Main) /\ ~RecvInfo(Main)
  <2>1. UNCHANGED task /\ Solo.pc # "payload"
    BY <1>14 DEF Recv, RecvPong, RecvPing, Receiving, At, Solo
  <2>2. CASE out' = Append(out, Pong) /\ UNCHANGED server
    <3>1. Pong \in Item /\ Pong.kind = "PONG"
      BY LinkTypes DEF Pong
    <3> QED
      BY <2>1, <2>2, <3>1, FramedSent DEF Solo
  <2> QED
    BY <1>13, <1>14, <2>1, <2>2 DEF Recv, RecvPong, RecvPing
<1>15. CASE ConnectionEnds(Main) \/ ProcessDropped
  <2>1. UNCHANGED task /\ Solo.pc # "payload"
    BY <1>15 DEF ConnectionEnds, ProcessDropped, InProcess, Receiving, At, Solo
  <2> QED
    BY <1>13, <1>15, <2>1 DEF ConnectionEnds, ProcessDropped
<1>16. CASE PingCheck
  <2>1. Solo.pc # "payload" /\ Solo'.pc # "payload"
    BY <1>16, SoloGoto DEF PingCheck, InProcess, At, Solo, SoloBecomes
  <2> QED
    BY <1>1, <1>2, <1>16, <2>1 DEF PingCheck
<1>17. CASE PingCount
  <2>1. Solo.pc # "payload" /\ Solo'.pc # "payload"
    BY <1>17, SoloGoto DEF PingCount, At, Solo, SoloBecomes
  <2> QED
    BY <1>1, <1>17, <2>1 DEF PingCount
<1>18. CASE Dial
  BY <1>13, <1>18 DEF Dial, InProcess, At, Solo
<1>23. CASE HandshakeFails
  <2>1. UNCHANGED task /\ Solo.pc # "payload" /\ Solo'.pc # "payload"
    BY <1>23, HandshakeOver DEF Receiving, At, Solo
  <2>2. CASE out' = <<>> /\ server'.expects = NoMessage
    BY <1>23, <2>1, <2>2, HandshakeOver, FramedEmpty
  <2> QED
    BY <1>13, <1>23, <2>1, <2>2, HandshakeOver
<1>19. CASE ServerReads
  BY <1>19, FramedRead
<1>20. CASE TransportDrops
  BY <1>20, LinkDropped, FramedEmpty
<1>21. CASE UNCHANGED <<conn, out, server, task>>
  BY <1>21, FramedSame DEF Solo
<1>22. CASE ServerPings \/ MoodChanges
  BY <1>21, <1>22 DEF ServerPings, MoodChanges
<1> QED
  BY <1>4, <1>5, <1>6, <1>7, <1>8, <1>9, <1>10, <1>11, <1>12, <1>14, <1>15, <1>16, <1>17,
     <1>18, <1>19, <1>20, <1>22, <1>23
     DEF SoloNext, Application, Progress, Process, Environment, Recv

-----------------------------------------------------------------------------
(* flush() of one task                                                     *)

Received(d) == \E i \in 1 .. Len(server.got) : server.got[i] = d

\* Message d is on the link, and a PING behind it or about to be sent.
PingBehind(d) ==
  \E j \in 1 .. Len(out) :
    /\ Delivers(out[j]) /\ out[j].msg = d
    /\ Solo.pc = "pingsend" \/ \E k \in 1 .. Len(out) : j < k /\ out[k] = Ping

\* What flush() waits for, if it was called with no PING unanswered: received or
\* followed by its PING; when the connection is lost, the count stays above 0.
SoloFlush ==
  Solo.flush # "no" /\ Solo.initial = 0 =>
    IF conn.open /\ conn.connected
      THEN \A d \in Solo.due : Received(d) \/ PingBehind(d)
      ELSE pings >= 1 \/ \A d \in Solo.due : Received(d)

LEMMA FlushLost ==
  ASSUME TypeOK, SoloPings, SoloFlush, Solo.flush # "no", Solo.initial = 0
  PROVE  pings >= 1 \/ \A d \in Solo.due : Received(d)
<1>1. ASSUME conn.open, conn.connected, NEW d, PingBehind(d)
      PROVE  pings >= 1
  <2>1. Solo.pc = "pingsend" \/ \E k \in 1 .. Len(out) : out[k] = Ping
    BY <1>1 DEF PingBehind
  <2>2. (\E k \in 1 .. Len(out) : out[k] = Ping) => Count(out, Ping) >= 1
    <3>1. \A k \in DOMAIN out : out[k] = Ping => Count(out, Ping) >= 1
      BY CountFacts, LinkTypes
    <3>2. DOMAIN out = 1 .. Len(out)
      BY LinkTypes
    <3> QED
      BY <3>1, <3>2
  <2> QED
    BY <1>1, <2>1, <2>2, LinkTypes DEF SoloPings, Unanswered
<1> QED
  BY <1>1 DEF SoloFlush

\* The connection is lost in this step.
LEMMA FlushCut ==
  ASSUME TypeOK, SoloPings, SoloFlush, server'.got = server.got, pings' >= pings,
         pings' \in Int, ~(conn'.open /\ conn'.connected),
         Solo'.flush = Solo.flush, Solo'.initial = Solo.initial, Solo'.due = Solo.due
  PROVE  SoloFlush'
<1>1. \A d : Received(d) => Received(d)'
  BY DEF Received
<1> QED
  BY <1>1, FlushLost, LinkTypes DEF SoloFlush, Received

\* Something is added to the link, or nothing.
LEMMA FlushGoes ==
  ASSUME TypeOK, SoloPings, SoloFlush, server'.got = server.got, UNCHANGED conn,
         pings' >= pings, pings' \in Int, NEW item \in Item,
         \/ out' = out /\ (Solo.pc = "pingsend" => Solo'.pc = "pingsend")
         \/ /\ out' = Append(out, item)
            /\ Solo.pc = "pingsend" => Solo'.pc = "pingsend" \/ item = Ping,
         Solo'.flush = Solo.flush, Solo'.initial = Solo.initial, Solo'.due = Solo.due
  PROVE  SoloFlush'
<1>1. \A d : Received(d) => Received(d)'
  BY DEF Received
<1>2. /\ Len(out) \in Nat /\ Len(out') >= Len(out) /\ Len(out') \in Nat
      /\ \A j \in 1 .. Len(out) : j \in 1 .. Len(out') /\ out'[j] = out[j]
  <2>1. CASE out' = out
    BY <2>1, LinkTypes
  <2>2. CASE out' = Append(out, item)
    BY <2>2, LinkTypes
  <2> QED
    BY <2>1, <2>2
<1>3. Solo.pc = "pingsend" /\ Solo'.pc # "pingsend" =>
        Len(out) + 1 \in 1 .. Len(out') /\ out'[Len(out) + 1] = Ping
  BY LinkTypes
<1>4. ASSUME NEW d, PingBehind(d) PROVE PingBehind(d)'
  <2>1. PICK j \in 1 .. Len(out) :
          /\ Delivers(out[j]) /\ out[j].msg = d
          /\ Solo.pc = "pingsend" \/ \E k \in 1 .. Len(out) : j < k /\ out[k] = Ping
    BY <1>4 DEF PingBehind
  <2>2. Solo'.pc = "pingsend" \/ \E k \in 1 .. Len(out') : j < k /\ out'[k] = Ping
    <3>1. j < Len(out) + 1
      BY <1>2
    <3> QED
      BY <1>2, <1>3, <2>1, <3>1
  <2>3. j \in 1 .. Len(out') /\ Delivers(out'[j]) /\ out'[j].msg = d
    BY <1>2, <2>1
  <2> QED
    BY <2>2, <2>3 DEF PingBehind
<1> QED
  BY <1>1, <1>4, LinkTypes DEF SoloFlush

LEMMA FlushSent ==
  ASSUME TypeOK, SoloPings, SoloFlush, NEW item \in Item, Send(item),
         UNCHANGED pings, Solo.pc = "pingsend" => item = Ping,
         Solo'.flush = Solo.flush, Solo'.initial = Solo.initial, Solo'.due = Solo.due
  PROVE  SoloFlush'
<1>1. CASE Sent(item)
  BY <1>1, FlushGoes, LinkTypes DEF Sent
<1>2. CASE Voided
  BY <1>2, FlushCut, LinkTypes DEF Voided, SoloPings
<1>3. CASE SendFails
  BY <1>3, FlushCut, LinkCut, LinkTypes DEF SendFails
<1> QED
  BY <1>1, <1>2, <1>3, SendCases

\* flush() is called: what is under way will be delivered, in front of its PING.
LEMMA FlushStarts ==
  ASSUME TypeOK, SoloLink, SoloFramed, FlushBegin(Main)
  PROVE  SoloFlush'
<1>1. /\ Solo.pc = "idle" /\ conn.connected /\ UNCHANGED <<conn, out, server>>
      /\ Becomes(Main, Flushing(task[Main], "pingsend", task[Main].stage, pings, UnderWay))
  BY DEF FlushBegin, Free, At, Solo
<1>2. Solo'.pc = "pingsend" /\ Solo'.due = UnderWay
  BY <1>1, SoloFlushing DEF SoloBecomes
<1>3. ASSUME NEW d \in UnderWay
      PROVE  \E j \in 1 .. Len(out) : Delivers(out[j]) /\ out[j].msg = d
  <2>1. DOMAIN out = 1 .. Len(out) /\ \A i \in 1 .. Len(out) : out[i] \in Item
    BY LinkTypes
  <2>2. PICK i \in 1 .. Len(out) : out[i].msg = d /\ d # NoMessage
    BY <2>1 DEF UnderWay, Range
  <2>3. out[i].kind \in {"line", "payload", "headers"}
    BY <2>1, <2>2 DEF Item
  <2>4. CASE out[i].kind = "line"
    <3>1. i # Len(out)
      BY <1>1, <2>4 DEF SoloFramed
    <3>2. i + 1 \in 1 .. Len(out)
      BY <3>1, LinkTypes
    <3>3. out[i + 1].kind = "payload" /\ out[i + 1].msg = d
      BY <2>2, <2>4, <3>1 DEF SoloFramed
    <3> QED
      BY <3>2, <3>3 DEF Delivers
  <2> QED
    BY <2>2, <2>3, <2>4 DEF Delivers
<1>4. \A d \in UnderWay : PingBehind(d)'
  BY <1>1, <1>2, <1>3 DEF PingBehind
<1>5. ~conn.open => UnderWay = {}
  <2>1. out = <<>> => Range(out) = {}
    BY DEF Range
  <2> QED
    BY <2>1 DEF SoloLink, LinkKept, UnderWay
<1> QED
  BY <1>1, <1>2, <1>4, <1>5 DEF SoloFlush

\* The server reads: the message that flush() waits for is received.
LEMMA FlushRead ==
  ASSUME TypeOK, SoloLink, SoloFramed, SoloFlush, ServerReads, conn.connected
  PROVE  SoloFlush'
<1>1. /\ out # <<>> /\ out' = Tail(out) /\ UNCHANGED <<conn, task, pings>> /\ conn.open
  BY DEF ServerReads
<1>2. /\ Len(out') = Len(out) - 1 /\ Len(out) \in Nat /\ Len(out) >= 1
      /\ \A i \in 1 .. Len(out') : out'[i] = out[i + 1]
      /\ Head(out) = out[1] /\ out[1] \in Item
  BY <1>1, LinkTypes
<1>3. SoloStays
  BY <1>1, SoloSame
<1>4. /\ Delivers(out[1]) => server'.got = Append(server.got, out[1].msg)
      /\ server'.got = server.got
           \/ server'.got = Append(server.got, out[1].msg)
      /\ server.got \in Seq(Message)
  <2>1. server \in ServerType
    BY DEF TypeOK, ServerType
  <2>2. server' = Parsed(server, out[1])
    BY <1>2 DEF ServerReads
  <2> QED
    BY <1>2, <2>1, <2>2, FramedRead, ParsedFacts, LinkTypes
<1>5. ASSUME NEW d, Received(d) PROVE Received(d)'
  <2>1. PICK i \in 1 .. Len(server.got) : server.got[i] = d
    BY <1>5 DEF Received
  <2>2. server'.got = server.got => Received(d)'
    BY <2>1 DEF Received
  <2>3. server'.got = Append(server.got, out[1].msg)
          => i \in 1 .. Len(server'.got) /\ server'.got[i] = d
    BY <1>4, <2>1, OrderTypes
  <2> QED
    BY <1>4, <2>2, <2>3 DEF Received
<1>6. ASSUME NEW d, PingBehind(d) PROVE Received(d)' \/ PingBehind(d)'
  <2>1. PICK j \in 1 .. Len(out) :
          /\ Delivers(out[j]) /\ out[j].msg = d
          /\ Solo.pc = "pingsend" \/ \E k \in 1 .. Len(out) : j < k /\ out[k] = Ping
    BY <1>6 DEF PingBehind
  <2>2. CASE j = 1
    <3>1. server'.got = Append(server.got, d) /\ server.got \in Seq(Message)
      BY <1>4, <2>1, <2>2
    <3>2. /\ Len(server.got) + 1 \in 1 .. Len(server'.got)
          /\ server'.got[Len(server.got) + 1] = d
      BY <3>1, OrderTypes, <2>1
    <3> QED
      BY <3>2 DEF Received
  <2>3. CASE j # 1
    <3>1. j - 1 \in 1 .. Len(out') /\ out'[j - 1] = out[j]
      BY <1>2, <2>3
    <3>2. \A k \in 1 .. Len(out) : j < k => j - 1 < k - 1 /\ k - 1 \in 1 .. Len(out')
                                             /\ out'[k - 1] = out[k]
      BY <1>2
    <3>3. Solo'.pc = "pingsend" \/ \E k \in 1 .. Len(out') : j - 1 < k /\ out'[k] = Ping
      BY <1>3, <2>1, <3>2 DEF SoloStays, SoloBecomes
    <3> QED
      BY <2>1, <3>1, <3>3 DEF PingBehind
  <2> QED
    BY <2>2, <2>3
<1> QED
  BY <1>1, <1>3, <1>5, <1>6 DEF SoloFlush, SoloStays, SoloBecomes
LEMMA SoloFlushStep ==
  ASSUME TypeOK, TypeOK', Alone, SoloLink, SoloPings, SoloFramed, SoloFlush, SoloNext
  PROVE  SoloFlush'
<1> USE SoloType
<1> DEFINE Same == /\ Solo'.flush = Solo.flush /\ Solo'.initial = Solo.initial
                   /\ Solo'.due = Solo.due
<1>0. pings \in Int /\ pings' \in Int /\ pings >= pings
  BY DEF TypeOK
<1>1. CASE /\ UNCHANGED <<conn, out, server, pings>> /\ Same
           /\ Solo.pc = "pingsend" => Solo'.pc = "pingsend"
  BY <1>0, <1>1, FlushGoes, LinkTypes
<1>2. CASE (Disconnect \/ LinkFails) /\ UNCHANGED pings /\ Same
  BY <1>0, <1>2, FlushCut, LinkGone, LinkCut
<1>3. CASE Publish(Main)
  <2>1. Solo.pc # "pingsend" /\ Same
    BY <1>3, SoloHolding DEF Publish, Free, At, Solo, SoloBecomes
  <2> QED
    BY <1>1, <1>3, <2>1 DEF Publish
<1>4. CASE PublishCheck(Main)
  <2>1. Solo.pc # "pingsend"
    BY <1>4 DEF PublishCheck, At, Solo
  <2>2. Goto(Main, "line") \/ Goto(Main, "push") \/ Published(Main, FALSE)
    BY <1>4 DEF PublishCheck
  <2>3. Goto(Main, "line") \/ Goto(Main, "push") => Same
    BY SoloGoto DEF SoloBecomes
  <2>4. Published(Main, FALSE) => Same
    BY SoloPublished DEF SoloBecomes
  <2>5. Same
    BY <2>2, <2>3, <2>4
  <2> QED
    BY <1>1, <1>4, <2>1, <2>5 DEF PublishCheck
<1>5. CASE PublishPush(Main)
  <2>1. Solo.pc # "pingsend" /\ Same
    BY <1>5, SoloPublished DEF PublishPush, At, Solo, SoloBecomes
  <2> QED
    BY <1>1, <1>5, <2>1 DEF PublishPush
<1>6. CASE PublishLine(Main)
  <2>1. Solo.pc = "line" /\ Solo.msg \in Message /\ UNCHANGED pings
    BY <1>6 DEF PublishLine, At, Solo, Frame, Publishing, TaskRecord
  <2>2. Goto(Main, "payload") \/ Published(Main, conn'.connected)
    BY <1>6 DEF PublishLine
  <2>3. Same
    BY <2>2, SoloGoto, SoloPublished DEF SoloBecomes
  <2>4. Line(Solo.msg) \in Item /\ WithHeaders(Solo.msg) \in Item
    BY <2>1 DEF Line, WithHeaders, Item
  <2>5. Send(Line(Solo.msg)) \/ Send(WithHeaders(Solo.msg))
    BY <1>6 DEF PublishLine, Solo
  <2> HIDE DEF Line, WithHeaders
  <2> QED
    BY <2>1, <2>3, <2>4, <2>5, FlushSent
<1>7. CASE PublishPayload(Main)
  <2>1. Solo.pc = "payload" /\ Solo.msg \in Message /\ UNCHANGED pings
    BY <1>7 DEF PublishPayload, At, Solo, Frame, Publishing, TaskRecord
  <2>2. Same
    BY <1>7, SoloPublished DEF PublishPayload, SoloBecomes
  <2>3. Payload(Solo.msg) \in Item
    BY <2>1 DEF Payload, Item
  <2>4. Send(Payload(Solo.msg)) \/ SendNothing
    BY <1>7 DEF PublishPayload, SendPayload, Solo
  <2> HIDE DEF Payload
  <2> QED
    BY <1>1, <2>1, <2>2, <2>3, <2>4, FlushSent DEF SendNothing
<1>8. CASE ReplayBegin(Main) \/ ReplayPop(Main)
  <2>1. Solo.pc # "pingsend" /\ Same
    BY <1>8, SoloStage, SoloHolding DEF ReplayBegin, ReplayPop, At, Solo, SoloBecomes
  <2> QED
    BY <1>1, <1>8, <2>1 DEF ReplayBegin, ReplayPop
<1>9. CASE PingSend(Main)
  <2>1. Same /\ UNCHANGED pings /\ Send(Ping)
    BY <1>9, SoloGoto DEF PingSend, SoloBecomes
  <2> QED
    BY <2>1, FlushSent, LinkTypes
<1>10. CASE FlushTrue(Main) \/ FlushFalse(Main)
  <2>1. Solo'.flush = "no"
    BY <1>10, SoloFlushing DEF FlushTrue, FlushFalse, FlushReturns, SoloBecomes
  <2> QED
    BY <2>1 DEF SoloFlush
<1>11. CASE FlushBegin(Main)
  BY <1>11, FlushStarts
<1>12. CASE RecvInfo(Main)
  <2>1. Solo'.flush = "no"
    BY <1>12, SoloStage DEF RecvInfo, SoloLink, SoloBecomes
  <2> QED
    BY <2>1 DEF SoloFlush
<1>13. CASE UNCHANGED task
  <2> USE <1>13
  <2>1. Same /\ Solo'.pc = Solo.pc
    BY DEF Solo
  <2>2. CASE RecvPong(Main)
    <3>1. UNCHANGED <<conn, out, server>> /\ in # <<>> /\ conn.connected
      BY <2>2 DEF RecvPong
    <3>2. conn.open
      BY <3>1 DEF SoloLink, LinkKept
    <3> QED
      BY <2>1, <3>1, <3>2 DEF SoloFlush, Received, PingBehind
  <2>3. CASE RecvPing(Main)
    <3>1. UNCHANGED pings /\ Solo.pc # "pingsend"
      BY <2>3 DEF RecvPing, Receiving, At, Solo
    <3>2. CASE UNCHANGED <<conn, server>> /\ out' = Append(out, Pong)
      BY <1>0, <2>1, <3>1, <3>2, FlushGoes, LinkTypes
    <3> QED
      BY <1>2, <2>1, <2>3, <3>1, <3>2 DEF RecvPing
  <2>4. CASE ConnectionEnds(Main) \/ ProcessDropped
    BY <1>2, <2>1, <2>4 DEF ConnectionEnds, ProcessDropped
  <2>5. CASE PingCheck
    BY <1>1, <1>2, <2>1, <2>5 DEF PingCheck
  <2>6. CASE Dial
    BY <2>1, <2>6 DEF Dial, InProcess, SoloFlush, Solo
  <2>7. CASE ServerReads
    <3>1. CASE conn.connected
      BY <2>7, <3>1, FlushRead
    <3>2. CASE ~conn.connected
      <4>1. conn.open /\ out # <<>>
        BY <2>7 DEF ServerReads
      <4>2. Solo.flush = "no"
        BY <3>2, <4>1 DEF SoloLink, InConnect, HalfOpen
      <4> QED
        BY <2>1, <4>2 DEF SoloFlush
    <3> QED
      BY <3>1, <3>2
  <2>11. CASE HandshakeFails
    <3>1. Solo.flush = "no"
      BY <2>11, HandshakeOver DEF SoloLink
    <3> QED
      BY <2>1, <3>1 DEF SoloFlush
  <2>8. CASE TransportDrops
    BY <1>0, <2>1, <2>8, FlushCut, LinkDropped DEF TransportDrops
  <2>9. CASE ServerPings \/ MoodChanges
    BY <1>1, <2>1, <2>9 DEF ServerPings, MoodChanges
  <2>10. CASE PingCount
    <3>1. Goto(Main, "pingsend") /\ Solo.pc = "ping"
      BY <2>10 DEF PingCount, At, Solo
    <3> QED
      BY <2>1, <3>1, SoloGoto DEF SoloBecomes
  <2> QED
    BY <1>3, <1>4, <1>5, <1>6, <1>7, <1>8, <1>9, <1>10, <1>11, <1>12,
       <2>2, <2>3, <2>4, <2>5, <2>6, <2>7, <2>8, <2>9, <2>10, <2>11
       DEF SoloNext, Application, Progress, Recv, Process, Environment
<1>14. CASE PingCheck
  <2>1. UNCHANGED task \/ (Goto(Main, "ping") /\ UNCHANGED <<conn, out, server, pings>>)
    BY <1>14 DEF PingCheck
  <2>2. Goto(Main, "ping") => Same
    BY SoloGoto DEF SoloBecomes
  <2>3. Solo.pc # "pingsend"
    BY <1>14 DEF PingCheck, InProcess, At, Solo
  <2> QED
    BY <1>1, <1>13, <2>1, <2>2, <2>3
<1>15. CASE PingCount
  <2>1. /\ UNCHANGED <<conn, out, server>> /\ Goto(Main, "pingsend") /\ pings' = pings + 1
        /\ Solo.pc = "ping"
    BY <1>15 DEF PingCount, At, Solo
  <2>2. Same
    BY <2>1, SoloGoto DEF SoloBecomes
  <2>3. pings' >= pings
    BY <1>0, <2>1
  <2> QED
    BY <1>0, <2>1, <2>2, <2>3, FlushGoes, LinkTypes
<1> QED
  BY <1>3, <1>4, <1>5, <1>6, <1>7, <1>8, <1>9, <1>10, <1>11, <1>12, <1>13, <1>14, <1>15
     DEF SoloNext, Application, Progress, Recv, Process, Environment, RecvPong, RecvPing,
         ConnectionEnds, ProcessDropped, Dial, HandshakeFails, ServerReads, TransportDrops, ServerPings,
         MoodChanges

-----------------------------------------------------------------------------
(* The theorems about one task                                             *)

LEMMA ReorderedStays ==
  ASSUME TypeOK, Alone, SoloNext PROVE past.reordered => past'.reordered
<1> USE SoloType
<1>1. CASE UNCHANGED past
  BY <1>1
<1>2. ASSUME NEW item, Send(item) PROVE past.reordered => past'.reordered
  BY <1>2, SendCases DEF Sent, Voided, SendFails
<1>3. CASE Publish(Main) \/ ReplayBegin(Main) \/ PublishPush(Main)
  BY <1>3, TypeParts DEF Publish, ReplayBegin, PublishPush, PastType
<1>4. CASE PublishLine(Main) \/ PublishPayload(Main) \/ PingSend(Main)
  BY <1>1, <1>2, <1>4 DEF PublishLine, PublishPayload, SendPayload, SendNothing, PingSend
<1>5. CASE \/ FlushBegin(Main) \/ FlushReturns(Main) \/ PublishCheck(Main)
           \/ ReplayPop(Main) \/ Recv(Main) \/ ConnectionEnds(Main)
  BY <1>1, <1>5
     DEF FlushBegin, FlushReturns, PublishCheck, ReplayPop, Recv, RecvInfo, RecvPong,
         RecvPing, ConnectionEnds
<1>6. CASE PingCheck \/ Process \/ HandshakeFails \/ ServerReads \/ Environment
  BY <1>1, <1>6
     DEF PingCheck, Process, PingCount, Dial, ProcessDropped, HandshakeFails, ServerReads, Environment,
         TransportDrops, ServerPings, MoodChanges
<1> QED
  BY <1>3, <1>4, <1>5, <1>6 DEF SoloNext, Application, Progress, FlushTrue, FlushFalse

\* What one task can rely on.
SoloInv ==
  Alone => /\ SoloLink /\ SoloPings /\ (~past.reordered => SoloOrder)
           /\ PayloadsSent => SoloFramed /\ SoloFlush

LEMMA SoloInit == Init => SoloInv
<1> SUFFICES ASSUME Init
             PROVE  /\ SoloLink /\ SoloPings /\ SoloOrder
                    /\ SoloFramed /\ SoloFlush
  BY DEF SoloInv
<1>1. TypeOK
  BY InitTypeOK
<1>2. /\ Solo.pc = "idle" /\ Solo.stage = "run" /\ Solo.flush = "no"
      /\ ~conn.open /\ ~conn.connected /\ ~conn.dialing /\ ~conn.dead
  BY <1>1, SoloType DEF Init, Solo, Idle
<1>3. /\ out = <<>> /\ in = <<>> /\ pending = <<>> /\ server.got = <<>>
      /\ ~server.garbled /\ server.expects = NoMessage
      /\ past.dropped = {} /\ ~past.raced
  BY DEF Init
<1>4. 1 .. Len(out) = {} /\ 1 .. Len(pending) = {} /\ 1 .. Len(server.got) = {}
  BY <1>3
<1> QED
  BY <1>2, <1>3, <1>4
     DEF SoloLink, LinkKept, InConnect, HalfOpen, SoloPings, SoloOrder, OrderOnLink, OrderInBuffer,
         DeliveredBefore, OrderHeld, Publishing, BufferDrained, SoloFramed, SoloFlush

LEMMA SoloInvStep ==
  ASSUME TypeOK, TypeOK', SoloInv, [Next]_vars PROVE SoloInv'
<1> SUFFICES ASSUME Alone'
             PROVE  /\ SoloLink' /\ SoloPings' /\ (~past'.reordered => SoloOrder')
                    /\ PayloadsSent => SoloFramed' /\ SoloFlush'
  BY DEF SoloInv, PayloadsSent
<1>1. UNCHANGED tasks
  BY DEF Next, vars, Application, Progress, Recv, ConnectionEnds, PingCheck, Process,
         HandshakeFails, ServerReads, Environment, Publish, FlushBegin, PublishCheck, PublishPush,
         PublishLine, PublishPayload, ReplayBegin, ReplayPop, PingSend, FlushTrue,
         FlushFalse, FlushReturns, RecvInfo, RecvPong, RecvPing, PingCount, Dial,
         ProcessDropped, TransportDrops, ServerPings, MoodChanges
<1>2. Alone
  BY <1>1 DEF Alone
<1>3. CASE UNCHANGED vars
  BY <1>2, <1>3
     DEF SoloInv, vars, SoloLink, LinkKept, InConnect, HalfOpen, SoloPings, Unanswered, SoloOrder, OrderOnLink,
         OrderInBuffer, DeliveredBefore, Early, OrderHeld, BufferDrained, SoloFramed,
         SoloFlush, Received, PingBehind, Solo
<1>4. CASE SoloNext
  BY <1>2, <1>4, ReorderedStays, SoloLinkStep, SoloPingsStep, SoloOrderStep,
     SoloFramedStep, SoloFlushStep DEF SoloInv
<1> QED
  BY <1>2, <1>3, <1>4, SoloSteps

\* What one task can rely on holds in every run.
THEOREM SoloAlways == Spec => [](TypeOK /\ SoloInv)
<1>1. Init => TypeOK /\ SoloInv
  BY InitTypeOK, SoloInit
<1>2. TypeOK /\ SoloInv /\ [Next]_vars => (TypeOK /\ SoloInv)'
  BY NextTypeOK, SoloInvStep
<1> QED
  BY <1>1, <1>2, PTL DEF Spec

\* One task over the own socket never sends a message into the void.
THEOREM OfflineNeverSent == Spec => []OfflineNotSent
<1>1. TypeOK /\ SoloInv => OfflineNotSent
  BY DEF SoloInv, SoloLink, LinkKept, OfflineNotSent
<1> QED
  BY <1>1, SoloAlways, PTL

\* outstanding_pings counts exactly the PINGs without an answer.
THEOREM PingsAlwaysExact == Spec => []PingsExact
<1>1. TypeOK /\ SoloInv => PingsExact
  BY DEF SoloInv, SoloPings, PingsExact, Solo
<1> QED
  BY <1>1, SoloAlways, PTL

\* Messages of one task arrive in the order of publish(), whatever is buffered,
\* replayed, interrupted and reconnected, with the exceptions OrderKept names.
THEOREM OrderAlwaysKept == Spec => []OrderKept
<1>1. TypeOK /\ SoloInv => OrderKept
  <2> SUFFICES ASSUME TypeOK, SoloInv, Alone, ~past.reordered,
                      NEW i \in DOMAIN server.got, NEW j \in DOMAIN server.got, i < j
               PROVE  server.got[i] < server.got[j] \/ server.got[i] \in past.eager
    BY DEF OrderKept
  <2>1. DOMAIN server.got = 1 .. Len(server.got)
    BY LinkTypes
  <2> QED
    BY <2>1 DEF SoloInv, SoloOrder, OrderOnLink, Early
<1> QED
  BY <1>1, SoloAlways, PTL

\* One task never breaks the framing, unless it publishes a binary message over
\* a transport.
THEOREM SoloAlwaysFramed == PayloadsSent /\ Spec => [](Alone => Framed)
<1>1. PayloadsSent /\ TypeOK /\ SoloInv => (Alone => Framed)
  BY DEF SoloInv, SoloFramed, Framed
<1>2. PayloadsSent => []PayloadsSent
  <2>1. PayloadsSent => PayloadsSent'
    BY DEF PayloadsSent
  <2> QED
    BY <2>1, PTL
<1> QED
  BY <1>1, <1>2, SoloAlways, PTL

\* The step of flush() that returns true, in a state of such a run.
LEMMA FlushTrueMeans ==
  ASSUME TypeOK, SoloInv, PayloadsSent, NEW t \in tasks, Alone, FlushTrue(t),
         task[t].initial = 0
  PROVE  DueReceived(t)
<1>1. /\ t = Main /\ Solo.pc = "idle" /\ Solo.flush = Solo.stage /\ pings <= 0
      /\ Solo.initial = 0 /\ Solo.flush # "no"
  <2>1. Solo.stage # "no"
    BY SoloType DEF TaskRecord
  <2> QED
    BY <2>1 DEF Alone, FlushTrue, FlushReturns, At, Solo
<1>2. \A d \in Solo.due : Received(d)
  BY <1>1, FlushLost, LinkTypes DEF SoloInv
<1>3. DOMAIN server.got = 1 .. Len(server.got)
  BY LinkTypes
<1> QED
  BY <1>1, <1>2, <1>3 DEF DueReceived, Received, Range, Solo

\* flush() of one task returns true only when the server has received what was
\* under way, if no other PING was unanswered when it was called.
THEOREM FlushAlwaysHonest == PayloadsSent /\ Spec => FlushHonest
<1>1. PayloadsSent /\ TypeOK /\ SoloInv =>
        \A t \in tasks :
          Alone /\ FlushTrue(t) /\ task[t].initial = 0 => DueReceived(t)
  BY FlushTrueMeans
<1>2. PayloadsSent => []PayloadsSent
  <2>1. PayloadsSent => PayloadsSent'
    BY DEF PayloadsSent
  <2> QED
    BY <2>1, PTL
<1> QED
  BY <1>1, <1>2, SoloAlways, PTL DEF FlushHonest
=============================================================================
