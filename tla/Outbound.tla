------------------------------ MODULE Outbound ------------------------------
(***************************************************************************)
(* What class NATS (nats_client.h) sends: publish() in its three forms,    *)
(* the messages buffered while there is no connection and their replay     *)
(* after the handshake, the PINGs of the keepalive and of flush(), and the *)
(* PONGs.  One task runs process() and connect(); other tasks publish and  *)
(* flush.  The lines go through one link, in order, to a server that reads *)
(* the protocol.  How a connection comes about is the subject of module    *)
(* Connection; here it opens, completes its handshake late, in time or not *)
(* at all, fails and drops.                                                *)
(*                                                                         *)
(* Messages are numbered in the order in which publish() is called.        *)
(***************************************************************************)
EXTENDS Integers, Sequences, SequencesExt, FiniteSets

CONSTANTS
  Main,            \* the task that runs process() and connect()
  TaskSets,        \* which tasks use the client: sets of tasks with Main
  Links,           \* over what: a subset of {"socket", "transport"}
  Kind,            \* Kind[m] is how message m is published
  MaxPending,      \* max_pending_messages
  MaxPings,        \* max_outstanding_pings
  PingCap,         \* bound: flush() is called up to this many PINGs
  Moods            \* what may become of the network: a subset of
                   \* {"calm", "silent"}

ASSUME TasksAssumption ==
  \A tasks \in TaskSets : IsFiniteSet(tasks) /\ Main \in tasks
ASSUME LinksAssumption ==
  Links \subseteq {"socket", "transport"} /\ Moods \subseteq {"calm", "silent"}
ASSUME BoundsAssumption ==
  MaxPending \in Nat /\ MaxPings \in Nat /\ PingCap \in Nat

Task == UNION TaskSets
Message == DOMAIN Kind
NoMessage == 0

ASSUME KindAssumption ==
  /\ Message \subseteq Nat \ {NoMessage}
  /\ Kind \in [Message -> {"text", "headers", "binary"}]

VARIABLES
  tasks,           \* the tasks that use the client
  conn,            \* the link, and what the client believes of it
  out,             \* what the link carries to the server
  in,              \* what the link carries to the client
  pending,         \* pending_messages
  pings,           \* outstanding_pings
  task,            \* where each task is
  next,            \* the number of the last message published
  server,          \* the reader at the other end
  mood,            \* "wild", "calm" (nothing fails any more) or "silent"
  past             \* history: eager and dropped messages, replay that
                   \* reordered, a race that damaged the queue

vars ==
  <<tasks, conn, out, in, pending, pings, task, next, server, mood, past>>

Item == [kind : {"line", "payload", "headers"}, msg : Message]
          \cup [kind : {"PING", "PONG"}, msg : {NoMessage}]
Line(m) == [kind |-> "line", msg |-> m]
Payload(m) == [kind |-> "payload", msg |-> m]
WithHeaders(m) == [kind |-> "headers", msg |-> m]
Ping == [kind |-> "PING", msg |-> NoMessage]
Pong == [kind |-> "PONG", msg |-> NoMessage]

\* Where publish() is between its entry and its return.
Publishing == {"check", "push", "line", "payload"}

TaskRecord ==
  [pc : {"idle", "ping", "pingsend"} \cup Publishing,
   msg : Message \cup {NoMessage},   \* what it publishes
   stage : {"run", "on_connect", "replay"},   \* of the handshake in recv()
   flush : {"no", "run", "on_connect"},       \* a flush() called in that stage
   initial : Int,                    \* flush(): initial_pongs
   due : SUBSET Message]             \* flush(): what it is to wait for

Idle == [pc |-> "idle", msg |-> NoMessage, stage |-> "run",
         flush |-> "no", initial |-> 0, due |-> {}]

Count(s, item) == Cardinality({i \in DOMAIN s : s[i] = item})
EmptyLink == out' = <<>> /\ in' = <<>> /\ server' = [server EXCEPT !.expects = NoMessage]

-----------------------------------------------------------------------------
(* disconnect() and send()                                                 *)

DisconnectKeepingFlag ==                 \* mutant: connected stays true
  /\ conn' = [conn EXCEPT !.open = FALSE, !.dialing = FALSE, !.dead = FALSE]
  /\ EmptyLink

\* What is under way on the link is lost.
Disconnect ==
  /\ conn' = [conn EXCEPT !.open = FALSE, !.connected = FALSE,
                          !.dialing = FALSE, !.dead = FALSE]
  /\ EmptyLink

\* The early return of disconnect(): an own socket stays open that is not connected.
Disconnects == conn.connected \/ conn.link = "transport"

\* The peer goes away, which a send or recv() notices.
LinkFails ==
  IF Disconnects
    THEN Disconnect
    ELSE conn' = [conn EXCEPT !.dead = TRUE] /\ EmptyLink

\* Without a link send() returns silently, without a peer it fails to no effect; a
\* send that fails disconnects.
Send(item) ==
  \/ /\ conn.open /\ ~conn.dead
     /\ out' = Append(out, item)
     /\ UNCHANGED <<conn, in, server, past>>
  \/ /\ ~conn.open \/ conn.dead
     /\ past' = IF item.kind \in {"line", "headers"}
                  THEN [past EXCEPT !.dropped = @ \cup {item.msg}] ELSE past
     /\ UNCHANGED <<conn, out, in, server>>
  \/ /\ conn.open /\ ~conn.dead
     /\ mood = "wild"
     /\ LinkFails
     /\ UNCHANGED past

SendNothing == UNCHANGED <<conn, out, in, server, past>>

\* send_binary() knows the own socket only: over a transport it returns.
SendPayload(m) ==
  IF Kind[m] = "binary" /\ conn.link = "transport"
    THEN SendNothing
    ELSE Send(Payload(m))

-----------------------------------------------------------------------------
(* publish(), publish_with_headers(), publish_binary(), buffer_message()   *)

At(t, pc) == t \in tasks /\ task[t].pc = pc
Becomes(t, frame) == task' = [task EXCEPT ![t] = frame]
Goto(t, pc) == Becomes(t, [task[t] EXCEPT !.pc = pc])

\* connect() waits for INFO in the task of process(); one that has given up over
\* the own socket leaves it open.
InConnect == conn.dialing
HalfOpen == conn.open /\ ~conn.connected /\ ~conn.dialing

\* The application has the processor: between two calls of process(), in
\* on_connect, in a callback that flush() or process() runs, in a task of its
\* own.
Free(t) ==
  /\ At(t, "idle")
  /\ task[t].stage # "replay"
  /\ t = Main => ~InConnect

\* publish() has returned, to send_pending_messages() if that called it, which
\* gives up without a connection.
Finished(frame, connected) ==
  [frame EXCEPT !.pc = "idle", !.msg = NoMessage,
                !.stage = IF @ = "replay" /\ ~connected THEN "run" ELSE @]
Published(t, connected) == Becomes(t, Finished(task[t], connected))

Holding(frame, m) == [frame EXCEPT !.pc = "check", !.msg = m]

Publish(t) ==
  /\ Free(t)
  /\ next + 1 \in Message
  /\ next' = next + 1
  /\ Becomes(t, Holding(task[t], next + 1))
  /\ past' = IF task[t].stage = "on_connect"
               THEN [past EXCEPT !.eager = @ \cup {next + 1}] ELSE past
  /\ UNCHANGED <<tasks, conn, out, in, pending, pings, server, mood>>

PublishCheckUnlimited(t) ==              \* mutant: the buffer has no limit
  /\ At(t, "check")
  /\ IF conn.connected
       THEN Goto(t, "line")
       ELSE IF Kind[task[t].msg] = "binary"
         THEN Published(t, FALSE) ELSE Goto(t, "push")
  /\ UNCHANGED <<tasks, conn, out, in, pending, pings, next, server, mood, past>>

\* Not connected: the message is buffered, unless it is binary or the buffer
\* is full.  A damaged queue may have any size().
PublishCheck(t) ==
  /\ At(t, "check")
  /\ \/ conn.connected /\ Goto(t, "line")
     \/ /\ ~conn.connected
        /\ Kind[task[t].msg] = "binary" \/ Len(pending) >= MaxPending \/ past.raced
        /\ Published(t, FALSE)
     \/ /\ ~conn.connected
        /\ Kind[task[t].msg] # "binary"
        /\ Len(pending) < MaxPending \/ past.raced
        /\ Goto(t, "push")
  /\ UNCHANGED <<tasks, conn, out, in, pending, pings, next, server, mood, past>>

PublishPushFront(t) ==                   \* mutant: a stack, not a queue
  /\ At(t, "push")
  /\ pending' = <<task[t].msg>> \o pending
  /\ Published(t, conn.connected)
  /\ UNCHANGED <<tasks, conn, out, in, pings, next, server, mood, past>>

\* Another task is in the middle of Queue::push() or pop().
QueueInUse(t) == \E u \in tasks \ {t} : task[u].pc = "push" \/ task[u].stage = "replay"

\* Queue::push() runs without a mutex.  When it meets another push() or pop(),
\* a node or all may be lost, and its head, tail and len disagree from then on.
PublishPush(t) ==
  /\ At(t, "push")
  /\ \/ pending' = Append(pending, task[t].msg) /\ UNCHANGED past
     \/ /\ QueueInUse(t) \/ past.raced
        /\ pending' \in {Append(pending, task[t].msg), pending, <<>>}
        /\ past' = [past EXCEPT !.raced = TRUE]
  /\ Published(t, conn.connected)
  /\ UNCHANGED <<tasks, conn, out, in, pings, next, server, mood>>

\* The PUB line; a message with headers is one send of line and content.
PublishLine(t) ==
  /\ At(t, "line")
  /\ IF Kind[task[t].msg] = "headers"
       THEN Send(WithHeaders(task[t].msg)) /\ Published(t, conn'.connected)
       ELSE Send(Line(task[t].msg)) /\ Goto(t, "payload")
  /\ UNCHANGED <<tasks, pending, pings, next, mood>>

PublishPayload(t) ==
  /\ At(t, "payload")
  /\ SendPayload(task[t].msg)
  /\ Published(t, conn'.connected)
  /\ UNCHANGED <<tasks, pending, pings, next, mood>>

-----------------------------------------------------------------------------
(* The handshake in recv(), and send_pending_messages()                    *)

\* recv_mutex: one task at a time is inside recv(), callbacks included.
ReceiverFree(t) == \A u \in tasks \ {t} : task[u].stage = "run"

\* process() and connect() in their task, flush() in any.
Receiving(t) ==
  /\ At(t, "idle")
  /\ \/ task[t].flush = task[t].stage
     \/ t = Main /\ task[t].stage = "run" /\ task[t].flush = "no"
  /\ ReceiverFree(t)

\* INFO, in connect() or to process() after connect() has given up: connected =
\* true, then on_connect runs whatever became of the sends in between.
RecvInfo(t) ==
  /\ Receiving(t)
  /\ task[t].stage = "run"
  /\ InConnect \/ HalfOpen
  /\ ~conn.dead
  /\ mood # "silent"
  /\ Becomes(t, [task[t] EXCEPT !.stage = "on_connect"])
  /\ \/ /\ conn' = [conn EXCEPT !.connected = TRUE, !.dialing = FALSE]
        /\ UNCHANGED <<out, in, server>>
     \/ mood = "wild" /\ Disconnect
  /\ UNCHANGED <<tasks, pending, pings, next, mood, past>>

ReplayBegin(t) ==
  /\ At(t, "idle")
  /\ task[t].stage = "on_connect"
  /\ task[t].flush # "on_connect"
  /\ Becomes(t, [task[t] EXCEPT !.stage = "replay"])
  /\ past' = IF conn.connected THEN past
             ELSE [past EXCEPT !.reordered = TRUE]
  /\ UNCHANGED <<tasks, conn, out, in, pending, pings, next, server, mood>>

ReplayAgain(t) ==                        \* mutant: not removed
  /\ At(t, "idle")
  /\ task[t].stage = "replay"
  /\ IF pending = <<>>
       THEN Becomes(t, [task[t] EXCEPT !.stage = "run"]) /\ UNCHANGED pending
       ELSE /\ Becomes(t, Holding(task[t], Head(pending)))
            /\ UNCHANGED pending
  /\ UNCHANGED <<tasks, conn, out, in, pings, next, server, mood, past>>

ReplayBlind(t) ==                        \* mutant: has_message is not tested
  /\ At(t, "idle")
  /\ task[t].stage = "replay"
  /\ Becomes(t, Holding(task[t],
                         IF pending = <<>> THEN NoMessage ELSE Head(pending)))
  /\ pending' = IF pending = <<>> THEN pending ELSE Tail(pending)
  /\ UNCHANGED <<tasks, conn, out, in, pings, next, server, mood, past>>

ReplayOne(t) ==                          \* mutant: one message only
  /\ At(t, "idle")
  /\ task[t].stage = "replay"
  /\ IF pending = <<>>
       THEN Becomes(t, [task[t] EXCEPT !.stage = "run"]) /\ UNCHANGED pending
       ELSE /\ Becomes(t, [Holding(task[t], Head(pending)) EXCEPT !.stage = "run"])
            /\ pending' = Tail(pending)
  /\ UNCHANGED <<tasks, conn, out, in, pings, next, server, mood, past>>

\* A message leaves the buffer before it is published.
ReplayPop(t) ==
  /\ At(t, "idle")
  /\ task[t].stage = "replay"
  /\ IF pending = <<>>
       THEN Becomes(t, [task[t] EXCEPT !.stage = "run"]) /\ UNCHANGED pending
       ELSE /\ Becomes(t, Holding(task[t], Head(pending)))
            /\ pending' = Tail(pending)
  /\ UNCHANGED <<tasks, conn, out, in, pings, next, server, mood, past>>

-----------------------------------------------------------------------------
(* PING and PONG                                                           *)

\* process() is between two messages.
InProcess ==
  At(Main, "idle") /\ task[Main].stage = "run" /\ task[Main].flush = "no" /\ ~InConnect

\* The PINGs on this link without an answer that was handled.
Unanswered == Count(out, Ping) + Count(in, Pong)

PingCheckPatient ==                      \* mutant: returns without disconnect()
  /\ InProcess
  /\ conn.open
  /\ mood = "calm" => Unanswered = 0
  /\ IF pings > MaxPings THEN UNCHANGED task ELSE Goto(Main, "ping")
  /\ UNCHANGED <<tasks, conn, out, in, pending, pings, next, server, mood, past>>

\* The timer fires, on a link that is open, connected or not; in a calm network
\* the last PING is answered by then.  The count is read in one critical section ...
PingCheck ==
  /\ InProcess
  /\ conn.open
  /\ mood = "calm" => Unanswered = 0
  /\ IF pings > MaxPings
       THEN /\ IF Disconnects THEN Disconnect ELSE UNCHANGED <<conn, out, in, server>>
            /\ UNCHANGED task
       ELSE Goto(Main, "ping") /\ UNCHANGED <<conn, out, in, server>>
  /\ UNCHANGED <<tasks, pending, pings, next, mood, past>>

\* ... and incremented in another.
PingCount ==
  /\ At(Main, "ping")
  /\ pings' = pings + 1
  /\ Goto(Main, "pingsend")
  /\ UNCHANGED <<tasks, conn, out, in, pending, next, server, mood, past>>

PingSend(t) ==
  /\ At(t, "pingsend")
  /\ Send(Ping)
  /\ Goto(t, "idle")
  /\ UNCHANGED <<tasks, pending, pings, next, mood>>

\* INFO is the first line of a connection.
RecvPong(t) ==
  /\ Receiving(t)
  /\ conn.connected
  /\ in # <<>> /\ Head(in) = Pong
  /\ in' = Tail(in)
  /\ pings' = pings - 1
  /\ UNCHANGED <<tasks, conn, out, pending, task, next, server, mood, past>>

RecvPing(t) ==
  /\ Receiving(t)
  /\ conn.connected
  /\ in # <<>> /\ Head(in) = Ping
  /\ \/ /\ conn.open
        /\ out' = Append(out, Pong) /\ in' = Tail(in)
        /\ UNCHANGED <<conn, server>>
     \/ mood = "wild" /\ LinkFails
  /\ UNCHANGED <<tasks, pending, pings, task, next, mood, past>>

-----------------------------------------------------------------------------
(* flush()                                                                 *)

UnderWay == {item.msg : item \in Range(out)} \ {NoMessage}

Flushing(frame, pc, stage, initial, due) ==
  [frame EXCEPT !.pc = pc, !.flush = stage, !.initial = initial, !.due = due]

FlushBegin(t) ==
  /\ Free(t)
  /\ task[t].flush = "no"
  /\ conn.connected
  /\ pings < PingCap
  /\ pings' = pings + 1
  /\ Becomes(t, Flushing(task[t], "pingsend", task[t].stage, pings, UnderWay))
  /\ UNCHANGED <<tasks, conn, out, in, pending, next, server, mood, past>>

FlushReturns(t) ==
  /\ At(t, "idle")
  /\ task[t].flush = task[t].stage
  /\ Becomes(t, Flushing(task[t], "idle", "no", 0, {}))
  /\ UNCHANGED <<tasks, conn, out, in, pending, pings, next, server, mood, past>>

FlushTrueSoon(t) == pings <= task[t].initial + 1 /\ FlushReturns(t) \* mutant: off by one

FlushTrue(t) == pings <= task[t].initial /\ FlushReturns(t)

\* The connection is gone, or the time is up.
FlushFalse(t) == pings > task[t].initial /\ FlushReturns(t)

-----------------------------------------------------------------------------
(* The connection                                                          *)

\* connect() begins in process(); the count starts again.
DialUncounted ==                         \* mutant: the count goes on
  /\ InProcess
  /\ ~conn.open /\ ~conn.connected
  /\ conn' = [conn EXCEPT !.open = TRUE, !.dialing = TRUE]
  /\ UNCHANGED <<tasks, out, in, pending, pings, task, next, server, mood, past>>

Dial ==
  /\ InProcess
  /\ ~conn.open /\ ~conn.connected
  /\ conn' = [conn EXCEPT !.open = TRUE, !.dialing = TRUE]
  /\ pings' = 0
  /\ UNCHANGED <<tasks, out, in, pending, task, next, server, mood, past>>

\* process() finds the transport closed.
ProcessDropped ==
  /\ InProcess
  /\ ~conn.open /\ conn.connected
  /\ Disconnect
  /\ UNCHANGED <<tasks, pending, pings, task, next, mood, past>>

\* End of file or -ERR, which recv() answers with disconnect().
ConnectionEnds(t) ==
  /\ mood = "wild"
  /\ Receiving(t)
  /\ conn.open /\ ~conn.dead
  /\ LinkFails
  /\ UNCHANGED <<tasks, pending, pings, task, next, mood, past>>

\* connect() waits no longer. It closes a transport; over the own socket it goes on
\* with the next server, over a new socket or none, or it returns and the socket
\* stays as it is. In a calm network a server that is there answers in time.
HandshakeFails ==
  /\ InConnect /\ Receiving(Main)
  /\ mood = "calm" => conn.dead
  /\ \/ Disconnect /\ UNCHANGED pings
     \/ /\ conn.link = "socket"
        /\ conn' = [conn EXCEPT !.dialing = FALSE]
        /\ UNCHANGED <<out, in, server, pings>>
     \/ /\ conn.link = "socket"
        /\ conn' = [conn EXCEPT !.dead = FALSE]
        /\ EmptyLink
        /\ pings' = 0
  /\ UNCHANGED <<tasks, pending, task, next, mood, past>>

\* A transport drops on its own.
TransportDrops ==
  /\ mood = "wild"
  /\ conn.link = "transport" /\ conn.open
  /\ conn' = [conn EXCEPT !.open = FALSE, !.dialing = FALSE]
  /\ EmptyLink
  /\ UNCHANGED <<tasks, pending, pings, task, next, mood, past>>

-----------------------------------------------------------------------------
(* The server                                                              *)

\* A reader of the protocol: a PUB line announces a payload, nothing else may
\* come before it.
Parsed(s, item) ==
  CASE item.kind = "payload" /\ item.msg = s.expects ->
         [s EXCEPT !.expects = NoMessage, !.got = Append(@, item.msg)]
    [] item.kind # "payload" /\ s.expects = NoMessage ->
         IF item.kind = "line" THEN [s EXCEPT !.expects = item.msg]
         ELSE IF item.kind = "headers" THEN [s EXCEPT !.got = Append(@, item.msg)]
         ELSE s
    [] OTHER -> [s EXCEPT !.garbled = TRUE, !.expects = NoMessage]

ServerReads ==
  /\ mood # "silent"
  /\ conn.open /\ out # <<>>
  /\ server' = Parsed(server, Head(out))
  /\ out' = Tail(out)
  /\ in' = IF Head(out) = Ping THEN Append(in, Pong) ELSE in
  /\ UNCHANGED <<tasks, conn, pending, pings, task, next, mood, past>>

ServerPings ==
  /\ mood = "wild"
  /\ conn.open /\ conn.connected
  /\ Ping \notin Range(in) /\ Pong \notin Range(out)
  /\ in' = Append(in, Ping)
  /\ UNCHANGED <<tasks, conn, out, pending, pings, task, next, server, mood, past>>

MoodChanges ==
  /\ mood = "wild"
  /\ mood' \in Moods
  /\ UNCHANGED <<tasks, conn, out, in, pending, pings, task, next, server, past>>

-----------------------------------------------------------------------------

Init ==
  /\ tasks \in TaskSets
  /\ conn \in [link : Links, open : {FALSE}, connected : {FALSE},
               dialing : {FALSE}, dead : {FALSE}]
  /\ out = <<>> /\ in = <<>>
  /\ pending = <<>>
  /\ pings = 0
  /\ task = [t \in Task |-> Idle]
  /\ next = 0
  /\ server = [expects |-> NoMessage, got |-> <<>>, garbled |-> FALSE]
  /\ mood = "wild"
  /\ past = [eager |-> {}, reordered |-> FALSE, dropped |-> {}, raced |-> FALSE]

Application(t) == Publish(t) \/ FlushBegin(t)

\* What a task does once it is in a call of the client.
Progress(t) ==
  \/ PublishCheck(t)
  \/ PublishPush(t)
  \/ PublishLine(t)
  \/ PublishPayload(t)
  \/ ReplayBegin(t)
  \/ ReplayPop(t)
  \/ PingSend(t)
  \/ FlushTrue(t)
  \/ FlushFalse(t)

Recv(t) == RecvInfo(t) \/ RecvPong(t) \/ RecvPing(t)

Process == PingCount \/ Dial \/ ProcessDropped

Environment == TransportDrops \/ ServerPings \/ MoodChanges

Next ==
  \/ \E t \in tasks : Application(t) \/ Progress(t) \/ Recv(t) \/ ConnectionEnds(t)
  \/ PingCheck
  \/ Process \/ HandshakeFails
  \/ ServerReads
  \/ Environment

Spec == Init /\ [][Next]_vars

\* Calls go on and return; process() is called again and again, looks for data
\* before it pings, and callbacks end.
Fairness ==
  /\ \A t \in Task : /\ WF_vars(Progress(t))
                    /\ SF_vars(ReplayBegin(t))
                    /\ SF_vars(Recv(t))
  /\ WF_vars(Process)
  /\ WF_vars(PingCheck)
  /\ WF_vars(ServerReads)

FairSpec == Spec /\ Fairness

-----------------------------------------------------------------------------
(* Properties                                                              *)

TypeOK ==
  /\ tasks \in TaskSets
  /\ conn \in [link : Links, open : BOOLEAN, connected : BOOLEAN,
               dialing : BOOLEAN, dead : BOOLEAN]
  /\ out \in Seq(Item) /\ in \in Seq({Ping, Pong})
  /\ pending \in Seq(Message)
  /\ pings \in Int
  /\ task \in [Task -> TaskRecord]
  /\ \A t \in Task : task[t].msg # NoMessage <=> task[t].pc \in Publishing
  /\ next \in Nat
  /\ server \in [expects : Message \cup {NoMessage}, got : Seq(Message),
                 garbled : BOOLEAN]
  /\ mood \in {"wild", "calm", "silent"}
  /\ past \in [eager : SUBSET Message, reordered : BOOLEAN,
               dropped : SUBSET Message, raced : BOOLEAN]

\* One task does everything, callbacks and the application's loop included.
Alone == tasks = {Main}

\* No message is received twice, however often it is buffered, replayed, put
\* back and interrupted, by however many tasks.
ReceivedOnce ==
  \A i, j \in DOMAIN server.got : server.got[i] = server.got[j] => i = j

\* The buffer outgrows its limit by the tasks that looked at its size at the
\* same moment, and by no more, unless they damage the queue.
BufferBound == ~past.raced => Len(pending) <= MaxPending + Cardinality(tasks) - 1

\* The server reads every PUB line with its payload and nothing in between:
\* failing sends, reconnects, PINGs, PONGs and replay never break the framing.
Framed == ~server.garbled

\* In one task messages arrive in the order of publish(), but for those that
\* on_connect publishes before the buffered ones are sent, and provided that
\* no replay began on a connection lost by then (it puts its first message
\* back at the end).
OrderKept ==
  Alone /\ ~past.reordered =>
    \A i, j \in DOMAIN server.got :
      i < j => server.got[i] < server.got[j] \/ server.got[i] \in past.eager

\* In one task outstanding_pings is what it says: the PINGs of keepalive and
\* flush() on this connection that have no answer yet.  So ping() gives up a
\* connection only if that many are really unanswered.
PingsExact ==
  Alone /\ conn.open /\ conn.connected =>
    pings = Unanswered + (IF task[Main].pc = "pingsend" THEN 1 ELSE 0)

\* In one task over the own socket a message published without a connection is
\* never sent into the void.
OfflineNotSent == Alone /\ conn.link = "socket" => past.dropped = {}

\* The same over every link.
OfflineIsBuffered == Alone => past.dropped = {}

DueReceived(t) == task[t].due \subseteq Range(server.got)

\* When flush() returns true, the server has received what was under way when
\* it was called.
FlushMeansReceived == [][\A t \in tasks : FlushTrue(t) => DueReceived(t)]_vars

\* In one task it does, if no other PING was unanswered when it was called.
FlushHonest ==
  [][\A t \in tasks :
       Alone /\ FlushTrue(t) /\ task[t].initial = 0 => DueReceived(t)]_vars

\* In one task, once nothing fails any more, a buffered message reaches the
\* server, even if connect() has given up and INFO comes late. But for one thing:
\* an own socket whose peer has gone before the handshake was done stays open,
\* process() never dials again (ReconnectsInTheEnd of Connection is refuted), and
\* the message stays in the buffer.
InBuffer(m) ==
  /\ Alone /\ mood = "calm"
  /\ conn.connected => conn.open
  /\ ~conn.dead
  /\ m \in Range(pending)
Arrived(m) == m \in Range(server.got)
BufferedIsReceived == \A m \in Message : InBuffer(m) ~> Arrived(m)

\* In one task a connection whose server has gone silent is given up.
SilentServerNoticed == Alone /\ mood = "silent" ~> ~conn.connected
=============================================================================
