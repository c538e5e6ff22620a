------------------------------ MODULE Requests ------------------------------
(***************************************************************************)
(* Requests: request(), request_with_timeout() and what is built on them,  *)
(* the API of JetStream, the key-value store and the object store.         *)
(*                                                                         *)
(* A call subscribes to an inbox, publishes with the inbox as the reply,   *)
(* and later its callback gets the answer or on_timeout is called.  One    *)
(* task calls the API and process() over the own socket, the server        *)
(* answers, and the link may be lost and made again between any two steps. *)
(* The subscription table and the buffer of unsent messages are those of   *)
(* Subscriptions and Outbound, seen by one task without nested callbacks.  *)
(***************************************************************************)
EXTENDS Integers, Sequences, FiniteSets

CONSTANTS
  MaxCalls,        \* bound: how many calls the application makes
  MaxSubs,         \* NATS_MAX_SUBSCRIPTIONS
  Batch,           \* bound: the batch of pull and fetch
  Chunks,          \* bound: the chunks of an object
  MaxDrops,        \* bound: how often the link is lost
  PingCap          \* bound: how many PINGs of the keepalive are unanswered

ASSUME RequestsAssumption ==
  /\ {MaxCalls, MaxSubs, MaxDrops, PingCap} \subseteq Nat
  /\ {Batch, Chunks} \subseteq Nat \ {0}

VARIABLES
  calls,           \* the calls made so far, in order
  task,            \* the task in the API
  slots,           \* subs: the subscriptions by id
  free,            \* free_sids
  pending,         \* pending_messages: the calls whose message is buffered
  conn,            \* the link and what the client takes it for
  pings,           \* outstanding_pings
  out,             \* what travels to the server
  in,              \* what travels to the client
  srv              \* the server: its subscriptions and what it has done

vars == <<calls, task, slots, free, pending, conn, pings, out, in, srv>>

-----------------------------------------------------------------------------
(* What the functions of the API do                                        *)

\* sub: it subscribes to an inbox for this once ("inbox"), to an inbox or a subject
\* that a reconnect restores ("kept", "topic"), or to nothing; wanted: max_wanted;
\* timed: with a time-out; chunks: how many chunks it publishes first.
Op(sub, wanted, timed, chunks) ==
  [sub |-> sub, wanted |-> wanted, timed |-> timed, chunks |-> chunks]

Request == Op("kept", 1, FALSE, 0)
RequestWithTimeout(wanted) == Op("inbox", wanted, TRUE, 0)
PublishAcked == Op("inbox", 1, TRUE, 0)
Watch == Op("topic", 0, FALSE, 0)
Notify == Op("none", 0, FALSE, 0)

JetstreamPublish == PublishAcked
JetstreamStreamCreate == RequestWithTimeout(1)
JetstreamStreamDelete == RequestWithTimeout(1)
JetstreamStreamInfo == RequestWithTimeout(1)
JetstreamConsumerCreate == RequestWithTimeout(1)
JetstreamConsumerDelete == RequestWithTimeout(1)
JetstreamConsumerCreateOrdered == RequestWithTimeout(1)
JetstreamConsumerPause == RequestWithTimeout(1)
JetstreamConsumerResume == JetstreamConsumerPause
JetstreamPull == RequestWithTimeout(Batch)
JetstreamFetch == RequestWithTimeout(Batch)
JetstreamAck == Notify
JetstreamNak == Notify
JetstreamAckDelay == Notify
JetstreamAccountInfo == RequestWithTimeout(1)
JetstreamDirectGet == RequestWithTimeout(1)
JetstreamDirectGetLast == RequestWithTimeout(1)

KvCreateBucket == RequestWithTimeout(1)
KvGet == RequestWithTimeout(1)
KvPut == JetstreamPublish
KvDelete == PublishAcked
KvPurge == PublishAcked
KvKeys == JetstreamStreamInfo
KvWatch == Watch
KvHistory == JetstreamConsumerCreate

ObjCreateBucket == RequestWithTimeout(1)
ObjPut == Op("inbox", 1, TRUE, Chunks)
ObjGetInfo == RequestWithTimeout(1)
ObjWatchChunks == Watch
ObjGet == ObjWatchChunks
ObjList == JetstreamStreamInfo
ObjDelete == PublishAcked
ObjWatch == Watch

Api ==
  {Request, RequestWithTimeout(1),
   JetstreamPublish, JetstreamStreamCreate, JetstreamStreamDelete, JetstreamStreamInfo,
   JetstreamConsumerCreate, JetstreamConsumerDelete, JetstreamConsumerCreateOrdered,
   JetstreamConsumerPause, JetstreamConsumerResume, JetstreamPull, JetstreamFetch,
   JetstreamAck, JetstreamNak, JetstreamAckDelay, JetstreamAccountInfo,
   JetstreamDirectGet, JetstreamDirectGetLast,
   KvCreateBucket, KvGet, KvPut, KvDelete, KvPurge, KvKeys, KvWatch, KvHistory,
   ObjCreateBucket, ObjPut, ObjGetInfo, ObjWatchChunks, ObjGet, ObjList, ObjDelete, ObjWatch}

-----------------------------------------------------------------------------
(* State                                                                   *)

Call == 1 .. MaxCalls
Sid == 1 .. MaxSubs
None == 0

\* sid: what the call has returned, None for -1; got: whose answers its callback has
\* been given; over: how it was given up, by a time-out reported over a connection or
\* without one, or by the application; clean: an object whose chunks the server
\* takes, with no PING unanswered when flush() was called.
CallRecord ==
  [op : Api, sid : {None} \cup Sid, got : Seq(Call),
   over : {"no", "timeout", "offline", "unsubscribed"}, clean : BOOLEAN]

SubRecord ==
  [call : Call, wanted : Nat, received : Nat,
   timer : {"off", "running", "due"}, marked : BOOLEAN]

\* NULL in subs.
NoSub == [call |-> None, wanted |-> 0, received |-> 0, timer |-> "off", marked |-> FALSE]

ToServer == [kind : {"SUB", "UNSUB", "PUB", "CHUNK", "PING"}, sid : {None} \cup Sid, call : {None} \cup Call]
ToClient == [kind : {"MSG", "PONG"}, sid : {None} \cup Sid, call : {None} \cup Call]
Line(kind, sid, call) == [kind |-> kind, sid |-> sid, call |-> call]

\* pc: "dialing" in connect(), "process" in process() with a socket; i: the loop over
\* the chunks, or over subs; initial: initial_pongs; back: what goes on after recv().
Idle == [pc |-> "idle", i |-> 0, initial |-> 0, back |-> "idle"]

Pcs == {"idle", "dialing", "process", "restore", "replay", "chunk", "flush", "flushing", "subscribe", "publish"}

TaskRecord == [pc : Pcs, i : Nat, initial : Nat, back : {"idle", "process"}]

\* sock: sockfd >= 0; up: the server is still at the other end; large: it takes chunks.
ConnRecord ==
  [sock : BOOLEAN, up : BOOLEAN, connected : BOOLEAN, large : BOOLEAN, drops : 0 .. MaxDrops]
ServerRecord ==
  [serves : [Sid -> {None} \cup Call], stored : [Call -> Nat], done : [Call -> Nat]]

TypeOK ==
  /\ calls \in Seq(CallRecord) /\ Len(calls) <= MaxCalls
  /\ task \in TaskRecord
  /\ slots \in Seq(SubRecord \cup {NoSub}) /\ Len(slots) <= MaxSubs
  /\ free \in Seq(Sid)
  /\ pending \in Seq(Call)
  /\ conn \in ConnRecord /\ pings \in Nat
  /\ out \in Seq(ToServer) /\ in \in Seq(ToClient)
  /\ srv \in ServerRecord

Init ==
  /\ calls = <<>> /\ task = Idle
  /\ slots = <<>> /\ free = <<>> /\ pending = <<>>
  /\ conn \in [sock : {TRUE}, up : {TRUE}, connected : {TRUE}, large : BOOLEAN, drops : {0}]
  /\ pings = 0 /\ out = <<>> /\ in = <<>>
  /\ srv = [serves |-> [s \in Sid |-> None], stored |-> [c \in Call |-> 0], done |-> [c \in Call |-> 0]]

-----------------------------------------------------------------------------
(* the link                                                                *)

Disconnect ==
  /\ conn' = [conn EXCEPT !.sock = FALSE, !.connected = FALSE, !.up = FALSE, !.large = FALSE]
  /\ out' = <<>> /\ in' = <<>>

\* send(): on a link that is down the line may be lost unnoticed; a failure of a client
\* that is not connected changes nothing.
Send(line) ==
  \/ conn.sock /\ conn.up /\ out' = Append(out, line) /\ UNCHANGED <<conn, in>>
  \/ ~conn.up /\ UNCHANGED <<conn, out, in>>
  \/ conn.connected /\ ~conn.up /\ Disconnect

\* The link breaks, what has arrived may still be read.
LinkBreaks ==
  /\ conn.up /\ conn.drops < MaxDrops
  /\ conn' = [conn EXCEPT !.up = FALSE, !.drops = @ + 1]
  /\ out' = <<>>
  /\ \E k \in 0 .. Len(in) : in' = SubSeq(in, 1, k)
  /\ UNCHANGED <<calls, task, slots, free, pending, pings, srv>>

\* The server answers whom it serves, with as many messages as it has.
Answers(call) ==
  {<<>>} \cup {[i \in 1 .. k |-> Line("MSG", sid, call)] :
                 k \in 1 .. calls[call].op.wanted, sid \in {s \in Sid : srv.serves[s] = call}}

ServerReads ==
  /\ conn.up /\ out # <<>>
  /\ out' = Tail(out)
  /\ LET line == Head(out) IN
       \/ /\ line.kind = "SUB"
          /\ srv' = [srv EXCEPT !.serves[line.sid] = line.call]
          /\ UNCHANGED in
       \/ /\ line.kind = "UNSUB"
          /\ srv' = [srv EXCEPT !.serves[line.sid] = None]
          /\ UNCHANGED in
       \/ /\ line.kind = "CHUNK"
          /\ srv' = [srv EXCEPT !.stored[line.call] = @ + 1]
          /\ UNCHANGED in
       \/ /\ line.kind = "PUB"
          /\ srv' = [srv EXCEPT !.done[line.call] = @ + 1]
          /\ \E messages \in Answers(line.call) : in' = in \o messages
       \/ /\ line.kind = "PING"
          /\ in' = Append(in, Line("PONG", None, None))
          /\ UNCHANGED srv
  /\ UNCHANGED <<calls, task, slots, free, pending, conn, pings>>

-----------------------------------------------------------------------------
(* the calls                                                               *)

This == Len(calls)
ThisOp == calls[This].op

At(pc) == task.pc = pc
Goto(pc) == task' = [task EXCEPT !.pc = pc]
Begin(pc) == task' = [Idle EXCEPT !.pc = pc]

FirstStep(op) ==
  IF op.chunks > 0 THEN "chunk" ELSE IF op.sub = "none" THEN "publish" ELSE "subscribe"

\* A call that returns at once, not connected or without room for its payload, has
\* changed nothing (an object is refused later, in FlushTrue).
StartCall ==
  /\ At("idle") /\ This < MaxCalls /\ conn.connected
  /\ \E op \in Api :
       /\ calls' = Append(calls, [op |-> op, sid |-> None, got |-> <<>>, over |-> "no", clean |-> FALSE])
       /\ Begin(FirstStep(op))
  /\ UNCHANGED <<slots, free, pending, conn, pings, out, in, srv>>

\* sub_internal(): the number of subscriptions, and an id for a new one.
ActiveSubs == Len(slots) - Len(free)

AllocSidGrowing(sub) ==                  \* mutant: no id is used again
  slots' = Append(slots, sub) /\ UNCHANGED free

AllocSid(sub) ==
  IF free = <<>>
    THEN slots' = Append(slots, sub) /\ UNCHANGED free
    ELSE slots' = [slots EXCEPT ![Head(free)] = sub] /\ free' = Tail(free)

NextSid == IF free = <<>> THEN Len(slots) + 1 ELSE Head(free)

NewSubUntimed ==                         \* mutant: only single answers are timed
  [call |-> This, wanted |-> ThisOp.wanted, received |-> 0,
   timer |-> IF ThisOp.timed /\ ThisOp.wanted = 1 THEN "running" ELSE "off", marked |-> FALSE]

NewSub ==
  [call |-> This, wanted |-> ThisOp.wanted, received |-> 0,
   timer |-> IF ThisOp.timed THEN "running" ELSE "off", marked |-> FALSE]

SubscribeFails ==
  /\ At("subscribe") /\ ActiveSubs >= MaxSubs
  /\ Begin(IF ThisOp.sub = "kept" THEN "publish" ELSE "idle")
  /\ UNCHANGED <<calls, slots, free, pending, conn, pings, out, in, srv>>

Subscribe ==
  /\ At("subscribe") /\ ActiveSubs < MaxSubs
  /\ AllocSid(NewSub)
  /\ calls' = [calls EXCEPT ![This].sid = NextSid]
  /\ Send(Line("SUB", NextSid, This))
  /\ Begin(IF ThisOp.sub = "topic" THEN "idle" ELSE "publish")
  /\ UNCHANGED <<pending, pings, srv>>

\* publish() and publish_with_headers() with the inbox as the reply: buffered when
\* the subscription has just cost the connection.
Publish ==
  /\ At("publish")
  /\ IF conn.connected
       THEN Send(Line("PUB", None, This)) /\ UNCHANGED pending
       ELSE pending' = Append(pending, This) /\ UNCHANGED <<conn, out, in>>
  /\ Begin("idle")
  /\ UNCHANGED <<calls, slots, free, pings, srv>>

\* obj_put(): a chunk is published with publish_binary(), which drops what is longer
\* than the server accepts and what finds no connection.
Chunk ==
  /\ At("chunk")
  /\ IF conn.connected /\ conn.large
       THEN Send(Line("CHUNK", None, This))
       ELSE UNCHANGED <<conn, out, in>>
  /\ task' = [task EXCEPT !.i = @ + 1, !.pc = IF task.i + 1 = Chunks THEN "flush" ELSE "chunk"]
  /\ UNCHANGED <<calls, slots, free, pending, pings, srv>>

\* flush()
FlushBegin ==
  /\ At("flush") /\ conn.connected
  /\ task' = [task EXCEPT !.pc = "flushing", !.initial = pings]
  /\ pings' = pings + 1
  /\ calls' = [calls EXCEPT ![This].clean = (pings = 0 /\ conn.large)]
  /\ Send(Line("PING", None, None))
  /\ UNCHANGED <<slots, free, pending, srv>>

FlushIgnored ==                          \* mutant: metadata whatever flush() returns
  /\ At("flush") \/ At("flushing")
  /\ conn.connected /\ Begin("subscribe")
  /\ UNCHANGED <<calls, slots, free, pending, conn, pings, out, in, srv>>

FlushTrue ==
  /\ At("flushing") /\ pings <= task.initial
  /\ \/ Begin("idle")
     \/ conn.connected /\ Begin("subscribe")
  /\ UNCHANGED <<calls, slots, free, pending, conn, pings, out, in, srv>>

FlushFalse ==
  /\ At("flushing") \/ (At("flush") /\ ~conn.connected)
  /\ Begin("idle")
  /\ UNCHANGED <<calls, slots, free, pending, conn, pings, out, in, srv>>

\* unsubscribe()
Unsubscribe(sid) ==
  /\ IF conn.connected THEN Send(Line("UNSUB", sid, None)) ELSE UNCHANGED <<conn, out, in>>
  /\ slots' = [slots EXCEPT ![sid] = NoSub]
  /\ free' = Append(free, sid)

Taken(sid) == sid \in 1 .. Len(slots) /\ slots[sid] # NoSub

AppUnsubscribes(sid) ==
  /\ At("idle") /\ Taken(sid)
  /\ calls' = [calls EXCEPT ![slots[sid].call].over = "unsubscribed"]
  /\ Unsubscribe(sid)
  /\ UNCHANGED <<task, pending, pings, srv>>

-----------------------------------------------------------------------------
(* process()                                                               *)

\* process() finds a socket: it receives, and looks at the subscriptions after that
\* even if the socket is gone by then, and at the time for a PING.
ProcessBegin ==
  /\ At("idle") /\ conn.sock
  /\ Goto("process")
  /\ UNCHANGED <<calls, slots, free, pending, conn, pings, out, in, srv>>

\* The first line of a server is its INFO.
Receiving == (At("process") \/ At("flushing")) /\ conn.connected

RecvMsgFreeing ==                        \* mutant: the first answer frees the id
  /\ Receiving /\ in # <<>> /\ Head(in).kind = "MSG"
  /\ in' = Tail(in)
  /\ LET sid == Head(in).sid IN
       IF Taken(sid)
         THEN /\ slots' = [slots EXCEPT ![sid] = NoSub]
              /\ free' = Append(free, sid)
              /\ calls' = [calls EXCEPT ![slots[sid].call].got = Append(@, Head(in).call)]
         ELSE UNCHANGED <<slots, free, calls>>
  /\ UNCHANGED <<task, pending, conn, pings, out, srv>>

\* recv(): the callback of whatever has the id now.
RecvMsg ==
  /\ Receiving /\ in # <<>> /\ Head(in).kind = "MSG"
  /\ in' = Tail(in)
  /\ LET sid == Head(in).sid
         sub == slots[sid]
         max == sub.wanted > 0 /\ sub.received + 1 >= sub.wanted IN
       IF Taken(sid) /\ ~sub.marked
         THEN /\ slots' = [slots EXCEPT ![sid] = [sub EXCEPT !.received = @ + 1, !.timer = "off", !.marked = max]]
              /\ calls' = [calls EXCEPT ![sub.call].got = Append(@, Head(in).call)]
         ELSE UNCHANGED <<slots, calls>>
  /\ UNCHANGED <<task, free, pending, conn, pings, out, srv>>

RecvPong ==
  /\ Receiving /\ in # <<>> /\ Head(in).kind = "PONG"
  /\ in' = Tail(in)
  /\ pings' = pings - 1
  /\ UNCHANGED <<calls, task, slots, free, pending, conn, out, srv>>

RecvEnd ==
  /\ Receiving /\ ~conn.up /\ in = <<>>
  /\ Disconnect
  /\ UNCHANGED <<calls, task, slots, free, pending, pings, srv>>

Tick(sid) ==
  /\ Taken(sid) /\ slots[sid].timer = "running"
  /\ slots' = [slots EXCEPT ![sid].timer = "due"]
  /\ UNCHANGED <<calls, task, free, pending, conn, pings, out, in, srv>>

TimedOut(sid) == Taken(sid) /\ slots[sid].timer = "due" /\ ~slots[sid].marked

\* on_timeout, then unsubscribe().
Timeout(sid) ==
  /\ At("process") /\ TimedOut(sid)
  /\ calls' = [calls EXCEPT ![slots[sid].call].over = IF conn.connected THEN "timeout" ELSE "offline"]
  /\ Unsubscribe(sid)
  /\ UNCHANGED <<task, pending, pings, srv>>

KeepAlive ==
  /\ At("process") /\ pings < PingCap
  /\ pings' = pings + 1
  /\ Send(Line("PING", None, None))
  /\ UNCHANGED <<calls, task, slots, free, pending, srv>>

ProcessEnd ==
  /\ At("process") /\ \A sid \in Sid : ~TimedOut(sid)
  /\ Begin("idle")
  /\ UNCHANGED <<calls, slots, free, pending, conn, pings, out, in, srv>>

\* connect(), from process() when there is no socket: the server has accepted.
Dial ==
  /\ At("idle") /\ ~conn.sock
  /\ conn' = [conn EXCEPT !.sock = TRUE, !.up = TRUE]
  /\ pings' = 0 /\ out' = <<>> /\ in' = <<>>
  /\ srv' = [srv EXCEPT !.serves = [s \in Sid |-> None]]
  /\ Goto("dialing")
  /\ UNCHANGED <<calls, slots, free, pending>>

\* INFO, which connect() waits for or process() finds late: CONNECT,
\* restore_subscriptions(), then send_pending_messages().
RecvInfo ==
  /\ At("dialing") \/ At("process")
  /\ conn.sock /\ ~conn.connected
  /\ \E large \in BOOLEAN : conn' = [conn EXCEPT !.connected = TRUE, !.large = large]
  /\ task' = [Idle EXCEPT !.pc = "restore", !.back = IF At("process") THEN "process" ELSE "idle"]
  /\ UNCHANGED <<calls, slots, free, pending, pings, out, in, srv>>

\* connect() waits no longer: disconnect() leaves the socket as it is, and another
\* server may have it or refuse it.
HandshakeFails ==
  /\ At("dialing")
  /\ Begin("idle")
  /\ \/ UNCHANGED <<conn, out, in>>
     \/ Disconnect
  /\ UNCHANGED <<calls, slots, free, pending, pings, srv>>

\* What has kept its subject.
Restorable(sid) ==
  Taken(sid) /\ ~slots[sid].marked /\ calls[slots[sid].call].op.sub \in {"kept", "topic"}

Restore ==
  /\ At("restore") /\ task.i < Len(slots)
  /\ LET sid == task.i + 1 IN
       IF Restorable(sid) THEN Send(Line("SUB", sid, slots[sid].call)) ELSE UNCHANGED <<conn, out, in>>
  /\ task' = [task EXCEPT !.i = @ + 1]
  /\ UNCHANGED <<calls, slots, free, pending, pings, srv>>

RestoreEnd ==
  /\ At("restore") /\ task.i = Len(slots)
  /\ Goto("replay")
  /\ UNCHANGED <<calls, slots, free, pending, conn, pings, out, in, srv>>

Replay ==
  /\ At("replay") /\ pending # <<>> /\ conn.connected
  /\ pending' = Tail(pending)
  /\ Send(Line("PUB", None, Head(pending)))
  /\ UNCHANGED <<calls, task, slots, free, pings, srv>>

ReplayEndEarly ==                        \* mutant: one message at a time
  /\ At("replay")
  /\ Begin(task.back)
  /\ UNCHANGED <<calls, slots, free, pending, conn, pings, out, in, srv>>

ReplayEnd ==
  /\ At("replay") /\ (pending = <<>> \/ ~conn.connected)
  /\ Begin(task.back)
  /\ UNCHANGED <<calls, slots, free, pending, conn, pings, out, in, srv>>

-----------------------------------------------------------------------------

InCall ==
  \/ SubscribeFails \/ Subscribe \/ Publish
  \/ Chunk \/ FlushBegin \/ FlushTrue \/ FlushFalse
  \/ Restore \/ RestoreEnd \/ Replay \/ ReplayEnd

Process ==
  \/ ProcessEnd
  \/ \E sid \in Sid : Timeout(sid)

Next ==
  \/ StartCall \/ InCall
  \/ LinkBreaks \/ ServerReads
  \/ ProcessBegin \/ RecvMsg \/ RecvPong \/ RecvEnd \/ KeepAlive \/ Process
  \/ Dial \/ RecvInfo \/ HandshakeFails
  \/ \E sid \in Sid : AppUnsubscribes(sid) \/ Tick(sid)

\* A call goes on, process() returns after a look at every subscription, and time
\* passes.  No reconnect is promised.
Fairness ==
  /\ WF_vars(InCall) /\ WF_vars(Process)
  /\ \A sid \in Sid : WF_vars(Tick(sid))

Spec == Init /\ [][Next]_vars /\ Fairness

-----------------------------------------------------------------------------
(* Properties                                                              *)

\* A callback is given the answer to its own request, or a late one to a request
\* that was given up, whose id it has inherited (recv() goes by the id only).
OwnAnswers ==
  \A c \in 1 .. Len(calls) : \A k \in 1 .. Len(calls[c].got) :
    LET other == calls[c].got[k] IN other # c => calls[other].over # "no"

\* The metadata of an object is published only after all its chunks are stored: what
\* obj_put() publishes unheard is safe through the flush() before the metadata,
\* if the server takes chunks of 128 KB and no PING was under way.
MetadataMeansStored ==
  \A c \in 1 .. Len(calls) :
    calls[c].op.chunks > 0 /\ calls[c].clean /\ srv.done[c] > 0 => srv.stored[c] = Chunks

Sending(c, lines) == \E k \in 1 .. Len(lines) : lines[k].kind = "PUB" /\ lines[k].call = c

\* A request whose time-out the application has been told of by a connected client is
\* not sent any more, not from the buffer of unsent messages either.
GivenUpIsNotSent ==
  [][\A c \in 1 .. Len(calls) :
       calls[c].over = "timeout" /\ Sending(c, out') => Sending(c, out)]_vars

\* Refuted, not promised: the same of a time-out that process() reports over a socket
\* whose handshake has failed.  A late INFO makes it replay the buffered request.
GivenUpIsNeverSent ==
  [][\A c \in 1 .. Len(calls) :
       calls[c].over \in {"timeout", "offline"} /\ Sending(c, out') => Sending(c, out)]_vars

Waiting(c) ==
  c <= Len(calls) /\ calls[c].op.timed /\ calls[c].sid # None
  /\ calls[c].got = <<>> /\ calls[c].over = "no"

\* A request with a time-out ends, with an answer or without, whatever becomes of its
\* message, as long as process() finds a socket again and again. It is not looked at
\* while there is none, for ever if connect() fails or max_reconnect_attempts is spent.
RequestEnds == []<>At("process") => \A c \in Call : Waiting(c) ~> ~Waiting(c)
=============================================================================
