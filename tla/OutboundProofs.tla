---------------------------- MODULE OutboundProofs ----------------------------
(***************************************************************************)
(* Proofs about what class NATS sends, for every set of tasks, every       *)
(* number and kind of messages and every limit.                            *)
(***************************************************************************)
EXTENDS Outbound, FiniteSetTheorems, TLAPS

\* A frame of the right type, which holds a message while it publishes.
Frame(f) == f \in TaskRecord /\ (f.msg # NoMessage <=> f.pc \in Publishing)

-----------------------------------------------------------------------------
(* Types                                                                   *)

LEMMA ConstantFacts ==
  /\ Message \subseteq Nat /\ NoMessage \notin Message
  /\ \A ts \in TaskSets : IsFiniteSet(ts) /\ Main \in ts /\ ts \subseteq Task
  /\ MaxPending \in Nat
BY TasksAssumption, KindAssumption, BoundsAssumption DEF Task, Message, NoMessage

\* The frames that the actions build.
LEMMA PcFacts ==
  ASSUME NEW f, Frame(f), NEW pc \in {"idle", "ping", "pingsend"} \cup Publishing,
         f.pc \in Publishing <=> pc \in Publishing
  PROVE  Frame([f EXCEPT !.pc = pc]) /\ [f EXCEPT !.pc = pc].msg = f.msg
BY DEF Frame, TaskRecord

LEMMA StageFacts ==
  ASSUME NEW f, Frame(f), NEW stage \in {"run", "on_connect", "replay"}
  PROVE  /\ Frame([f EXCEPT !.stage = stage])
         /\ [f EXCEPT !.stage = stage].msg = f.msg
         /\ [f EXCEPT !.stage = stage].pc = f.pc
BY DEF Frame, TaskRecord

LEMMA FinishedFacts ==
  ASSUME NEW f, Frame(f), NEW connected \in BOOLEAN
  PROVE  /\ Frame(Finished(f, connected))
         /\ Finished(f, connected).msg = NoMessage
         /\ Finished(f, connected).pc = "idle"
BY DEF Frame, TaskRecord, Finished, Publishing

LEMMA HoldingFacts ==
  ASSUME NEW f, Frame(f), NEW m \in Message
  PROVE  /\ Frame(Holding(f, m))
         /\ Holding(f, m).msg = m
         /\ Holding(f, m).pc = "check"
BY ConstantFacts DEF Frame, TaskRecord, Holding, Publishing

LEMMA FlushFacts ==
  ASSUME NEW f, Frame(f), NEW pc \in {"idle", "ping", "pingsend"} \cup Publishing,
         f.pc \in Publishing <=> pc \in Publishing,
         NEW flush \in {"no", "run", "on_connect"},
         NEW n \in Int, NEW due \in SUBSET Message
  PROVE  /\ Frame(Flushing(f, pc, flush, n, due))
         /\ Flushing(f, pc, flush, n, due).msg = f.msg
         /\ Flushing(f, pc, flush, n, due).pc = pc
BY DEF Frame, TaskRecord, Flushing

\* Only the frame of the task that steps changes.
LEMMA BecomesFacts ==
  ASSUME TypeOK, NEW t \in Task, NEW f, Frame(f), Becomes(t, f)
  PROVE  /\ task' \in [Task -> TaskRecord]
         /\ \A u \in Task : Frame(task[u]) /\ Frame(task'[u])
         /\ task'[t] = f
         /\ \A u \in Task \ {t} : task'[u] = task[u]
BY DEF TypeOK, Becomes, Frame

LEMMA TypedFrames ==
  ASSUME TypeOK PROVE \A u \in Task : Frame(task[u])
BY DEF TypeOK, Frame

LEMMA AtFacts ==
  ASSUME TypeOK, NEW t, NEW pc, At(t, pc)
  PROVE  t \in tasks /\ t \in Task /\ task[t].pc = pc /\ Frame(task[t])
BY ConstantFacts, TypedFrames DEF At, TypeOK

\* The link and the server, of the right type.
LinkOK ==
  /\ conn \in [link : Links, open : BOOLEAN, connected : BOOLEAN,
               dialing : BOOLEAN, dead : BOOLEAN]
  /\ out \in Seq(Item) /\ in \in Seq({Ping, Pong})
  /\ server \in [expects : Message \cup {NoMessage}, got : Seq(Message),
                 garbled : BOOLEAN]

LEMMA EmptyLinkFacts ==
  ASSUME LinkOK, EmptyLink
  PROVE  /\ out' = <<>> /\ out' \in Seq(Item) /\ in' \in Seq({Ping, Pong})
         /\ server' \in [expects : Message \cup {NoMessage}, got : Seq(Message),
                         garbled : BOOLEAN]
         /\ server'.got = server.got
<1>1. out' = <<>> /\ in' = <<>> /\ server' = [server EXCEPT !.expects = NoMessage]
  BY DEF EmptyLink
<1>2. server' = [expects |-> NoMessage, got |-> server.got,
                 garbled |-> server.garbled]
  BY <1>1 DEF LinkOK
<1> QED
  BY <1>1, <1>2 DEF LinkOK

LEMMA DisconnectFacts ==
  ASSUME LinkOK, Disconnect
  PROVE  LinkOK' /\ out' = <<>> /\ server'.got = server.got
BY EmptyLinkFacts DEF LinkOK, Disconnect

LEMMA LinkFailsFacts ==
  ASSUME LinkOK, LinkFails
  PROVE  LinkOK' /\ out' = <<>> /\ server'.got = server.got
<1>1. CASE Disconnect
  BY <1>1, DisconnectFacts
<1>2. CASE conn' = [conn EXCEPT !.dead = TRUE] /\ EmptyLink
  BY <1>2, EmptyLinkFacts DEF LinkOK
<1> QED
  BY <1>1, <1>2 DEF LinkFails

LEMMA HandshakeFailsFacts ==
  ASSUME LinkOK, HandshakeFails
  PROVE  LinkOK' /\ out' \in {out, <<>>} /\ server'.got = server.got
<1>1. CASE Disconnect
  BY <1>1, DisconnectFacts
<1>2. CASE conn' = [conn EXCEPT !.dialing = FALSE] /\ UNCHANGED <<out, in, server>>
  BY <1>2 DEF LinkOK
<1>3. CASE conn' = [conn EXCEPT !.dead = FALSE] /\ EmptyLink
  BY <1>3, EmptyLinkFacts DEF LinkOK
<1> QED
  BY <1>1, <1>2, <1>3 DEF HandshakeFails

PastType ==
  [eager : SUBSET Message, reordered : BOOLEAN, dropped : SUBSET Message,
   raced : BOOLEAN]

LEMMA SendFacts ==
  ASSUME LinkOK, NEW item \in Item, Send(item), past \in PastType
  PROVE  /\ LinkOK'
         /\ past' \in PastType /\ past'.raced = past.raced
         /\ server'.got = server.got
         /\ out' \in {out, <<>>, Append(out, item)}
<1>1. CASE out' = Append(out, item) /\ UNCHANGED <<conn, in, server, past>>
  BY <1>1 DEF LinkOK
<1>2. CASE /\ UNCHANGED <<conn, out, in, server>>
           /\ past' = IF item.kind \in {"line", "headers"}
                        THEN [past EXCEPT !.dropped = @ \cup {item.msg}] ELSE past
  <2>1. LinkOK' /\ server'.got = server.got /\ out' = out
    BY <1>2 DEF LinkOK
  <2>2. item.kind \in {"line", "headers"} => item.msg \in Message
    BY DEF Item
  <2>3. past' \in PastType /\ past'.raced = past.raced
    BY <1>2, <2>2 DEF PastType
  <2> QED
    BY <2>1, <2>3
<1>3. CASE LinkFails /\ UNCHANGED past
  BY <1>3, LinkFailsFacts
<1> QED
  BY <1>1, <1>2, <1>3 DEF Send

LEMMA ItemFacts ==
  /\ Ping \in Item /\ Pong \in Item
  /\ \A m \in Message : Line(m) \in Item /\ Payload(m) \in Item /\ WithHeaders(m) \in Item
BY DEF Item, Ping, Pong, Line, Payload, WithHeaders

\* What brings a message to the server.
Delivers(item) == item.kind \in {"payload", "headers"}

ServerType ==
  [expects : Message \cup {NoMessage}, got : Seq(Message), garbled : BOOLEAN]

LEMMA ParsedFacts ==
  ASSUME NEW s \in ServerType, NEW item \in Item
  PROVE  /\ Parsed(s, item) \in ServerType
         /\ \/ Parsed(s, item).got = s.got
            \/ Delivers(item) /\ Parsed(s, item).got = Append(s.got, item.msg)
<1>1. s.got \in Seq(Message) /\ NoMessage \notin Message
  BY ConstantFacts DEF ServerType
<1>2. CASE item.kind = "payload" /\ item.msg = s.expects
  <2>1. item.msg \in Message
    BY <1>2 DEF Item
  <2>2. Append(s.got, item.msg) \in Seq(Message)
    BY <1>1, <2>1
  <2>3. Parsed(s, item) = [s EXCEPT !.expects = NoMessage, !.got = Append(@, item.msg)]
    BY <1>2 DEF Parsed
  <2> QED
    BY <1>2, <2>2, <2>3 DEF ServerType, Delivers
<1>3. CASE item.kind # "payload" /\ s.expects = NoMessage
  <2>1. CASE item.kind = "line"
    <3>1. Parsed(s, item) = [s EXCEPT !.expects = item.msg] /\ item.msg \in Message
      BY <1>3, <2>1 DEF Parsed, Item
    <3> QED
      BY <3>1 DEF ServerType
  <2>2. CASE item.kind = "headers"
    <3>1. item.msg \in Message
      BY <2>2 DEF Item
    <3>2. Append(s.got, item.msg) \in Seq(Message)
      BY <1>1, <3>1
    <3>3. Parsed(s, item) = [s EXCEPT !.got = Append(@, item.msg)]
      BY <1>3, <2>2 DEF Parsed
    <3> QED
      BY <2>2, <3>2, <3>3 DEF ServerType, Delivers
  <2>3. CASE item.kind \notin {"line", "headers"}
    BY <1>3, <2>3 DEF Parsed
  <2> QED
    BY <2>1, <2>2, <2>3
<1>4. CASE /\ ~(item.kind = "payload" /\ item.msg = s.expects)
           /\ ~(item.kind # "payload" /\ s.expects = NoMessage)
  <2>1. Parsed(s, item) = [s EXCEPT !.garbled = TRUE, !.expects = NoMessage]
    BY <1>4 DEF Parsed
  <2> QED
    BY <2>1 DEF ServerType
<1> QED
  BY <1>2, <1>3, <1>4

LEMMA TypeParts ==
  TypeOK <=> /\ LinkOK
             /\ tasks \in TaskSets
             /\ pending \in Seq(Message)
             /\ pings \in Int
             /\ task \in [Task -> TaskRecord] /\ \A u \in Task : Frame(task[u])
             /\ next \in Nat
             /\ mood \in {"wild", "calm", "silent"}
             /\ past \in PastType
BY DEF TypeOK, LinkOK, Frame, PastType

LEMMA InitTypeOK == Init => TypeOK
<1> SUFFICES ASSUME Init PROVE TypeOK
  OBVIOUS
<1>1. Frame(Idle)
  BY DEF Frame, Idle, TaskRecord, NoMessage, Publishing
<1>2. \A u \in Task : task[u] = Idle
  BY DEF Init
<1>3. task \in [Task -> TaskRecord]
  BY <1>1 DEF Init, Frame
<1>4. LinkOK
  <2>1. conn \in [link : Links, open : BOOLEAN, connected : BOOLEAN,
                 dialing : BOOLEAN, dead : BOOLEAN]
    BY DEF Init
  <2>2. out \in Seq(Item) /\ in \in Seq({Ping, Pong}) /\ <<>> \in Seq(Message)
    BY DEF Init
  <2>3. server = [expects |-> NoMessage, got |-> <<>>, garbled |-> FALSE]
    BY DEF Init
  <2>4. server \in [expects : Message \cup {NoMessage}, got : Seq(Message),
                   garbled : BOOLEAN]
    BY <2>2, <2>3
  <2> QED
    BY <2>1, <2>2, <2>4 DEF LinkOK
<1> QED
  BY <1>1, <1>2, <1>3, <1>4, TypeParts DEF Init, PastType

\* What a step of the publishing task t may do: its frame becomes f.
LEMMA StepOfTask ==
  ASSUME TypeOK, NEW t \in Task, NEW f, Frame(f), Becomes(t, f), LinkOK',
         UNCHANGED <<tasks, mood>>, pending' \in Seq(Message), pings' \in Int,
         next' \in Nat, past' \in PastType
  PROVE  TypeOK'
<1>1. task' \in [Task -> TaskRecord] /\ \A u \in Task : Frame(task'[u])
  BY BecomesFacts
<1> QED
  BY <1>1 DEF TypeOK, LinkOK, Frame, PastType

LEMMA PublishType ==
  ASSUME TypeOK, NEW t, Publish(t) PROVE TypeOK'
<1>1. t \in Task /\ Frame(task[t])
  BY AtFacts DEF Publish, Free
<1>2. Frame(Holding(task[t], next + 1)) /\ next' = next + 1 /\ next + 1 \in Message
  BY <1>1, HoldingFacts DEF Publish
<1>3. past' \in PastType
  BY <1>2 DEF Publish, TypeOK, PastType
<1>4. Becomes(t, Holding(task[t], next + 1)) /\ LinkOK'
  BY TypeParts DEF Publish, LinkOK
<1> QED
  BY <1>1, <1>2, <1>3, <1>4, StepOfTask, TypeParts, ConstantFacts DEF Publish

LEMMA PublishCheckType ==
  ASSUME TypeOK, NEW t, PublishCheck(t) PROVE TypeOK'
<1>1. t \in Task /\ Frame(task[t]) /\ task[t].pc = "check"
  BY AtFacts DEF PublishCheck
<1>2. PICK f \in {[task[t] EXCEPT !.pc = "line"], [task[t] EXCEPT !.pc = "push"],
                 Finished(task[t], FALSE)} : Becomes(t, f)
  BY DEF PublishCheck, Published, Goto
<1>3. Frame(f)
  <2>1. Frame([task[t] EXCEPT !.pc = "line"])
    BY <1>1, PcFacts DEF Publishing
  <2>2. Frame([task[t] EXCEPT !.pc = "push"])
    BY <1>1, PcFacts DEF Publishing
  <2> QED
    BY <1>1, <1>2, <2>1, <2>2, FinishedFacts
<1>4. LinkOK' /\ past' \in PastType
  BY TypeParts DEF PublishCheck, LinkOK
<1> QED
  BY <1>1, <1>2, <1>3, <1>4, StepOfTask, TypeParts DEF PublishCheck

LEMMA PublishPushType ==
  ASSUME TypeOK, NEW t, PublishPush(t) PROVE TypeOK'
<1>1. t \in Task /\ Frame(task[t]) /\ task[t].pc = "push" /\ task[t].msg \in Message
  BY AtFacts DEF PublishPush, Frame, TaskRecord, Publishing
<1>2. pending' \in Seq(Message)
  <2>1. pending \in Seq(Message)
    BY TypeParts
  <2>2. pending' \in {Append(pending, task[t].msg), pending, <<>>}
    BY DEF PublishPush
  <2>3. Append(pending, task[t].msg) \in Seq(Message) /\ <<>> \in Seq(Message)
    BY <1>1, <2>1
  <2> QED
    BY <2>1, <2>2, <2>3
<1>3. conn.connected \in BOOLEAN
  BY DEF TypeOK
<1>4. Frame(Finished(task[t], conn.connected)) /\ Becomes(t, Finished(task[t], conn.connected))
  BY <1>1, <1>3, FinishedFacts DEF PublishPush, Published
<1>5. LinkOK'
  BY TypeParts DEF PublishPush, LinkOK
<1>6. past' \in PastType
  <2>1. past \in PastType /\ (past' = past \/ past' = [past EXCEPT !.raced = TRUE])
    BY TypeParts DEF PublishPush
  <2> QED
    BY <2>1 DEF PastType
<1> QED
  BY <1>1, <1>2, <1>4, <1>5, <1>6, StepOfTask, TypeParts DEF PublishPush

LEMMA PublishLineType ==
  ASSUME TypeOK, NEW t, PublishLine(t) PROVE TypeOK'
<1>1. t \in Task /\ Frame(task[t]) /\ task[t].pc = "line" /\ task[t].msg \in Message
  BY AtFacts DEF PublishLine, Frame, TaskRecord, Publishing
<1>2. LinkOK' /\ past' \in PastType
  BY <1>1, SendFacts, ItemFacts, TypeParts DEF PublishLine, PastType
<1>3. conn'.connected \in BOOLEAN
  BY <1>2 DEF LinkOK
<1>4. PICK f \in {[task[t] EXCEPT !.pc = "payload"], Finished(task[t], conn'.connected)} :
        Becomes(t, f)
  BY DEF PublishLine, Published, Goto
<1>5. Frame(f)
  <2>1. Frame([task[t] EXCEPT !.pc = "payload"])
    BY <1>1, PcFacts DEF Publishing
  <2> QED
    BY <1>1, <1>3, <1>4, <2>1, FinishedFacts
<1> QED
  BY <1>1, <1>2, <1>4, <1>5, StepOfTask, TypeParts DEF PublishLine

LEMMA PublishPayloadType ==
  ASSUME TypeOK, NEW t, PublishPayload(t) PROVE TypeOK'
<1>1. t \in Task /\ Frame(task[t]) /\ task[t].msg \in Message
  BY AtFacts DEF PublishPayload, Frame, TaskRecord, Publishing
<1>2. LinkOK' /\ past' \in PastType
  <2>1. CASE SendNothing
    BY <2>1, TypeParts DEF SendNothing, LinkOK
  <2>2. CASE Send(Payload(task[t].msg))
    BY <1>1, <2>2, SendFacts, ItemFacts, TypeParts DEF PastType
  <2> QED
    BY <2>1, <2>2 DEF PublishPayload, SendPayload
<1>3. conn'.connected \in BOOLEAN
  BY <1>2 DEF LinkOK
<1>4. Frame(Finished(task[t], conn'.connected))
      /\ Becomes(t, Finished(task[t], conn'.connected))
  BY <1>1, <1>3, FinishedFacts DEF PublishPayload, Published
<1> QED
  BY <1>1, <1>2, <1>4, StepOfTask, TypeParts DEF PublishPayload

LEMMA ReplayType ==
  ASSUME TypeOK, NEW t, ReplayBegin(t) \/ ReplayPop(t) PROVE TypeOK'
<1>1. t \in Task /\ Frame(task[t])
  BY AtFacts DEF ReplayBegin, ReplayPop
<1>2. LinkOK'
  BY TypeParts DEF ReplayBegin, ReplayPop, LinkOK
<1>3. CASE ReplayBegin(t)
  <2>1. past' \in PastType
    BY <1>3 DEF ReplayBegin, TypeOK, PastType
  <2>2. Frame([task[t] EXCEPT !.stage = "replay"])
        /\ Becomes(t, [task[t] EXCEPT !.stage = "replay"])
    BY <1>1, <1>3, StageFacts DEF ReplayBegin
  <2> QED
    BY <1>1, <1>2, <1>3, <2>1, <2>2, StepOfTask, TypeParts DEF ReplayBegin
<1>4. CASE ReplayPop(t) /\ pending = <<>>
  <2>1. Frame([task[t] EXCEPT !.stage = "run"])
        /\ Becomes(t, [task[t] EXCEPT !.stage = "run"])
    BY <1>1, <1>4, StageFacts DEF ReplayPop
  <2> QED
    BY <1>1, <1>2, <1>4, <2>1, StepOfTask, TypeParts DEF ReplayPop
<1>5. CASE ReplayPop(t) /\ pending # <<>>
  <2>1. Head(pending) \in Message /\ Tail(pending) \in Seq(Message)
    BY <1>5 DEF TypeOK
  <2>2. Frame(Holding(task[t], Head(pending)))
        /\ Becomes(t, Holding(task[t], Head(pending)))
    BY <1>1, <1>5, <2>1, HoldingFacts DEF ReplayPop
  <2>3. pending' \in Seq(Message)
    BY <1>5, <2>1 DEF ReplayPop
  <2> QED
    BY <1>1, <1>2, <1>5, <2>2, <2>3, StepOfTask, TypeParts DEF ReplayPop
<1> QED
  BY <1>3, <1>4, <1>5

LEMMA RecvInfoType ==
  ASSUME TypeOK, NEW t, RecvInfo(t) PROVE TypeOK'
<1>1. t \in Task /\ Frame(task[t])
  BY AtFacts DEF RecvInfo, Receiving
<1>2. LinkOK'
  <2>1. CASE Disconnect
    BY <2>1, DisconnectFacts, TypeParts
  <2>2. CASE /\ conn' = [conn EXCEPT !.connected = TRUE, !.dialing = FALSE]
             /\ UNCHANGED <<out, in, server>>
    BY <2>2, TypeParts DEF LinkOK
  <2> QED
    BY <2>1, <2>2 DEF RecvInfo
<1>3. Frame([task[t] EXCEPT !.stage = "on_connect"])
      /\ Becomes(t, [task[t] EXCEPT !.stage = "on_connect"])
  BY <1>1, StageFacts DEF RecvInfo
<1> QED
  BY <1>1, <1>2, <1>3, StepOfTask, TypeParts DEF RecvInfo

\* The PINGs of process(), and those of flush().
LEMMA PingType ==
  ASSUME TypeOK, PingCheck \/ PingCount PROVE TypeOK'
<1>1. Main \in Task /\ Frame(task[Main]) /\ task[Main].pc \in {"idle", "ping"}
  BY AtFacts DEF PingCheck, PingCount, InProcess
<1>2. Frame([task[Main] EXCEPT !.pc = "ping"])
      /\ Frame([task[Main] EXCEPT !.pc = "pingsend"])
  <2>1. Frame([task[Main] EXCEPT !.pc = "ping"])
    BY <1>1, PcFacts DEF Publishing
  <2>2. Frame([task[Main] EXCEPT !.pc = "pingsend"])
    BY <1>1, PcFacts DEF Publishing
  <2> QED
    BY <2>1, <2>2
<1>3. CASE PingCheck /\ pings > MaxPings
  BY <1>3, DisconnectFacts, TypeParts DEF PingCheck, TypeOK, LinkOK
<1>4. CASE PingCheck /\ ~(pings > MaxPings)
  <2>1. LinkOK' /\ Becomes(Main, [task[Main] EXCEPT !.pc = "ping"])
    BY <1>4, TypeParts DEF PingCheck, Goto, LinkOK
  <2> QED
    BY <1>1, <1>2, <1>4, <2>1, StepOfTask, TypeParts DEF PingCheck
<1>5. CASE PingCount
  <2>1. LinkOK' /\ Becomes(Main, [task[Main] EXCEPT !.pc = "pingsend"])
    BY <1>5, TypeParts DEF PingCount, Goto, LinkOK
  <2>2. pings' \in Int
    BY <1>5, TypeParts DEF PingCount
  <2> QED
    BY <1>1, <1>2, <1>5, <2>1, <2>2, StepOfTask, TypeParts DEF PingCount
<1> QED
  BY <1>3, <1>4, <1>5

LEMMA PingSendType ==
  ASSUME TypeOK, NEW t, PingSend(t) PROVE TypeOK'
<1>1. t \in Task /\ Frame(task[t]) /\ task[t].pc = "pingsend"
  BY AtFacts DEF PingSend
<1>2. LinkOK' /\ past' \in PastType
  BY SendFacts, ItemFacts, TypeParts DEF PingSend, PastType
<1>3. Frame([task[t] EXCEPT !.pc = "idle"])
      /\ Becomes(t, [task[t] EXCEPT !.pc = "idle"])
  BY <1>1, PcFacts DEF PingSend, Goto, Publishing
<1> QED
  BY <1>1, <1>2, <1>3, StepOfTask, TypeParts DEF PingSend

LEMMA FlushType ==
  ASSUME TypeOK, NEW t, FlushBegin(t) \/ FlushReturns(t) PROVE TypeOK'
<1>1. t \in Task /\ Frame(task[t]) /\ task[t].pc = "idle"
  BY AtFacts DEF FlushBegin, FlushReturns, Free
<1>2. LinkOK'
  BY TypeParts DEF FlushBegin, FlushReturns, LinkOK
<1>3. CASE FlushBegin(t)
  <2>1. UnderWay \in SUBSET Message
    BY TypeParts DEF LinkOK, UnderWay, Range, Item
  <2>2. task[t].stage \in {"run", "on_connect"}
    BY <1>1, <1>3 DEF FlushBegin, Free, Frame, TaskRecord
  <2>3. pings \in Int /\ pings' \in Int
    BY <1>3, TypeParts DEF FlushBegin
  <2> DEFINE f == Flushing(task[t], "pingsend", task[t].stage, pings, UnderWay)
  <2>4. Frame(f) /\ Becomes(t, f)
    BY <1>1, <1>3, <2>1, <2>2, <2>3, FlushFacts DEF FlushBegin, Publishing
  <2> HIDE DEF f
  <2> QED
    BY <1>1, <1>2, <1>3, <2>3, <2>4, StepOfTask, TypeParts DEF FlushBegin
<1>4. CASE FlushReturns(t)
  <2> DEFINE f == Flushing(task[t], "idle", "no", 0, {})
  <2>1. Frame(f) /\ Becomes(t, f)
    BY <1>1, <1>4, FlushFacts DEF FlushReturns, Publishing
  <2> HIDE DEF f
  <2> QED
    BY <1>1, <1>2, <1>4, <2>1, StepOfTask, TypeParts DEF FlushReturns
<1> QED
  BY <1>3, <1>4

\* The steps that leave the frames of the tasks alone.
Elsewhere ==
  \/ \E t \in tasks : RecvPong(t) \/ RecvPing(t) \/ ConnectionEnds(t)
  \/ Dial \/ ProcessDropped \/ HandshakeFails \/ ServerReads \/ Environment

LEMMA ElsewhereType ==
  ASSUME TypeOK, Elsewhere PROVE TypeOK'
<1>1. UNCHANGED <<tasks, task, pending, next, past>>
  BY DEF Elsewhere, RecvPong, RecvPing, ConnectionEnds, Dial, ProcessDropped,
         HandshakeFails, ServerReads, Environment, TransportDrops, ServerPings, MoodChanges
<1>2. pings' \in Int /\ mood' \in {"wild", "calm", "silent"}
  BY TypeParts, LinksAssumption
     DEF Elsewhere, RecvPong, RecvPing, ConnectionEnds, Dial, ProcessDropped,
         HandshakeFails, ServerReads, Environment, TransportDrops, ServerPings, MoodChanges
<1>3. LinkOK'
  <2>1. LinkOK /\ Ping \in Item /\ Pong \in Item
    BY TypeParts, ItemFacts
  <2>2. CASE Disconnect
    BY <2>1, <2>2, DisconnectFacts
  <2>3. CASE \E t \in tasks : RecvPong(t)
    <3>1. in # <<>> /\ in' = Tail(in) /\ UNCHANGED <<conn, out, server>>
      BY <2>3 DEF RecvPong
    <3>2. in' \in Seq({Ping, Pong})
      BY <2>1, <3>1 DEF LinkOK
    <3> QED
      BY <2>1, <3>1, <3>2 DEF LinkOK
  <2>4. CASE /\ in # <<>> /\ out' = Append(out, Pong) /\ in' = Tail(in)
             /\ UNCHANGED <<conn, server>>
    <3>1. in' \in Seq({Ping, Pong}) /\ out' \in Seq(Item)
      BY <2>1, <2>4 DEF LinkOK
    <3> QED
      BY <2>1, <2>4, <3>1 DEF LinkOK
  <2>5. CASE Dial
    BY <2>1, <2>5 DEF Dial, LinkOK
  <2>6. CASE ServerReads
    <3>1. /\ out # <<>> /\ server' = Parsed(server, Head(out)) /\ out' = Tail(out)
          /\ in' \in {in, Append(in, Pong)} /\ UNCHANGED conn
      BY <2>6 DEF ServerReads
    <3>2. Head(out) \in Item /\ out' \in Seq(Item) /\ in' \in Seq({Ping, Pong})
      <4>1. out \in Seq(Item) /\ in \in Seq({Ping, Pong})
        BY <2>1 DEF LinkOK
      <4>2. Head(out) \in Item /\ out' \in Seq(Item)
        BY <3>1, <4>1
      <4>3. in' \in Seq({Ping, Pong})
        BY <3>1, <4>1
      <4> QED
        BY <4>2, <4>3
    <3>3. server \in ServerType
      BY <2>1 DEF LinkOK, ServerType
    <3>4. server' \in ServerType
      BY <3>1, <3>2, <3>3, ParsedFacts
    <3> QED
      BY <2>1, <3>1, <3>2, <3>4 DEF LinkOK, ServerType
  <2>7. CASE TransportDrops
    <3>1. EmptyLink /\ conn' = [conn EXCEPT !.open = FALSE, !.dialing = FALSE]
      BY <2>7 DEF TransportDrops
    <3> QED
      BY <2>1, <3>1, EmptyLinkFacts DEF LinkOK
  <2>8. CASE ServerPings
    <3>1. in' = Append(in, Ping) /\ UNCHANGED <<conn, out, server>>
      BY <2>8 DEF ServerPings
    <3>2. in' \in Seq({Ping, Pong})
      BY <2>1, <3>1 DEF LinkOK
    <3> QED
      BY <2>1, <3>1, <3>2 DEF LinkOK
  <2>9. CASE MoodChanges
    BY <2>1, <2>9 DEF MoodChanges, LinkOK
  <2>10. CASE LinkFails
    BY <2>1, <2>10, LinkFailsFacts
  <2>11. CASE HandshakeFails
    BY <2>1, <2>11, HandshakeFailsFacts
  <2> QED
    BY <2>2, <2>3, <2>4, <2>5, <2>6, <2>7, <2>8, <2>9, <2>10, <2>11
       DEF Elsewhere, RecvPing, ConnectionEnds, ProcessDropped, Environment
<1> QED
  BY <1>1, <1>2, <1>3 DEF TypeOK, LinkOK

LEMMA NextTypeOK ==
  ASSUME TypeOK, [Next]_vars PROVE TypeOK'
<1>1. CASE UNCHANGED vars
  BY <1>1 DEF vars, TypeOK
<1>2. CASE Elsewhere
  BY <1>2, ElsewhereType
<1>3. CASE PingCheck \/ PingCount
  BY <1>3, PingType
<1>4. ASSUME NEW t \in tasks, Application(t) \/ Progress(t) \/ RecvInfo(t)
      PROVE  TypeOK'
  BY <1>4, PublishType, PublishCheckType, PublishPushType, PublishLineType,
     PublishPayloadType, ReplayType, RecvInfoType, PingSendType, FlushType
     DEF Application, Progress, FlushTrue, FlushFalse
<1> QED
  BY <1>1, <1>2, <1>3, <1>4 DEF Next, Recv, Process, Elsewhere

\* Every variable keeps its type, with any tasks, messages and limits.
THEOREM TypeCorrect == Spec => []TypeOK
BY InitTypeOK, NextTypeOK, PTL DEF Spec

-----------------------------------------------------------------------------
(* Every message is in one place                                           *)

\* h: what the tasks hold; p: the buffer; o: the link; g: what the server has;
\* n: the last message published.  No message is in two of these places, or
\* twice in one, and none has a later number.
Numbered(h, p, o, g, n) ==
  /\ \A t \in Task : h[t] <= n
  /\ \A i \in 1 .. Len(p) : p[i] <= n
  /\ \A i \in 1 .. Len(o) : Delivers(o[i]) => o[i].msg <= n
  /\ \A i \in 1 .. Len(g) : g[i] <= n

NotHeld(h, p, o, g) ==
  /\ \A t, u \in Task : t # u /\ h[t] # NoMessage => h[t] # h[u]
  /\ \A t \in Task : \A i \in 1 .. Len(p) : p[i] # h[t]
  /\ \A t \in Task : \A i \in 1 .. Len(o) : Delivers(o[i]) => o[i].msg # h[t]
  /\ \A t \in Task : \A i \in 1 .. Len(g) : g[i] # h[t]

Distinct(p, o, g) ==
  /\ \A i, j \in 1 .. Len(p) : i # j => p[i] # p[j]
  /\ \A i \in 1 .. Len(p), j \in 1 .. Len(o) : Delivers(o[j]) => o[j].msg # p[i]
  /\ \A i \in 1 .. Len(p), j \in 1 .. Len(g) : g[j] # p[i]
  /\ \A i, j \in 1 .. Len(o) :
       i # j /\ Delivers(o[i]) /\ Delivers(o[j]) => o[i].msg # o[j].msg
  /\ \A i \in 1 .. Len(o), j \in 1 .. Len(g) : Delivers(o[i]) => g[j] # o[i].msg
  /\ \A i, j \in 1 .. Len(g) : i # j => g[i] # g[j]

Once(h, p, o, g, n) ==
  Numbered(h, p, o, g, n) /\ NotHeld(h, p, o, g) /\ Distinct(p, o, g)

Places(h, p, o, g, n) ==
  /\ h \in [Task -> Message \cup {NoMessage}]
  /\ p \in Seq(Message) /\ o \in Seq(Item) /\ g \in Seq(Message) /\ n \in Nat
  /\ Once(h, p, o, g, n)

\* What is in a place is a message, and a message is a number.
LEMMA PlacesFacts ==
  ASSUME NEW h, NEW p, NEW o, NEW g, NEW n, Places(h, p, o, g, n)
  PROVE  /\ n \in Nat /\ Message \subseteq Nat /\ NoMessage = 0 /\ NoMessage \notin Message
         /\ \A u \in Task : h[u] \in Nat
         /\ \A i \in 1 .. Len(p) : p[i] \in Message /\ p[i] \in Nat
         /\ \A i \in 1 .. Len(g) : g[i] \in Message /\ g[i] \in Nat
         /\ \A i \in 1 .. Len(o) : Delivers(o[i]) => o[i].msg \in Message /\ o[i].msg \in Nat
<1>1. Message \subseteq Nat /\ NoMessage = 0 /\ NoMessage \notin Message
  BY ConstantFacts DEF NoMessage
<1>2. \A u \in Task : h[u] \in Nat
  <2>1. \A u \in Task : h[u] \in Message \cup {NoMessage}
    BY DEF Places
  <2>2. NoMessage \in Nat
    BY DEF NoMessage
  <2>3. Message \cup {NoMessage} \subseteq Nat
    BY <1>1, <2>2
  <2> QED
    BY <2>1, <2>3
<1>3. \A i \in 1 .. Len(p) : p[i] \in Message
  BY DEF Places
<1>4. \A i \in 1 .. Len(g) : g[i] \in Message
  BY DEF Places
<1>5. \A i \in 1 .. Len(o) : o[i] \in Item
  BY DEF Places
<1>6. \A item \in Item : Delivers(item) => item.msg \in Message
  BY DEF Item, Delivers
<1>7. n \in Nat
  BY DEF Places
<1> QED
  BY <1>1, <1>2, <1>3, <1>4, <1>5, <1>6, <1>7

\* The link is emptied.
LEMMA OnceEmptied ==
  ASSUME NEW h, NEW p, NEW o, NEW g, NEW n, Places(h, p, o, g, n)
  PROVE  Once(h, p, <<>>, g, n)
BY DEF Places, Once, Numbered, NotHeld, Distinct

\* The buffer is lost.
LEMMA OnceCleared ==
  ASSUME NEW h, NEW p, NEW o, NEW g, NEW n, Places(h, p, o, g, n)
  PROVE  Once(h, <<>>, o, g, n)
BY DEF Places, Once, Numbered, NotHeld, Distinct

\* A PUB line, a PING or a PONG is sent.
LEMMA OnceOther ==
  ASSUME NEW h, NEW p, NEW o, NEW g, NEW n, Places(h, p, o, g, n),
         NEW item \in Item, ~Delivers(item)
  PROVE  Once(h, p, Append(o, item), g, n)
<1> DEFINE q == Append(o, item)
<1>1. \A i \in 1 .. Len(q) : Delivers(q[i]) => i \in 1 .. Len(o) /\ q[i] = o[i]
  BY DEF Places
<1> HIDE DEF q
<1>2. Numbered(h, p, q, g, n)
  BY <1>1 DEF Places, Once, Numbered
<1>3. NotHeld(h, p, q, g)
  BY <1>1 DEF Places, Once, NotHeld
<1>4. Distinct(p, q, g)
  BY <1>1 DEF Places, Once, Distinct
<1> QED
  BY <1>2, <1>3, <1>4 DEF Once, q

\* A new message is published.
LEMMA OnceNew ==
  ASSUME NEW h, NEW p, NEW o, NEW g, NEW n, Places(h, p, o, g, n),
         NEW t \in Task, n + 1 \in Message
  PROVE  Once([h EXCEPT ![t] = n + 1], p, o, g, n + 1)
<1> DEFINE k == [h EXCEPT ![t] = n + 1]
<1>1. k[t] = n + 1 /\ \A u \in Task \ {t} : k[u] = h[u]
  BY DEF Places
<1> HIDE DEF k
<1>2. /\ n \in Nat /\ \A u \in Task : h[u] \in Nat
      /\ \A i \in 1 .. Len(p) : p[i] \in Nat
      /\ \A i \in 1 .. Len(g) : g[i] \in Nat
      /\ \A i \in 1 .. Len(o) : Delivers(o[i]) => o[i].msg \in Nat
  BY PlacesFacts
<1>3. Numbered(h, p, o, g, n) /\ NotHeld(h, p, o, g)
  BY DEF Places, Once
<1>4. \A m \in Nat : m <= n => m <= n + 1 /\ m # n + 1
  BY <1>2
<1>5. Numbered(k, p, o, g, n + 1)
  BY <1>1, <1>2, <1>3, <1>4 DEF Numbered
<1>6. NotHeld(k, p, o, g)
  <2>1. \A u, v \in Task : u # v /\ k[u] # NoMessage => k[u] # k[v]
    BY <1>1, <1>2, <1>3, <1>4 DEF Numbered, NotHeld
  <2>2. /\ \A u \in Task : \A i \in 1 .. Len(p) : p[i] # k[u]
        /\ \A u \in Task : \A i \in 1 .. Len(g) : g[i] # k[u]
    BY <1>1, <1>2, <1>3, <1>4 DEF Numbered, NotHeld
  <2>3. \A u \in Task : \A i \in 1 .. Len(o) : Delivers(o[i]) => o[i].msg # k[u]
    BY <1>1, <1>2, <1>3, <1>4 DEF Numbered, NotHeld
  <2> QED
    BY <2>1, <2>2, <2>3 DEF NotHeld
<1> QED
  BY <1>5, <1>6 DEF Places, Once, k

\* A task is done with its message.
LEMMA OnceDropped ==
  ASSUME NEW h, NEW p, NEW o, NEW g, NEW n, Places(h, p, o, g, n), NEW t \in Task
  PROVE  Once([h EXCEPT ![t] = NoMessage], p, o, g, n)
<1> DEFINE k == [h EXCEPT ![t] = NoMessage]
<1>1. k[t] = NoMessage /\ \A u \in Task \ {t} : k[u] = h[u]
  BY DEF Places
<1> HIDE DEF k
<1>2. Numbered(k, p, o, g, n)
  BY <1>1 DEF Places, Once, Numbered, NoMessage
<1>3. NoMessage \notin Message
  BY ConstantFacts
<1>4. NotHeld(k, p, o, g)
  <2>1. \A i \in 1 .. Len(o) : Delivers(o[i]) => o[i].msg \in Message
    BY DEF Places, Item, Delivers
  <2> QED
    BY <1>1, <1>3, <2>1 DEF Places, Once, NotHeld
<1> QED
  BY <1>2, <1>4 DEF Places, Once, k

\* It goes into the buffer.
LEMMA OncePushed ==
  ASSUME NEW h, NEW p, NEW o, NEW g, NEW n, Places(h, p, o, g, n),
         NEW t \in Task, h[t] \in Message
  PROVE  Once([h EXCEPT ![t] = NoMessage], Append(p, h[t]), o, g, n)
<1> DEFINE k == [h EXCEPT ![t] = NoMessage]
           q == Append(p, h[t])
<1>1. k[t] = NoMessage /\ \A u \in Task \ {t} : k[u] = h[u]
  BY DEF Places
<1>2. Once(k, p, o, g, n)
  BY OnceDropped
<1>3. /\ Len(q) = Len(p) + 1 /\ q[Len(q)] = h[t] /\ Len(p) \in Nat
      /\ \A i \in 1 .. Len(p) : q[i] = p[i]
  BY DEF Places
<1>4. \A i \in 1 .. Len(q) : (i \in 1 .. Len(p) /\ q[i] = p[i]) \/ (i = Len(q) /\ q[i] = h[t])
  BY <1>3
<1> HIDE DEF k, q
<1>5. NoMessage \notin Message
  BY ConstantFacts
<1>6. Numbered(k, q, o, g, n)
  BY <1>2, <1>4 DEF Places, Once, Numbered
<1>7. NotHeld(k, q, o, g)
  BY <1>1, <1>2, <1>4, <1>5 DEF Places, Once, NotHeld
<1>8. Distinct(q, o, g)
  BY <1>3, <1>4 DEF Places, Once, Distinct, NotHeld
<1> QED
  BY <1>6, <1>7, <1>8 DEF Once, k, q

\* It is sent.
LEMMA OnceSent ==
  ASSUME NEW h, NEW p, NEW o, NEW g, NEW n, Places(h, p, o, g, n),
         NEW t \in Task, NEW item \in Item, item.msg = h[t]
  PROVE  Once([h EXCEPT ![t] = NoMessage], p, Append(o, item), g, n)
<1> DEFINE k == [h EXCEPT ![t] = NoMessage]
           q == Append(o, item)
<1>1. k[t] = NoMessage /\ \A u \in Task \ {t} : k[u] = h[u]
  BY DEF Places
<1>2. Once(k, p, o, g, n)
  BY OnceDropped
<1>3. /\ Len(q) = Len(o) + 1 /\ q[Len(q)] = item /\ Len(o) \in Nat
      /\ \A i \in 1 .. Len(o) : q[i] = o[i]
  BY DEF Places
<1>4. \A i \in 1 .. Len(q) : (i \in 1 .. Len(o) /\ q[i] = o[i]) \/ (i = Len(q) /\ q[i] = item)
  BY <1>3
<1> HIDE DEF k, q
<1>5. NoMessage \notin Message /\ (Delivers(item) => item.msg \in Message)
  BY ConstantFacts DEF Item, Delivers
<1>6. Numbered(k, p, q, g, n)
  BY <1>2, <1>4 DEF Places, Once, Numbered
<1>7. NotHeld(k, p, q, g)
  BY <1>1, <1>2, <1>4, <1>5 DEF Places, Once, NotHeld
<1>8. Distinct(p, q, g)
  <2>1. NotHeld(h, p, o, g) /\ Distinct(p, o, g)
    BY DEF Places, Once
  <2>2. \A i \in 1 .. Len(p), j \in 1 .. Len(q) : Delivers(q[j]) => q[j].msg # p[i]
    BY <1>4, <2>1 DEF Distinct, NotHeld
  <2>3. \A i, j \in 1 .. Len(q) :
          i # j /\ Delivers(q[i]) /\ Delivers(q[j]) => q[i].msg # q[j].msg
    BY <1>4, <2>1 DEF Distinct, NotHeld
  <2>4. \A i \in 1 .. Len(q), j \in 1 .. Len(g) : Delivers(q[i]) => g[j] # q[i].msg
    BY <1>4, <2>1 DEF Distinct, NotHeld
  <2> QED
    BY <2>1, <2>2, <2>3, <2>4 DEF Distinct
<1> QED
  BY <1>6, <1>7, <1>8 DEF Once, k, q

\* The replay takes it out of the buffer.
LEMMA OncePopped ==
  ASSUME NEW h, NEW p, NEW o, NEW g, NEW n, Places(h, p, o, g, n),
         NEW t \in Task, p # <<>>
  PROVE  Once([h EXCEPT ![t] = Head(p)], Tail(p), o, g, n)
<1> DEFINE k == [h EXCEPT ![t] = Head(p)]
           q == Tail(p)
<1>1. k[t] = p[1] /\ 1 \in 1 .. Len(p) /\ \A u \in Task \ {t} : k[u] = h[u]
  BY DEF Places
<1>2. \A i \in 1 .. Len(q) : i + 1 \in 1 .. Len(p) /\ i + 1 # 1 /\ q[i] = p[i + 1] /\ i \in Int
  BY DEF Places
<1> HIDE DEF k, q
<1>3. Numbered(k, q, o, g, n)
  BY <1>1, <1>2 DEF Places, Once, Numbered
<1>4. NotHeld(k, q, o, g)
  <2>1. NotHeld(h, p, o, g) /\ Distinct(p, o, g)
    BY DEF Places, Once
  <2>2. \A u, v \in Task : u # v /\ k[u] # NoMessage => k[u] # k[v]
    BY <1>1, <2>1 DEF NotHeld
  <2>3. \A u \in Task : \A i \in 1 .. Len(q) : q[i] # k[u]
    BY <1>1, <1>2, <2>1 DEF NotHeld, Distinct
  <2>4. \A u \in Task : \A i \in 1 .. Len(o) : Delivers(o[i]) => o[i].msg # k[u]
    BY <1>1, <2>1 DEF NotHeld, Distinct
  <2>5. \A u \in Task : \A i \in 1 .. Len(g) : g[i] # k[u]
    BY <1>1, <2>1 DEF NotHeld, Distinct
  <2> QED
    BY <2>2, <2>3, <2>4, <2>5 DEF NotHeld
<1>5. Distinct(q, o, g)
  <2>1. Distinct(p, o, g)
    BY DEF Places, Once
  <2>2. \A i, j \in 1 .. Len(q) : i # j => i + 1 # j + 1
    BY <1>2
  <2>3. \A i, j \in 1 .. Len(q) : i # j => q[i] # q[j]
    BY <1>2, <2>1, <2>2 DEF Distinct
  <2>4. /\ \A i \in 1 .. Len(q), j \in 1 .. Len(o) : Delivers(o[j]) => o[j].msg # q[i]
        /\ \A i \in 1 .. Len(q), j \in 1 .. Len(g) : g[j] # q[i]
    BY <1>2, <2>1 DEF Distinct
  <2> QED
    BY <2>1, <2>3, <2>4 DEF Distinct
<1> QED
  BY <1>3, <1>4, <1>5 DEF Once, k, q

\* The server reads a line, or a message.
LEMMA OnceRead ==
  ASSUME NEW h, NEW p, NEW o, NEW g, NEW n, Places(h, p, o, g, n), o # <<>>
  PROVE  /\ Once(h, p, Tail(o), g, n)
         /\ Delivers(Head(o)) => Once(h, p, Tail(o), Append(g, Head(o).msg), n)
<1> DEFINE q == Tail(o)
           f == Append(g, Head(o).msg)
<1>1. Head(o) = o[1] /\ 1 \in 1 .. Len(o)
  BY DEF Places
<1>2. \A i \in 1 .. Len(q) : i + 1 \in 1 .. Len(o) /\ i + 1 # 1 /\ q[i] = o[i + 1] /\ i \in Int
  BY DEF Places
<1>3. /\ Len(f) = Len(g) + 1 /\ f[Len(f)] = Head(o).msg /\ Len(g) \in Nat
      /\ \A i \in 1 .. Len(g) : f[i] = g[i]
  BY DEF Places
<1>4. \A i \in 1 .. Len(f) :
        (i \in 1 .. Len(g) /\ f[i] = g[i]) \/ (i = Len(f) /\ f[i] = o[1].msg)
  BY <1>1, <1>3
<1>5. Once(h, p, q, g, n)
  <2> HIDE DEF q
  <2>1. Numbered(h, p, q, g, n)
    BY <1>2 DEF Places, Once, Numbered
  <2>2. NotHeld(h, p, q, g)
    BY <1>2 DEF Places, Once, NotHeld
  <2>3. Distinct(p, q, g)
    <3>1. Distinct(p, o, g)
      BY DEF Places, Once
    <3>2. \A i, j \in 1 .. Len(q) : i # j => i + 1 # j + 1
      BY <1>2
    <3>3. \A i, j \in 1 .. Len(q) :
            i # j /\ Delivers(q[i]) /\ Delivers(q[j]) => q[i].msg # q[j].msg
      BY <1>2, <3>1, <3>2 DEF Distinct
    <3>4. /\ \A i \in 1 .. Len(p), j \in 1 .. Len(q) : Delivers(q[j]) => q[j].msg # p[i]
          /\ \A i \in 1 .. Len(q), j \in 1 .. Len(g) : Delivers(q[i]) => g[j] # q[i].msg
      BY <1>2, <3>1 DEF Distinct
    <3> QED
      BY <3>1, <3>3, <3>4 DEF Distinct
  <2> QED
    BY <2>1, <2>2, <2>3 DEF Once
<1>6. ASSUME Delivers(Head(o)) PROVE Once(h, p, q, f, n)
  <2> HIDE DEF q, f
  <2>1. Numbered(h, p, q, f, n)
    BY <1>1, <1>4, <1>5, <1>6 DEF Places, Once, Numbered
  <2>2. NotHeld(h, p, q, f)
    BY <1>1, <1>4, <1>5, <1>6 DEF Places, Once, NotHeld
  <2>3. Distinct(p, q, f)
    BY <1>1, <1>2, <1>3, <1>4, <1>5, <1>6 DEF Places, Once, Distinct
  <2> QED
    BY <2>1, <2>2, <2>3 DEF Once
<1> QED
  BY <1>5, <1>6

-----------------------------------------------------------------------------
(* What the steps do to the places                                         *)

Held == [t \in Task |-> task[t].msg]
OncePlace == Once(Held, pending, out, server.got, next)

LEMMA TypedPlaces ==
  ASSUME TypeOK, OncePlace
  PROVE  Places(Held, pending, out, server.got, next)
<1>1. Held \in [Task -> Message \cup {NoMessage}]
  BY DEF Held, TypeOK, TaskRecord
<1> QED
  BY <1>1 DEF OncePlace, Places, TypeOK

LEMMA HeldFacts ==
  ASSUME TypeOK, NEW t \in Task, NEW f, Frame(f), Becomes(t, f)
  PROVE  /\ Held' = [Held EXCEPT ![t] = f.msg]
         /\ f.msg = task[t].msg => Held' = Held
<1>1. task'[t] = f /\ \A u \in Task \ {t} : task'[u] = task[u]
  BY BecomesFacts
<1>2. Held' = [u \in Task |-> task'[u].msg]
  BY DEF Held
<1> QED
  BY <1>1, <1>2 DEF Held

\* A step that moves no message, but may send something else or disconnect.
LEMMA QuietStep ==
  ASSUME TypeOK, OncePlace, NEW item \in Item, ~Delivers(item),
         UNCHANGED <<Held, pending, next>>, server'.got = server.got,
         out' \in {out, <<>>, Append(out, item)}
  PROVE  OncePlace'
<1>1. Places(Held, pending, out, server.got, next)
  BY TypedPlaces
<1>2. Once(Held, pending, <<>>, server.got, next)
  BY <1>1, OnceEmptied
<1>3. Once(Held, pending, Append(out, item), server.got, next)
  BY <1>1, OnceOther
<1>4. Once(Held, pending, out', server.got, next)
  BY <1>2, <1>3 DEF OncePlace
<1> QED
  BY <1>4 DEF OncePlace

\* A step in which t is done with its message, which it sent or did not.
LEMMA DoneStep ==
  ASSUME TypeOK, OncePlace, NEW t \in Task, NEW item \in Item,
         item.msg = task[t].msg,
         Held' = [Held EXCEPT ![t] = NoMessage],
         UNCHANGED <<pending, next>>, server'.got = server.got,
         out' \in {out, <<>>, Append(out, item)}
  PROVE  OncePlace'
<1> DEFINE h == [Held EXCEPT ![t] = NoMessage]
<1>1. Places(Held, pending, out, server.got, next)
  BY TypedPlaces
<1>2. Once(h, pending, out, server.got, next)
  BY <1>1, OnceDropped
<1>3. Once(h, pending, <<>>, server.got, next)
  <2>1. Places(Held, pending, <<>>, server.got, next)
    BY <1>1, OnceEmptied DEF Places
  <2> QED
    BY <2>1, OnceDropped
<1>4. Once(h, pending, Append(out, item), server.got, next)
  BY <1>1, OnceSent DEF Held
<1> HIDE DEF h
<1>5. Once(h, pending, out', server.got, next)
  BY <1>2, <1>3, <1>4
<1> QED
  BY <1>5 DEF OncePlace, h

LEMMA PublishOnce ==
  ASSUME TypeOK, OncePlace, NEW t, Publish(t) PROVE OncePlace'
<1>1. t \in Task /\ Frame(task[t])
  BY AtFacts DEF Publish, Free
<1>2. next' = next + 1 /\ next + 1 \in Message /\ UNCHANGED <<pending, out, server>>
      /\ Becomes(t, Holding(task[t], next + 1))
  BY DEF Publish
<1>3. Frame(Holding(task[t], next + 1)) /\ Holding(task[t], next + 1).msg = next + 1
  BY <1>1, <1>2, HoldingFacts
<1>4. Held' = [Held EXCEPT ![t] = next + 1]
  BY <1>1, <1>2, <1>3, HeldFacts
<1>5. Once([Held EXCEPT ![t] = next + 1], pending, out, server.got, next + 1)
  BY <1>1, <1>2, TypedPlaces, OnceNew
<1> QED
  BY <1>2, <1>4, <1>5 DEF OncePlace

\* publish() returns without having sent or buffered the message.
LEMMA FinishedHeld ==
  ASSUME TypeOK, NEW t \in Task, NEW c \in BOOLEAN, Published(t, c)
  PROVE  Held' = [Held EXCEPT ![t] = NoMessage]
<1>1. Frame(task[t])
  BY TypedFrames
<1>2. Frame(Finished(task[t], c)) /\ Finished(task[t], c).msg = NoMessage
  BY <1>1, FinishedFacts
<1> QED
  BY <1>2, HeldFacts DEF Published

LEMMA GotoHeld ==
  ASSUME TypeOK, NEW t \in Task, NEW pc \in {"idle", "ping", "pingsend"} \cup Publishing,
         task[t].pc \in Publishing <=> pc \in Publishing, Goto(t, pc)
  PROVE  Held' = Held
<1>1. Frame(task[t])
  BY TypedFrames
<1>2. Frame([task[t] EXCEPT !.pc = pc]) /\ [task[t] EXCEPT !.pc = pc].msg = task[t].msg
  BY <1>1, PcFacts
<1> QED
  BY <1>2, HeldFacts DEF Goto

LEMMA StageHeld ==
  ASSUME TypeOK, NEW t \in Task, NEW stage \in {"run", "on_connect", "replay"},
         Becomes(t, [task[t] EXCEPT !.stage = stage])
  PROVE  Held' = Held
<1> DEFINE f == [task[t] EXCEPT !.stage = stage]
<1>1. Frame(task[t])
  BY TypedFrames
<1>2. Frame(f) /\ f.msg = task[t].msg /\ Becomes(t, f)
  BY <1>1, StageFacts
<1> HIDE DEF f
<1> QED
  BY <1>2, HeldFacts

LEMMA PublishCheckOnce ==
  ASSUME TypeOK, OncePlace, NEW t, PublishCheck(t) PROVE OncePlace'
<1>1. t \in Task /\ Frame(task[t]) /\ task[t].pc = "check" /\ task[t].msg \in Message
  BY AtFacts DEF PublishCheck, Frame, TaskRecord, Publishing
<1>2. UNCHANGED <<pending, next, out, server>>
  BY DEF PublishCheck
<1>3. CASE Published(t, FALSE)
  BY <1>1, <1>2, <1>3, FinishedHeld, DoneStep, ItemFacts DEF Payload
<1>4. CASE Goto(t, "line") \/ Goto(t, "push")
  <2>1. Held' = Held
    BY <1>1, <1>4, GotoHeld DEF Publishing
  <2> QED
    BY <1>2, <2>1, QuietStep, ItemFacts DEF Delivers, Ping
<1> QED
  BY <1>3, <1>4 DEF PublishCheck

LEMMA PublishPushOnce ==
  ASSUME TypeOK, OncePlace, NEW t, PublishPush(t) PROVE OncePlace'
<1>1. t \in Task /\ task[t].pc = "push" /\ task[t].msg \in Message
  BY AtFacts DEF PublishPush, Frame, TaskRecord, Publishing
<1>2. UNCHANGED <<next, out, server>> /\ pending' \in {pending, <<>>, Append(pending, task[t].msg)}
  BY DEF PublishPush
<1>3. Held' = [Held EXCEPT ![t] = NoMessage]
  BY <1>1, FinishedHeld DEF PublishPush, TypeOK
<1>4. CASE UNCHANGED pending
  BY <1>1, <1>2, <1>3, <1>4, DoneStep, ItemFacts DEF Payload
<1>5. CASE pending' = Append(pending, task[t].msg)
  <2>1. Held[t] = task[t].msg
    BY <1>1 DEF Held
  <2>2. Once([Held EXCEPT ![t] = NoMessage], Append(pending, Held[t]), out, server.got, next)
    BY <1>1, <2>1, TypedPlaces, OncePushed
  <2> QED
    BY <1>2, <1>3, <1>5, <2>1, <2>2 DEF OncePlace
<1>6. CASE pending' = <<>>
  <2>1. Once([Held EXCEPT ![t] = NoMessage], pending, out, server.got, next)
    BY <1>1, TypedPlaces, OnceDropped
  <2>2. Places([Held EXCEPT ![t] = NoMessage], pending, out, server.got, next)
    BY <2>1, TypedPlaces DEF Places
  <2>3. Once([Held EXCEPT ![t] = NoMessage], <<>>, out, server.got, next)
    BY <2>2, OnceCleared
  <2> QED
    BY <1>2, <1>3, <1>6, <2>3 DEF OncePlace
<1> QED
  BY <1>2, <1>4, <1>5, <1>6

LEMMA PublishLineOnce ==
  ASSUME TypeOK, OncePlace, NEW t, PublishLine(t) PROVE OncePlace'
<1>1. t \in Task /\ task[t].pc = "line" /\ task[t].msg \in Message
  BY AtFacts DEF PublishLine, Frame, TaskRecord, Publishing
<1>2. UNCHANGED <<pending, next>> /\ conn'.connected \in BOOLEAN
  BY PublishLineType DEF PublishLine, TypeOK
<1>3. CASE Kind[task[t].msg] = "headers"
  <2> DEFINE item == WithHeaders(task[t].msg)
  <2>1. item \in Item /\ item.msg = task[t].msg
    BY <1>1, ItemFacts DEF WithHeaders
  <2>2. Send(item) /\ Published(t, conn'.connected)
    BY <1>3 DEF PublishLine
  <2> HIDE DEF item
  <2>3. server'.got = server.got /\ out' \in {out, <<>>, Append(out, item)}
    BY <2>1, <2>2, SendFacts, TypeParts
  <2> QED
    BY <1>1, <1>2, <2>1, <2>2, <2>3, FinishedHeld, DoneStep
<1>4. CASE Kind[task[t].msg] # "headers"
  <2> DEFINE item == Line(task[t].msg)
  <2>1. item \in Item /\ ~Delivers(item)
    BY <1>1, ItemFacts DEF Line, Delivers
  <2>2. Send(item) /\ Goto(t, "payload")
    BY <1>4 DEF PublishLine
  <2> HIDE DEF item
  <2>3. server'.got = server.got /\ out' \in {out, <<>>, Append(out, item)}
    BY <2>1, <2>2, SendFacts, TypeParts
  <2>4. Held' = Held
    BY <1>1, <2>2, GotoHeld DEF Publishing
  <2> QED
    BY <1>2, <2>1, <2>3, <2>4, QuietStep
<1> QED
  BY <1>3, <1>4

LEMMA PublishPayloadOnce ==
  ASSUME TypeOK, OncePlace, NEW t, PublishPayload(t) PROVE OncePlace'
<1> DEFINE item == Payload(task[t].msg)
<1>1. t \in Task /\ item \in Item /\ item.msg = task[t].msg
  BY AtFacts, ItemFacts DEF PublishPayload, Frame, TaskRecord, Publishing, Payload
<1>2. UNCHANGED <<pending, next>> /\ conn'.connected \in BOOLEAN
      /\ Published(t, conn'.connected)
  BY PublishPayloadType DEF PublishPayload, TypeOK
<1>3. SendNothing \/ Send(item)
  BY DEF PublishPayload, SendPayload
<1> HIDE DEF item
<1>4. server'.got = server.got /\ out' \in {out, <<>>, Append(out, item)}
  <2>1. CASE SendNothing
    BY <2>1 DEF SendNothing
  <2>2. CASE Send(item)
    BY <1>1, <2>2, SendFacts, TypeParts
  <2> QED
    BY <1>3, <2>1, <2>2
<1> QED
  BY <1>1, <1>2, <1>4, FinishedHeld, DoneStep

LEMMA ReplayOnce ==
  ASSUME TypeOK, OncePlace, NEW t, ReplayBegin(t) \/ ReplayPop(t) PROVE OncePlace'
<1>1. t \in Task /\ Frame(task[t])
  BY AtFacts DEF ReplayBegin, ReplayPop
<1>2. UNCHANGED <<out, server, next>>
  BY DEF ReplayBegin, ReplayPop
<1>3. ASSUME NEW stage \in {"run", "replay"}, UNCHANGED pending,
             Becomes(t, [task[t] EXCEPT !.stage = stage])
      PROVE  OncePlace'
  <2>1. Held' = Held
    BY <1>1, <1>3, StageHeld
  <2> QED
    BY <1>2, <1>3, <2>1, QuietStep, ItemFacts DEF Delivers, Ping
<1>4. CASE ReplayBegin(t)
  BY <1>3, <1>4 DEF ReplayBegin
<1>5. CASE ReplayPop(t) /\ pending = <<>>
  BY <1>3, <1>5 DEF ReplayPop
<1>6. CASE ReplayPop(t) /\ pending # <<>>
  <2>1. Becomes(t, Holding(task[t], Head(pending))) /\ pending' = Tail(pending)
        /\ Head(pending) \in Message
    BY <1>6 DEF ReplayPop, TypeOK
  <2>2. Held' = [Held EXCEPT ![t] = Head(pending)]
    BY <1>1, <2>1, HoldingFacts, HeldFacts
  <2>3. Once([Held EXCEPT ![t] = Head(pending)], Tail(pending), out, server.got, next)
    BY <1>1, <1>6, TypedPlaces, OncePopped
  <2> QED
    BY <1>2, <2>1, <2>2, <2>3 DEF OncePlace
<1> QED
  BY <1>4, <1>5, <1>6

\* The handshake, the PINGs, and flush().
LEMMA PingOnce ==
  ASSUME TypeOK, OncePlace,
         NEW t, \/ RecvInfo(t)
                \/ (PingCheck \/ PingCount) /\ t = Main
                \/ PingSend(t)
                \/ FlushBegin(t)
                \/ FlushReturns(t)
  PROVE  OncePlace'
<1>1. t \in Task /\ Frame(task[t])
  BY AtFacts DEF RecvInfo, Receiving, PingCheck, PingCount, InProcess, PingSend,
                 FlushBegin, FlushReturns, Free
<1>2. UNCHANGED <<pending, next>>
  BY DEF RecvInfo, PingCheck, PingCount, PingSend, FlushBegin, FlushReturns
<1>3. server'.got = server.got /\ out' \in {out, <<>>, Append(out, Ping)}
  <2>1. CASE Disconnect
    BY <2>1, DisconnectFacts, TypeParts
  <2>2. CASE UNCHANGED <<out, server>>
    BY <2>2
  <2>3. CASE PingSend(t)
    BY <2>3, SendFacts, ItemFacts, TypeParts DEF PingSend, PastType
  <2> QED
    BY <2>1, <2>2, <2>3
       DEF RecvInfo, PingCheck, PingCount, FlushBegin, FlushReturns
<1>4. Held' = Held
  <2>1. CASE RecvInfo(t)
    BY <1>1, <2>1, StageHeld DEF RecvInfo
  <2>2. CASE PingCheck /\ t = Main
    <3>1. CASE UNCHANGED task
      BY <3>1 DEF Held
    <3>2. CASE Goto(Main, "ping")
      BY <1>1, <2>2, <3>2, GotoHeld DEF PingCheck, InProcess, At, Publishing
    <3> QED
      BY <2>2, <3>1, <3>2 DEF PingCheck
  <2>3. CASE PingCount /\ t = Main
    BY <1>1, <2>3, GotoHeld DEF PingCount, At, Publishing
  <2>4. CASE PingSend(t)
    BY <1>1, <2>4, GotoHeld DEF PingSend, At, Publishing
  <2>5. CASE FlushBegin(t)
    <3> DEFINE f == Flushing(task[t], "pingsend", task[t].stage, pings, UnderWay)
    <3>1. UnderWay \in SUBSET Message
      BY TypeParts DEF LinkOK, UnderWay, Range, Item
    <3>2. task[t].stage \in {"run", "on_connect"} /\ task[t].pc = "idle" /\ pings \in Int
      BY <1>1, <2>5 DEF FlushBegin, Free, At, Frame, TaskRecord, TypeOK
    <3>3. Frame(f) /\ f.msg = task[t].msg /\ Becomes(t, f)
      BY <1>1, <2>5, <3>1, <3>2, FlushFacts DEF FlushBegin, Publishing
    <3> HIDE DEF f
    <3> QED
      BY <1>1, <3>3, HeldFacts
  <2>6. CASE FlushReturns(t)
    <3> DEFINE f == Flushing(task[t], "idle", "no", 0, {})
    <3>1. Frame(f) /\ f.msg = task[t].msg /\ Becomes(t, f)
      BY <1>1, <2>6, FlushFacts DEF FlushReturns, At, Publishing
    <3> HIDE DEF f
    <3> QED
      BY <1>1, <3>1, HeldFacts
  <2> QED
    BY <2>1, <2>2, <2>3, <2>4, <2>5, <2>6
<1> QED
  BY <1>2, <1>3, <1>4, QuietStep, ItemFacts DEF Delivers, Ping

LEMMA ElsewhereOnce ==
  ASSUME TypeOK, OncePlace, Elsewhere PROVE OncePlace'
<1>1. UNCHANGED <<pending, next, Held>>
  BY DEF Elsewhere, RecvPong, RecvPing, ConnectionEnds, Dial, ProcessDropped,
         HandshakeFails, ServerReads, Environment, TransportDrops, ServerPings, MoodChanges, Held
<1>2. CASE server'.got = server.got /\ out' \in {out, <<>>, Append(out, Pong)}
  BY <1>1, <1>2, QuietStep, ItemFacts DEF Delivers, Pong
<1>3. CASE ServerReads
  <2>1. out # <<>> /\ server' = Parsed(server, Head(out)) /\ out' = Tail(out)
    BY <1>3 DEF ServerReads
  <2>2. Head(out) \in Item /\ server \in ServerType
    BY <2>1 DEF TypeOK, ServerType
  <2>3. /\ Once(Held, pending, Tail(out), server.got, next)
        /\ Delivers(Head(out)) =>
             Once(Held, pending, Tail(out), Append(server.got, Head(out).msg), next)
    BY <2>1, TypedPlaces, OnceRead
  <2>4. \/ server'.got = server.got
        \/ Delivers(Head(out)) /\ server'.got = Append(server.got, Head(out).msg)
    BY <2>1, <2>2, ParsedFacts
  <2> QED
    BY <1>1, <2>1, <2>3, <2>4 DEF OncePlace
<1>4. CASE Disconnect
  BY <1>2, <1>4, DisconnectFacts, TypeParts
<1>5. CASE TransportDrops
  <2>1. EmptyLink
    BY <1>5 DEF TransportDrops
  <2> QED
    BY <1>2, <2>1, EmptyLinkFacts, TypeParts
<1>6. CASE UNCHANGED server /\ out' \in {out, Append(out, Pong)}
  BY <1>2, <1>6
<1>7. CASE LinkFails
  BY <1>2, <1>7, LinkFailsFacts, TypeParts
<1>8. CASE HandshakeFails
  BY <1>2, <1>8, HandshakeFailsFacts, TypeParts
<1> QED
  BY <1>3, <1>4, <1>5, <1>6, <1>7, <1>8
     DEF Elsewhere, RecvPong, RecvPing, ConnectionEnds, Dial, ProcessDropped,
         Environment, ServerPings, MoodChanges

LEMMA InitOnce == Init => OncePlace
<1> SUFFICES ASSUME Init PROVE OncePlace
  OBVIOUS
<1>1. pending = <<>> /\ out = <<>> /\ server.got = <<>> /\ next = 0
  BY DEF Init
<1>2. \A u \in Task : Held[u] = NoMessage
  BY DEF Init, Held, Idle
<1> QED
  BY <1>1, <1>2 DEF OncePlace, Once, Numbered, NotHeld, Distinct, NoMessage

LEMMA NextOnce ==
  ASSUME TypeOK, OncePlace, [Next]_vars PROVE OncePlace'
<1>1. CASE UNCHANGED vars
  BY <1>1 DEF vars, OncePlace, Held
<1>2. CASE Elsewhere
  BY <1>2, ElsewhereOnce
<1>3. CASE PingCheck \/ PingCount
  BY <1>3, PingOnce
<1>4. ASSUME NEW t \in tasks, Application(t) \/ Progress(t) \/ RecvInfo(t)
      PROVE  OncePlace'
  BY <1>4, PublishOnce, PublishCheckOnce, PublishPushOnce, PublishLineOnce,
     PublishPayloadOnce, ReplayOnce, PingOnce
     DEF Application, Progress, FlushTrue, FlushFalse
<1> QED
  BY <1>1, <1>2, <1>3, <1>4 DEF Next, Recv, Process, Elsewhere

\* Buffering, replay and reconnection by any number of tasks never bring a
\* message to the server twice: it leaves the place where it was in the same
\* step in which it enters the next.
THEOREM ReceivedOnceAlways == Spec => []ReceivedOnce
<1>1. Init => TypeOK /\ OncePlace
  BY InitTypeOK, InitOnce
<1>2. (TypeOK /\ OncePlace) /\ [Next]_vars => (TypeOK /\ OncePlace)'
  BY NextTypeOK, NextOnce
<1>3. TypeOK /\ OncePlace => ReceivedOnce
  <2> SUFFICES ASSUME TypeOK, OncePlace PROVE ReceivedOnce
    OBVIOUS
  <2>1. server.got \in Seq(Message)
    BY DEF TypeOK
  <2>2. DOMAIN server.got = 1 .. Len(server.got)
    BY <2>1
  <2> QED
    BY <2>2 DEF OncePlace, Once, Distinct, ReceivedOnce
<1> QED
  BY <1>1, <1>2, <1>3, PTL DEF Spec

-----------------------------------------------------------------------------
(* The limit of the buffer                                                 *)

\* The tasks that found room in the buffer and have not used it yet.
Pushers == {t \in tasks : task[t].pc = "push"}

\* Each of them may have found the last free place, but for one.
Bounded == Len(pending) + Cardinality(Pushers) <= MaxPending + Cardinality(tasks) - 1

LEMMA PushersFinite ==
  ASSUME TypeOK
  PROVE  /\ IsFiniteSet(tasks) /\ Main \in tasks /\ tasks \subseteq Task
         /\ IsFiniteSet(Pushers) /\ Pushers \subseteq tasks
         /\ Cardinality(Pushers) \in Nat /\ Cardinality(tasks) \in Nat
         /\ Len(pending) \in Nat /\ MaxPending \in Nat
<1>1. IsFiniteSet(tasks) /\ Main \in tasks /\ tasks \subseteq Task /\ MaxPending \in Nat
  BY ConstantFacts DEF TypeOK
<1>2. Pushers \subseteq tasks
  BY DEF Pushers
<1>3. IsFiniteSet(Pushers)
  BY <1>1, <1>2, FS_Subset
<1>4. Len(pending) \in Nat
  BY DEF TypeOK
<1> QED
  BY <1>1, <1>2, <1>3, <1>4, FS_CardinalityType

\* A step after which no task is newly about to push, and the buffer is not
\* longer.
LEMMA ShrinkStep ==
  ASSUME TypeOK, TypeOK', Bounded, UNCHANGED tasks, Len(pending') <= Len(pending),
         Pushers' \subseteq Pushers
  PROVE  Bounded'
<1>1. /\ IsFiniteSet(Pushers) /\ Cardinality(Pushers) \in Nat
      /\ Cardinality(tasks) \in Nat /\ Len(pending) \in Nat /\ MaxPending \in Nat
  BY PushersFinite
<1>2. Cardinality(Pushers') <= Cardinality(Pushers) /\ IsFiniteSet(Pushers')
  BY <1>1, FS_Subset
<1>3. Cardinality(Pushers') \in Nat
  BY <1>2, FS_CardinalityType
<1>4. Len(pending') \in Nat
  BY DEF TypeOK
<1> QED
  BY <1>1, <1>2, <1>3, <1>4 DEF Bounded

\* Task t stops, or does not start, being about to push.
LEMMA NotPushing ==
  ASSUME TypeOK, NEW t \in Task, NEW f, Frame(f), f.pc # "push", Becomes(t, f),
         UNCHANGED tasks
  PROVE  Pushers' = Pushers \ {t}
<1>1. task'[t] = f /\ \A u \in Task \ {t} : task'[u] = task[u]
  BY BecomesFacts
<1>2. tasks \subseteq Task
  BY PushersFinite
<1> QED
  BY <1>1, <1>2 DEF Pushers

LEMMA GotoPushers ==
  ASSUME TypeOK, NEW t \in Task, NEW pc \in {"idle", "ping", "pingsend"} \cup Publishing,
         task[t].pc \in Publishing <=> pc \in Publishing, pc # "push", Goto(t, pc),
         UNCHANGED tasks
  PROVE  Pushers' \subseteq Pushers
<1> DEFINE f == [task[t] EXCEPT !.pc = pc]
<1>1. Frame(task[t])
  BY TypedFrames
<1>2. Frame(f) /\ Becomes(t, f)
  BY <1>1, PcFacts DEF Goto
<1>3. f.pc = pc
  BY <1>1 DEF Frame, TaskRecord
<1> HIDE DEF f
<1> QED
  BY <1>2, <1>3, NotPushing

LEMMA PublishedPushers ==
  ASSUME TypeOK, NEW t \in Task, NEW c \in BOOLEAN, Published(t, c), UNCHANGED tasks
  PROVE  Pushers' = Pushers \ {t}
<1>1. Frame(task[t])
  BY TypedFrames
<1>2. Frame(Finished(task[t], c)) /\ Finished(task[t], c).pc = "idle"
  BY <1>1, FinishedFacts
<1> QED
  BY <1>2, NotPushing DEF Published

LEMMA PublishCheckBounded ==
  ASSUME TypeOK, TypeOK', Bounded, ~past.raced, NEW t, PublishCheck(t)
  PROVE  Bounded'
<1>1. t \in Task /\ t \in tasks /\ Frame(task[t]) /\ task[t].pc = "check"
  BY AtFacts DEF PublishCheck
<1>2. UNCHANGED <<tasks, pending>> /\ Len(pending) \in Nat
  BY PushersFinite DEF PublishCheck
<1>3. CASE Published(t, FALSE)
  <2>1. Pushers' \subseteq Pushers
    BY <1>1, <1>2, <1>3, PublishedPushers
  <2> QED
    BY <1>2, <2>1, ShrinkStep
<1>4. CASE Goto(t, "line")
  <2>1. Pushers' \subseteq Pushers
    BY <1>1, <1>2, <1>4, GotoPushers DEF Publishing
  <2> QED
    BY <1>2, <2>1, ShrinkStep
<1>5. CASE Goto(t, "push") /\ Len(pending) < MaxPending
  <2>1. /\ IsFiniteSet(tasks) /\ tasks \subseteq Task /\ IsFiniteSet(Pushers')
        /\ Cardinality(Pushers') \in Nat /\ Cardinality(tasks) \in Nat
        /\ MaxPending \in Nat /\ Pushers' \subseteq tasks
    BY <1>2, PushersFinite, FS_Subset, FS_CardinalityType DEF Pushers
  <2>2. Cardinality(Pushers') <= Cardinality(tasks)
    BY <2>1, FS_Subset
  <2> QED
    BY <1>2, <1>5, <2>1, <2>2 DEF Bounded
<1>6. Published(t, FALSE) \/ Goto(t, "line")
        \/ (Goto(t, "push") /\ Len(pending) < MaxPending)
  BY DEF PublishCheck
<1> QED
  BY <1>3, <1>4, <1>5, <1>6

LEMMA PublishPushBounded ==
  ASSUME TypeOK, TypeOK', Bounded, ~past.raced, ~past'.raced, NEW t, PublishPush(t)
  PROVE  Bounded'
<1>1. t \in Task /\ t \in tasks /\ task[t].pc = "push"
  BY AtFacts DEF PublishPush
<1>2. UNCHANGED tasks /\ pending' = Append(pending, task[t].msg)
  <2>1. past' # [past EXCEPT !.raced = TRUE]
    BY TypeParts DEF PastType
  <2> QED
    BY <2>1 DEF PublishPush
<1>3. Pushers' = Pushers \ {t} /\ t \in Pushers
  BY <1>1, <1>2, PublishedPushers DEF PublishPush, TypeOK, Pushers
<1>4. Len(pending') <= Len(pending) + 1 /\ Len(pending) \in Nat /\ Len(pending') \in Nat
  <2>1. pending \in Seq(Message)
    BY DEF TypeOK
  <2> QED
    BY <1>2, <2>1
<1>5. /\ Cardinality(Pushers') = Cardinality(Pushers) - 1
      /\ Cardinality(Pushers) \in Nat /\ Cardinality(tasks) \in Nat /\ MaxPending \in Nat
  BY <1>3, PushersFinite, FS_RemoveElement
<1> QED
  BY <1>2, <1>4, <1>5 DEF Bounded

LEMMA ReplayBounded ==
  ASSUME TypeOK, TypeOK', Bounded, NEW t, ReplayBegin(t) \/ ReplayPop(t)
  PROVE  Bounded'
<1>1. t \in Task /\ Frame(task[t]) /\ task[t].pc = "idle" /\ UNCHANGED tasks
  BY AtFacts DEF ReplayBegin, ReplayPop
<1>2. Len(pending') <= Len(pending)
  <2>1. pending \in Seq(Message)
    BY DEF TypeOK
  <2>2. pending' = pending \/ (pending # <<>> /\ pending' = Tail(pending))
    BY DEF ReplayBegin, ReplayPop
  <2> QED
    BY <2>1, <2>2
<1>3. ASSUME NEW stage \in {"run", "replay"},
             Becomes(t, [task[t] EXCEPT !.stage = stage])
      PROVE  Pushers' \subseteq Pushers
  <2> DEFINE f == [task[t] EXCEPT !.stage = stage]
  <2>1. Frame(f) /\ f.pc = "idle" /\ Becomes(t, f)
    BY <1>1, <1>3, StageFacts
  <2> HIDE DEF f
  <2> QED
    BY <1>1, <2>1, NotPushing
<1>4. CASE Becomes(t, Holding(task[t], Head(pending))) /\ pending # <<>>
  <2>1. Head(pending) \in Message
    BY <1>4 DEF TypeOK
  <2>2. Frame(Holding(task[t], Head(pending)))
        /\ Holding(task[t], Head(pending)).pc = "check"
    BY <1>1, <2>1, HoldingFacts
  <2>3. Pushers' \subseteq Pushers
    BY <1>1, <1>4, <2>2, NotPushing
  <2> QED
    BY <1>1, <1>2, <2>3, ShrinkStep
<1>5. CASE \E stage \in {"run", "replay"} : Becomes(t, [task[t] EXCEPT !.stage = stage])
  BY <1>1, <1>2, <1>3, <1>5, ShrinkStep
<1> QED
  BY <1>4, <1>5 DEF ReplayBegin, ReplayPop

\* No other step touches the buffer.
LEMMA OtherBounded ==
  ASSUME TypeOK, TypeOK', Bounded,
         NEW t, \/ Publish(t) \/ PublishLine(t) \/ PublishPayload(t)
                \/ RecvInfo(t)
                \/ (PingCheck \/ PingCount) /\ t = Main
                \/ PingSend(t)
                \/ FlushBegin(t)
                \/ FlushReturns(t)
  PROVE  Bounded'
<1>1. t \in Task /\ Frame(task[t]) /\ task[t].pc # "push"
  BY AtFacts DEF Publish, PublishLine, PublishPayload, RecvInfo, Receiving, PingCheck,
                 PingCount, InProcess, PingSend, FlushBegin, FlushReturns, Free
<1>2. UNCHANGED <<tasks, pending>> /\ Len(pending') <= Len(pending)
  BY PushersFinite
     DEF Publish, PublishLine, PublishPayload, RecvInfo, PingCheck, PingCount,
         PingSend, FlushBegin, FlushReturns
<1>3. CASE Publish(t)
  <2>1. Frame(Holding(task[t], next + 1)) /\ Holding(task[t], next + 1).pc = "check"
    BY <1>1, <1>3, HoldingFacts DEF Publish
  <2>2. Pushers' \subseteq Pushers
    BY <1>1, <1>2, <1>3, <2>1, NotPushing DEF Publish
  <2> QED
    BY <1>2, <2>2, ShrinkStep
<1>4. CASE PublishLine(t) \/ PublishPayload(t)
  <2>1. CASE Published(t, conn'.connected)
    <3>1. Pushers' \subseteq Pushers
      BY <1>1, <1>2, <2>1, PublishedPushers DEF TypeOK
    <3> QED
      BY <1>2, <3>1, ShrinkStep
  <2>2. CASE PublishLine(t) /\ Goto(t, "payload")
    <3>1. Pushers' \subseteq Pushers
      BY <1>1, <1>2, <2>2, GotoPushers DEF PublishLine, At, Publishing
    <3> QED
      BY <1>2, <3>1, ShrinkStep
  <2> QED
    BY <1>4, <2>1, <2>2 DEF PublishLine, PublishPayload
<1>5. CASE RecvInfo(t)
  <2> DEFINE f == [task[t] EXCEPT !.stage = "on_connect"]
  <2>1. Frame(f) /\ f.pc # "push" /\ Becomes(t, f)
    BY <1>1, <1>5, StageFacts DEF RecvInfo
  <2> HIDE DEF f
  <2>2. Pushers' \subseteq Pushers
    BY <1>1, <1>2, <2>1, NotPushing
  <2> QED
    BY <1>2, <2>2, ShrinkStep
<1>6. CASE (PingCheck \/ PingCount) /\ t = Main
  <2>1. CASE UNCHANGED task
    BY <1>2, <2>1, ShrinkStep DEF Pushers
  <2>2. CASE Goto(t, "ping") /\ PingCheck
    <3>1. Pushers' \subseteq Pushers
      BY <1>1, <1>2, <1>6, <2>2, GotoPushers DEF PingCheck, InProcess, At, Publishing
    <3> QED
      BY <1>2, <3>1, ShrinkStep
  <2>3. CASE PingCount
    <3>1. Pushers' \subseteq Pushers
      BY <1>1, <1>2, <1>6, <2>3, GotoPushers DEF PingCount, At, Publishing
    <3> QED
      BY <1>2, <3>1, ShrinkStep
  <2> QED
    BY <1>6, <2>1, <2>2, <2>3 DEF PingCheck
<1>7. CASE PingSend(t)
  <2>1. Pushers' \subseteq Pushers
    BY <1>1, <1>2, <1>7, GotoPushers DEF PingSend, At, Publishing
  <2> QED
    BY <1>2, <2>1, ShrinkStep
<1>8. CASE FlushBegin(t)
  <2> DEFINE f == Flushing(task[t], "pingsend", task[t].stage, pings, UnderWay)
  <2>1. UnderWay \in SUBSET Message
    BY TypeParts DEF LinkOK, UnderWay, Range, Item
  <2>2. task[t].stage \in {"run", "on_connect"} /\ task[t].pc = "idle" /\ pings \in Int
    BY <1>1, <1>8 DEF FlushBegin, Free, At, Frame, TaskRecord, TypeOK
  <2>3. Frame(f) /\ f.pc = "pingsend" /\ Becomes(t, f)
    BY <1>1, <1>8, <2>1, <2>2, FlushFacts DEF FlushBegin, Publishing
  <2> HIDE DEF f
  <2>4. Pushers' \subseteq Pushers
    BY <1>1, <1>2, <2>3, NotPushing
  <2> QED
    BY <1>2, <2>4, ShrinkStep
<1>9. CASE FlushReturns(t)
  <2> DEFINE f == Flushing(task[t], "idle", "no", 0, {})
  <2>1. Frame(f) /\ f.pc = "idle" /\ Becomes(t, f)
    BY <1>1, <1>9, FlushFacts DEF FlushReturns, At, Publishing
  <2> HIDE DEF f
  <2>2. Pushers' \subseteq Pushers
    BY <1>1, <1>2, <2>1, NotPushing
  <2> QED
    BY <1>2, <2>2, ShrinkStep
<1> QED
  BY <1>3, <1>4, <1>5, <1>6, <1>7, <1>8, <1>9

LEMMA RacedStays ==
  ASSUME TypeOK, [Next]_vars PROVE past.raced => past'.raced
<1>1. CASE UNCHANGED past
  BY <1>1
<1>2. CASE \E item \in Item : Send(item)
  BY <1>2, SendFacts, TypeParts
<1>3. CASE \E t \in tasks : Publish(t) \/ ReplayBegin(t) \/ PublishPush(t)
  BY <1>3, TypeParts DEF Publish, ReplayBegin, PublishPush, PastType
<1>4. ASSUME NEW t \in tasks, PublishLine(t) \/ PublishPayload(t) \/ PingSend(t)
      PROVE  past.raced => past'.raced
  <2>1. CASE PingSend(t)
    BY <1>2, <2>1, ItemFacts DEF PingSend
  <2>2. CASE PublishLine(t) \/ PublishPayload(t)
    <3>1. task[t].msg \in Message
      BY <2>2, AtFacts DEF PublishLine, PublishPayload, Frame, TaskRecord, Publishing
    <3> QED
      BY <1>1, <1>2, <2>2, <3>1, ItemFacts
         DEF PublishLine, PublishPayload, SendPayload, SendNothing
  <2> QED
    BY <1>4, <2>1, <2>2
<1>5. CASE UNCHANGED vars
  BY <1>1, <1>5 DEF vars
<1>6. CASE Elsewhere
  BY <1>1, <1>6
     DEF Elsewhere, RecvPong, RecvPing, ConnectionEnds, Dial, ProcessDropped,
         HandshakeFails, ServerReads, Environment, TransportDrops, ServerPings, MoodChanges
<1>7. CASE PingCheck \/ PingCount
  BY <1>1, <1>7 DEF PingCheck, PingCount
<1>8. ASSUME NEW t \in tasks,
             \/ FlushBegin(t) \/ FlushReturns(t) \/ PublishCheck(t)
             \/ ReplayPop(t) \/ RecvInfo(t)
      PROVE  past.raced => past'.raced
  BY <1>1, <1>8 DEF FlushBegin, FlushReturns, PublishCheck, ReplayPop, RecvInfo
<1> QED
  BY <1>3, <1>4, <1>5, <1>6, <1>7, <1>8
     DEF Next, Application, Progress, Recv, Process, Elsewhere, FlushTrue, FlushFalse

LEMMA NextBounded ==
  ASSUME TypeOK, TypeOK', ~past.raced => Bounded, [Next]_vars
  PROVE  ~past'.raced => Bounded'
<1> SUFFICES ASSUME ~past'.raced PROVE Bounded'
  OBVIOUS
<1> ~past.raced /\ Bounded
  BY RacedStays
<1>1. CASE UNCHANGED <<tasks, pending, task>>
  BY <1>1 DEF Bounded, Pushers
<1>2. CASE Elsewhere
  BY <1>1, <1>2
     DEF Elsewhere, RecvPong, RecvPing, ConnectionEnds, Dial, ProcessDropped,
         HandshakeFails, ServerReads, Environment, TransportDrops, ServerPings, MoodChanges
<1>3. CASE PingCheck \/ PingCount
  BY <1>3, OtherBounded
<1>4. ASSUME NEW t \in tasks, Application(t) \/ Progress(t) \/ RecvInfo(t)
      PROVE  Bounded'
  BY <1>4, PublishCheckBounded, PublishPushBounded, ReplayBounded, OtherBounded
     DEF Application, Progress, FlushTrue, FlushFalse
<1> QED
  BY <1>1, <1>2, <1>3, <1>4 DEF Next, Recv, Process, Elsewhere, vars

\* The buffer of unsent messages is larger than max_pending_messages by less
\* than the number of tasks that publish, whatever the limit and the tasks:
\* each of them looks at the size once before it pushes.  (As long as no two
\* of them were inside the queue at once.)
THEOREM BufferBounded == Spec => []BufferBound
<1>1. Init => TypeOK /\ (~past.raced => Bounded)
  <2> SUFFICES ASSUME Init PROVE TypeOK /\ Bounded
    OBVIOUS
  <2>1. TypeOK
    BY InitTypeOK
  <2>2. Pushers = {} /\ Len(pending) = 0
    BY PushersFinite, <2>1 DEF Init, Pushers, Idle
  <2>3. Cardinality(tasks) # 0 /\ Cardinality(tasks) \in Nat /\ MaxPending \in Nat
    BY <2>1, PushersFinite, FS_EmptySet
  <2>4. Cardinality(Pushers) = 0
    BY <2>2, FS_EmptySet
  <2> QED
    BY <2>1, <2>2, <2>3, <2>4 DEF Bounded
<1>2. TypeOK /\ (~past.raced => Bounded) /\ [Next]_vars
        => (TypeOK /\ (~past.raced => Bounded))'
  BY NextTypeOK, NextBounded
<1>3. TypeOK /\ (~past.raced => Bounded) => BufferBound
  <2> SUFFICES ASSUME TypeOK, ~past.raced => Bounded PROVE BufferBound
    OBVIOUS
  <2> QED
    BY PushersFinite DEF Bounded, BufferBound
<1> QED
  BY <1>1, <1>2, <1>3, PTL DEF Spec
=============================================================================
