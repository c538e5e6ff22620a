---------------------------- MODULE RequestsProofs ----------------------------
(***************************************************************************)
(* Proofs about the calls of the request layer, for every number of calls, *)
(* subscriptions, chunks and messages asked for, and for any losses of the *)
(* link.                                                                   *)
(***************************************************************************)
EXTENDS Requests, SequenceTheorems, FunctionTheorems, FiniteSetTheorems, TLAPS

-----------------------------------------------------------------------------
(* Sequences                                                               *)

\* Where the lines of a set stand.
Where(L, s) == {k \in 1 .. Len(s) : s[k] \in L}

LEMMA WhereType ==
  ASSUME NEW S, NEW s \in Seq(S), NEW L
  PROVE  IsFiniteSet(Where(L, s)) /\ Cardinality(Where(L, s)) \in Nat
<1>1. Len(s) \in Nat /\ IsFiniteSet(1 .. Len(s))
  BY LenProperties, FS_Interval
<1>2. Where(L, s) \in SUBSET (1 .. Len(s))
  BY DEF Where
<1> QED BY <1>1, <1>2, FS_Subset, FS_CardinalityType

LEMMA Appended ==
  ASSUME NEW S, NEW s \in Seq(S), NEW x \in S, NEW t, t = Append(s, x)
  PROVE  /\ t \in Seq(S) /\ Len(t) = Len(s) + 1 /\ Len(s) \in Nat
         /\ \A k \in 1 .. Len(s) : t[k] = s[k]
         /\ t[Len(s) + 1] = x
BY AppendProperties, LenProperties

LEMMA WhereAppend ==
  ASSUME NEW S, NEW s \in Seq(S), NEW x \in S, NEW L
  PROVE  /\ Where(L, Append(s, x)) = IF x \in L THEN Where(L, s) \cup {Len(s) + 1} ELSE Where(L, s)
         /\ Cardinality(Where(L, Append(s, x))) = Cardinality(Where(L, s)) + (IF x \in L THEN 1 ELSE 0)
<1>1. /\ Len(s) \in Nat /\ IsFiniteSet(Where(L, s)) /\ Cardinality(Where(L, s)) \in Nat
  BY LenProperties, WhereType
<1>2. Where(L, Append(s, x)) = IF x \in L THEN Where(L, s) \cup {Len(s) + 1} ELSE Where(L, s)
  BY <1>1, AppendProperties DEF Where
<1>3. Len(s) + 1 \notin Where(L, s)
  BY <1>1 DEF Where
<1>4. Cardinality(Where(L, s) \cup {Len(s) + 1}) = Cardinality(Where(L, s)) + 1
  BY <1>1, <1>3, FS_AddElement
<1> QED BY <1>1, <1>2, <1>4

LEMMA WhereTail ==
  ASSUME NEW S, NEW s \in Seq(S), s # <<>>, NEW L
  PROVE  /\ \A k \in Where(L, Tail(s)) : k + 1 \in Where(L, s)
         /\ Cardinality(Where(L, s)) = Cardinality(Where(L, Tail(s))) + (IF Head(s) \in L THEN 1 ELSE 0)
<1> DEFINE rest == {k \in Where(L, s) : k # 1}
           f == [k \in Where(L, Tail(s)) |-> k + 1]
<1>1. /\ Tail(s) \in Seq(S) /\ Len(Tail(s)) = Len(s) - 1 /\ Len(s) \in Nat \ {0}
      /\ \A k \in 1 .. Len(Tail(s)) : Tail(s)[k] = s[k + 1]
      /\ Head(s) = s[1]
  BY HeadTailProperties, EmptySeq
<1>2. f \in Bijection(Where(L, Tail(s)), rest)
  <2>1. f \in [Where(L, Tail(s)) -> rest]
    BY <1>1 DEF Where
  <2>2. \A j, k \in Where(L, Tail(s)) : f[j] = f[k] => j = k
    BY <1>1 DEF Where
  <2>3. \A k \in rest : \E j \in Where(L, Tail(s)) : f[j] = k
    <3> TAKE k \in rest
    <3>1. k - 1 \in Where(L, Tail(s))
      BY <1>1 DEF Where
    <3>2. f[k - 1] = k
      <4>1. k \in Int
        BY DEF Where
      <4> QED BY <3>1, <4>1
    <3> QED BY <3>1, <3>2
  <2> QED BY <2>1, <2>2, <2>3, Fun_IsBij
<1> DEFINE n == Cardinality(Where(L, Tail(s)))
<1>3. IsFiniteSet(rest) /\ Cardinality(rest) = n
  BY <1>1, <1>2, WhereType, FS_Bijection DEF ExistsBijection
<1>4. Where(L, s) = IF Head(s) \in L THEN rest \cup {1} ELSE rest
  BY <1>1 DEF Where
<1>5. 1 \notin rest
  OBVIOUS
<1>6. \A k \in Where(L, Tail(s)) : k + 1 \in Where(L, s)
  BY <1>1 DEF Where
<1> HIDE DEF rest
<1>7. n \in Nat
  BY <1>1, WhereType
<1>8. Cardinality(rest \cup {1}) = n + 1
  BY <1>3, <1>5, FS_AddElement
<1>9. Cardinality(Where(L, s)) = n + (IF Head(s) \in L THEN 1 ELSE 0)
  BY <1>3, <1>4, <1>7, <1>8
<1> QED BY <1>6, <1>9

\* Where a line of this kind stands.
Places(kind, s) == {k \in 1 .. Len(s) : s[k].kind = kind}
Count(kind, s) == Cardinality(Places(kind, s))

LEMMA PlacesWhere ==
  ASSUME NEW S, NEW s \in Seq(S), NEW kind
  PROVE  Places(kind, s) = Where({x \in S : x.kind = kind}, s)
<1>1. \A k \in 1 .. Len(s) : s[k] \in S
  BY LenProperties
<1> QED BY <1>1 DEF Places, Where

LEMMA CountType ==
  ASSUME NEW S, NEW s \in Seq(S), NEW kind
  PROVE  IsFiniteSet(Places(kind, s)) /\ Count(kind, s) \in Nat
<1> DEFINE L == {y \in S : y.kind = kind}
<1>1. Places(kind, s) = Where(L, s)
  BY PlacesWhere
<1> HIDE DEF L
<1>2. IsFiniteSet(Where(L, s)) /\ Cardinality(Where(L, s)) \in Nat
  BY WhereType
<1> QED BY <1>1, <1>2 DEF Count

LEMMA CountEmpty ==
  ASSUME NEW kind PROVE Count(kind, <<>>) = 0
<1>1. Places(kind, <<>>) = {}
  BY DEF Places
<1> QED BY <1>1, FS_EmptySet DEF Count

LEMMA CountAppend ==
  ASSUME NEW S, NEW s \in Seq(S), NEW x \in S, NEW kind
  PROVE  Count(kind, Append(s, x)) = Count(kind, s) + (IF x.kind = kind THEN 1 ELSE 0)
<1> DEFINE L == {y \in S : y.kind = kind}
<1>1. Places(kind, s) = Where(L, s) /\ Places(kind, Append(s, x)) = Where(L, Append(s, x))
  <2> DEFINE t == Append(s, x)
  <2>1. t \in Seq(S)
    BY AppendProperties
  <2> HIDE DEF t
  <2>2. Places(kind, s) = Where(L, s) /\ Places(kind, t) = Where(L, t)
    BY <2>1, PlacesWhere
  <2> QED BY <2>2 DEF t
<1>2. x \in L <=> x.kind = kind
  OBVIOUS
<1> HIDE DEF L
<1> QED BY <1>1, <1>2, WhereAppend DEF Count

LEMMA CountTail ==
  ASSUME NEW S, NEW s \in Seq(S), s # <<>>, NEW kind
  PROVE  Count(kind, s) = Count(kind, Tail(s)) + (IF Head(s).kind = kind THEN 1 ELSE 0)
<1> DEFINE L == {y \in S : y.kind = kind}
<1>1. Tail(s) \in Seq(S) /\ Head(s) \in S
  BY HeadTailProperties, EmptySeq
<1>2. Places(kind, s) = Where(L, s) /\ Places(kind, Tail(s)) = Where(L, Tail(s))
  BY <1>1, PlacesWhere
<1>3. Head(s) \in L <=> Head(s).kind = kind
  BY <1>1
<1> HIDE DEF L
<1> QED BY <1>2, <1>3, WhereTail DEF Count

LEMMA CountPrefix ==
  ASSUME NEW S, NEW s \in Seq(S), NEW n \in 0 .. Len(s), NEW kind
  PROVE  /\ SubSeq(s, 1, n) \in Seq(S) /\ Len(SubSeq(s, 1, n)) = n
         /\ \A k \in 1 .. n : SubSeq(s, 1, n)[k] = s[k]
         /\ Count(kind, SubSeq(s, 1, n)) <= Count(kind, s)
<1>1. Len(s) \in Nat /\ \A k \in 1 .. Len(s) : s[k] \in S
  BY LenProperties
<1>2. /\ SubSeq(s, 1, n) \in Seq(S) /\ Len(SubSeq(s, 1, n)) = n
      /\ \A k \in 1 .. n : SubSeq(s, 1, n)[k] = s[k]
  BY <1>1, SubSeqProperties
<1>3. Places(kind, SubSeq(s, 1, n)) \in SUBSET Places(kind, s)
  BY <1>1, <1>2 DEF Places
<1> QED BY <1>2, <1>3, CountType, FS_Subset DEF Count

LEMMA CountConcat ==
  ASSUME NEW S, NEW s \in Seq(S), NEW t \in Seq(S), NEW kind,
         \A k \in 1 .. Len(t) : t[k].kind # kind
  PROVE  Count(kind, s \o t) = Count(kind, s)
<1>1. Len(s) \in Nat /\ Len(t) \in Nat
  BY LenProperties
<1>2. Places(kind, s \o t) = Places(kind, s)
  BY <1>1, ConcatProperties DEF Places
<1> QED BY <1>2 DEF Count

-----------------------------------------------------------------------------
(* The inductive invariant                                                 *)

InApi == {"chunk", "flush", "flushing", "subscribe"}

\* The call that is being made has no id before it subscribes, and is not over.
Current ==
  /\ task.pc \in InApi \cup {"publish"} => calls # <<>> /\ calls[Len(calls)].over = "no"
  /\ task.pc \in InApi => calls[Len(calls)].sid = None

\* A slot is held by the call that got its id and is not over; the free list has
\* empty slots, each once.
Held ==
  \A s \in 1 .. Len(slots) : slots[s] # NoSub =>
    /\ slots[s].call \in 1 .. Len(calls)
    /\ calls[slots[s].call].sid = s
    /\ calls[slots[s].call].over = "no"

Holding ==
  \A c \in 1 .. Len(calls) : calls[c].sid # None /\ calls[c].over = "no" =>
    calls[c].sid \in 1 .. Len(slots) /\ slots[calls[c].sid].call = c

FreeSound ==
  /\ \A k \in 1 .. Len(free) : free[k] \in 1 .. Len(slots) /\ slots[free[k]] = NoSub
  /\ \A j, k \in 1 .. Len(free) : j # k => free[j] # free[k]

\* An answer is the answer to a call.
Answered ==
  \A c \in 1 .. Len(calls) : \A k \in 1 .. Len(calls[c].got) : calls[c].got[k] \in 1 .. Len(calls)

\* What travels under an id belongs to a call that has had it.
Of(call, sid) == call \in 1 .. Len(calls) /\ sid # None /\ calls[call].sid = sid

Addressed ==
  /\ \A k \in 1 .. Len(in) : in[k].kind = "MSG" => Of(in[k].call, in[k].sid)
  /\ \A k \in 1 .. Len(out) : out[k].kind = "SUB" => Of(out[k].call, out[k].sid)
  /\ \A k \in 1 .. Len(out) : out[k].kind = "PUB" => out[k].call \in 1 .. Len(calls)
  /\ \A s \in Sid : srv.serves[s] # None => Of(srv.serves[s], s)

\* Each PING and PONG under way is counted.
Awaited == Count("PING", out) + Count("PONG", in) <= pings

\* Only a client without a connection, or in the handshake, has messages buffered,
\* and none of a call whose time-out it has reported.
Buffered ==
  /\ pending # <<>> => ~conn.connected \/ task.pc \in {"restore", "replay"}
  /\ \A k \in 1 .. Len(pending) :
       pending[k] \in 1 .. Len(calls) /\ calls[pending[k]].over # "timeout"

Rest ==
  /\ Current /\ Held /\ Holding /\ FreeSound /\ Addressed /\ Awaited /\ Buffered
  /\ Answered /\ OwnAnswers

Inv == TypeOK /\ Rest

-----------------------------------------------------------------------------
(* Types                                                                   *)

LEMMA ConstantFacts ==
  /\ MaxCalls \in Nat /\ MaxSubs \in Nat /\ None = 0 /\ None \notin Sid /\ None \notin Call
  /\ Sid \subseteq Nat /\ Call \subseteq Nat
BY RequestsAssumption DEF Sid, Call, None

LEMMA ApiFacts ==
  \A op \in Api : op.wanted \in Nat /\ op.timed \in BOOLEAN /\ op.chunks \in Nat
<1>1. Batch \in Nat /\ Chunks \in Nat
  BY RequestsAssumption
<1>2. ASSUME NEW sub, NEW wanted \in Nat, NEW timed \in BOOLEAN, NEW chunks \in Nat
      PROVE  /\ Op(sub, wanted, timed, chunks).wanted \in Nat
             /\ Op(sub, wanted, timed, chunks).timed \in BOOLEAN
             /\ Op(sub, wanted, timed, chunks).chunks \in Nat
  BY <1>2 DEF Op
<1> DEFINE Fine(op) == op.wanted \in Nat /\ op.timed \in BOOLEAN /\ op.chunks \in Nat
<1>3. \A wanted \in Nat : Fine(RequestWithTimeout(wanted))
  BY <1>2 DEF RequestWithTimeout
<1>4. Fine(Request) /\ Fine(PublishAcked) /\ Fine(Watch) /\ Fine(Notify) /\ Fine(ObjPut)
  BY <1>1, <1>2 DEF Request, PublishAcked, Watch, Notify, ObjPut
<1> HIDE DEF Fine
<1>5. \A op \in Api : Fine(op)
  BY <1>1, <1>3, <1>4
  DEF Api, JetstreamPublish, JetstreamStreamCreate, JetstreamStreamDelete, JetstreamStreamInfo,
      JetstreamConsumerCreate, JetstreamConsumerDelete, JetstreamConsumerCreateOrdered,
      JetstreamConsumerPause, JetstreamConsumerResume, JetstreamPull, JetstreamFetch,
      JetstreamAck, JetstreamNak, JetstreamAckDelay, JetstreamAccountInfo,
      JetstreamDirectGet, JetstreamDirectGetLast,
      KvCreateBucket, KvGet, KvPut, KvDelete, KvPurge, KvKeys, KvWatch, KvHistory,
      ObjCreateBucket, ObjGetInfo, ObjWatchChunks, ObjGet, ObjList, ObjDelete, ObjWatch
<1> QED BY <1>5 DEF Fine

LEMMA LineTypes ==
  ASSUME NEW kind, NEW sid \in {None} \cup Sid, NEW call \in {None} \cup Call
  PROVE  /\ kind \in {"SUB", "UNSUB", "PUB", "CHUNK", "PING"} => Line(kind, sid, call) \in ToServer
         /\ kind \in {"MSG", "PONG"} => Line(kind, sid, call) \in ToClient
         /\ Line(kind, sid, call).kind = kind
         /\ Line(kind, sid, call).sid = sid
         /\ Line(kind, sid, call).call = call
BY DEF Line, ToServer, ToClient

\* What a send does to the link.
LinkTypes ==
  conn' \in ConnRecord /\ out' \in Seq(ToServer) /\ in' \in Seq(ToClient)

LEMMA DisconnectFacts ==
  ASSUME TypeOK, Disconnect
  PROVE  LinkTypes /\ out' = <<>> /\ in' = <<>> /\ ~conn'.connected
<1> DEFINE f == FALSE
<1>1. conn' = [conn EXCEPT !.sock = f, !.connected = f, !.up = f, !.large = f] /\ f \in BOOLEAN
  BY DEF Disconnect
<1>2. conn \in ConnRecord /\ ~f
  BY DEF TypeOK
<1> HIDE DEF f
<1>3. conn' \in ConnRecord /\ conn'.connected = f
  BY <1>1, <1>2 DEF ConnRecord
<1> QED BY <1>2, <1>3, EmptySeq DEF Disconnect, LinkTypes

LEMMA SendFacts ==
  ASSUME TypeOK, NEW line \in ToServer, Send(line)
  PROVE  /\ LinkTypes
         /\ conn'.connected => conn.connected
         /\ \/ out' = Append(out, line) /\ in' = in
            \/ out' = out /\ in' = in
            \/ out' = <<>> /\ in' = <<>>
<1>1. out \in Seq(ToServer) /\ in \in Seq(ToClient) /\ conn \in ConnRecord
  BY DEF TypeOK
<1>2. CASE conn.sock /\ conn.up /\ out' = Append(out, line) /\ UNCHANGED <<conn, in>>
  BY <1>1, <1>2, AppendProperties DEF LinkTypes
<1>3. CASE ~conn.up /\ UNCHANGED <<conn, out, in>>
  BY <1>1, <1>3 DEF LinkTypes
<1>4. CASE conn.connected /\ ~conn.up /\ Disconnect
  BY <1>4, DisconnectFacts
<1> QED BY <1>2, <1>3, <1>4 DEF Send

LEMMA TypedPcs ==
  /\ {"idle", "dialing", "process", "restore", "replay", "publish"} \cup InApi \subseteq Pcs
BY DEF Pcs, InApi

LEMMA PcTypes ==
  ASSUME NEW f \in TaskRecord, NEW pc \in Pcs
  PROVE  [f EXCEPT !.pc = pc] \in TaskRecord /\ [f EXCEPT !.pc = pc].pc = pc
BY DEF TaskRecord

LEMMA TaskTypes ==
  ASSUME NEW f \in TaskRecord, NEW pc \in Pcs, NEW n \in Nat
  PROVE  /\ [f EXCEPT !.i = n] \in TaskRecord /\ [f EXCEPT !.i = n].pc = f.pc
         /\ [f EXCEPT !.i = n, !.pc = pc] \in TaskRecord
         /\ [f EXCEPT !.i = n, !.pc = pc].pc = pc
         /\ [f EXCEPT !.pc = pc, !.initial = n] \in TaskRecord
         /\ [f EXCEPT !.pc = pc, !.initial = n].pc = pc
BY DEF TaskRecord

LEMMA IdleFacts == Idle \in TaskRecord /\ Idle.pc = "idle"
BY DEF Idle, TaskRecord, Pcs

LEMMA GotoFacts ==
  ASSUME TypeOK, NEW pc \in Pcs, Goto(pc)
  PROVE  task' \in TaskRecord /\ task'.pc = pc
BY PcTypes DEF TypeOK, Goto

LEMMA BeginFacts ==
  ASSUME NEW pc \in Pcs, Begin(pc)
  PROVE  task' \in TaskRecord /\ task'.pc = pc
BY PcTypes, IdleFacts DEF Begin

\* A call that changes.
LEMMA CallTypes ==
  ASSUME TypeOK, NEW c \in 1 .. Len(calls), NEW r \in CallRecord, calls' = [calls EXCEPT ![c] = r]
  PROVE  /\ calls' \in Seq(CallRecord) /\ Len(calls') = Len(calls)
         /\ calls'[c] = r
         /\ \A d \in 1 .. Len(calls) : d # c => calls'[d] = calls[d]
BY ExceptSeq DEF TypeOK

LEMMA CallFields ==
  ASSUME NEW r \in CallRecord, NEW sid \in {None} \cup Sid, NEW got \in Seq(Call),
         NEW over \in {"no", "timeout", "offline", "unsubscribed"}, NEW clean \in BOOLEAN
  PROVE  /\ [r EXCEPT !.sid = sid] \in CallRecord
         /\ [r EXCEPT !.sid = sid].sid = sid /\ [r EXCEPT !.sid = sid].over = r.over
         /\ [r EXCEPT !.sid = sid].got = r.got
         /\ [r EXCEPT !.got = got] \in CallRecord /\ [r EXCEPT !.got = got].got = got
         /\ [r EXCEPT !.got = got].sid = r.sid /\ [r EXCEPT !.got = got].over = r.over
         /\ [r EXCEPT !.over = over] \in CallRecord /\ [r EXCEPT !.over = over].over = over
         /\ [r EXCEPT !.over = over].sid = r.sid /\ [r EXCEPT !.over = over].got = r.got
         /\ [r EXCEPT !.clean = clean] \in CallRecord
         /\ [r EXCEPT !.clean = clean].sid = r.sid /\ [r EXCEPT !.clean = clean].over = r.over
         /\ [r EXCEPT !.clean = clean].got = r.got
BY DEF CallRecord

-----------------------------------------------------------------------------
(* The steps that change the calls or the table                            *)

NewCall(r) ==
  r \in CallRecord /\ r.sid = None /\ r.over = "no" /\ r.got = <<>> /\ r.clean = FALSE

LEMMA StartFacts ==
  ASSUME TypeOK, StartCall
  PROVE  /\ \E r : NewCall(r) /\ calls' = Append(calls, r)
         /\ Len(calls) < MaxCalls
         /\ task' \in TaskRecord /\ task.pc = "idle"
         /\ task'.pc \in {"publish"} \cup InApi
<1>1. PICK op \in Api :
        /\ calls' = Append(calls, [op |-> op, sid |-> None, got |-> <<>>, over |-> "no", clean |-> FALSE])
        /\ Begin(FirstStep(op))
  BY DEF StartCall
<1> DEFINE r == [op |-> op, sid |-> None, got |-> <<>>, over |-> "no", clean |-> FALSE]
<1>2. NewCall(r)
  BY EmptySeq DEF NewCall, CallRecord
<1>3. FirstStep(op) \in {"publish"} \cup InApi
  BY DEF FirstStep, InApi
<1>4. task.pc = "idle" /\ task \in TaskRecord /\ Len(calls) < MaxCalls
  BY DEF StartCall, At, This, TypeOK
<1>5. FirstStep(op) \in Pcs
  BY <1>3, TypedPcs
<1>6. task' \in TaskRecord /\ task'.pc \in {"publish"} \cup InApi
  <2> DEFINE pc == FirstStep(op)
  <2>1. pc \in Pcs /\ pc \in {"publish"} \cup InApi /\ Begin(pc)
    BY <1>1, <1>3, <1>5
  <2> HIDE DEF pc
  <2> QED BY <2>1, BeginFacts
<1> QED BY <1>1, <1>2, <1>4, <1>6

LEMMA CurrentFacts ==
  ASSUME TypeOK, Current, task.pc \in InApi \cup {"publish"}
  PROVE  /\ Len(calls) \in 1 .. MaxCalls /\ Len(calls) \in Call /\ Len(calls) \in 1 .. Len(calls)
         /\ calls[Len(calls)] \in CallRecord
         /\ calls[Len(calls)].over = "no"
         /\ task.pc \in InApi => calls[Len(calls)].sid = None
<1>1. calls \in Seq(CallRecord) /\ Len(calls) <= MaxCalls /\ calls # <<>> /\ MaxCalls \in Nat
  BY ConstantFacts DEF TypeOK, Current
<1>2. Len(calls) \in Nat \ {0}
  BY <1>1, EmptySeq
<1>3. calls[Len(calls)] \in CallRecord
  BY <1>1, <1>2
<1> QED BY <1>1, <1>2, <1>3 DEF Current, Call

\* The slots after sub_internal() has put a subscription into slot n.
Filled(n, c) ==
  /\ n \in Sid /\ n \in 1 .. Len(slots')
  /\ n \in 1 .. Len(slots) => slots[n] = NoSub
  /\ slots'[n].call = c
  /\ Len(slots) \in Nat /\ Len(slots') \in Nat /\ Len(slots) <= Len(slots')
  /\ \A s \in 1 .. Len(slots') : s # n => s \in 1 .. Len(slots) /\ slots'[s] = slots[s]
  /\ \A k \in 1 .. Len(free') : free'[k] # n /\ free'[k] \in 1 .. Len(slots) /\ slots[free'[k]] = NoSub
  /\ \A j, k \in 1 .. Len(free') : j # k => free'[j] # free'[k]

LEMMA AllocSidFacts ==
  ASSUME TypeOK, FreeSound, ActiveSubs < MaxSubs, NEW sub \in SubRecord, AllocSid(sub)
  PROVE  /\ Filled(NextSid, sub.call)
         /\ slots' \in Seq(SubRecord \cup {NoSub}) /\ Len(slots') <= MaxSubs
         /\ free' \in Seq(Sid)
<1>1. /\ slots \in Seq(SubRecord \cup {NoSub}) /\ Len(slots) <= MaxSubs /\ free \in Seq(Sid)
      /\ Len(slots) \in Nat /\ Len(free) \in Nat /\ MaxSubs \in Nat
      /\ sub \in SubRecord \cup {NoSub}
  BY LenProperties, ConstantFacts DEF TypeOK
<1>2. CASE free = <<>>
  <2>1. /\ slots' = Append(slots, sub) /\ free' = free /\ NextSid = Len(slots) + 1
        /\ Len(free) = 0 /\ Len(slots) < MaxSubs
    BY <1>1, <1>2 DEF AllocSid, NextSid, ActiveSubs
  <2>2. /\ slots' \in Seq(SubRecord \cup {NoSub}) /\ Len(slots') = Len(slots) + 1
        /\ \A s \in 1 .. Len(slots) : slots'[s] = slots[s]
        /\ slots'[Len(slots) + 1] = sub
    BY <1>1, <2>1, AppendProperties
  <2> QED BY <1>1, <2>1, <2>2 DEF Filled, Sid
<1>3. CASE free # <<>>
  <2>1. /\ Head(free) = free[1] /\ Len(free) \in Nat \ {0} /\ Tail(free) \in Seq(Sid)
        /\ Len(Tail(free)) = Len(free) - 1
        /\ \A k \in 1 .. Len(Tail(free)) : Tail(free)[k] = free[k + 1]
    BY <1>1, <1>3, HeadTailProperties, EmptySeq
  <2>2. /\ slots' = [slots EXCEPT ![free[1]] = sub] /\ free' = Tail(free) /\ NextSid = free[1]
    BY <1>3, <2>1 DEF AllocSid, NextSid
  <2>3. free[1] \in 1 .. Len(slots) /\ slots[free[1]] = NoSub /\ free[1] \in Sid
    BY <1>1, <2>1 DEF FreeSound
  <2>4. /\ slots' \in Seq(SubRecord \cup {NoSub}) /\ Len(slots') = Len(slots)
        /\ \A s \in 1 .. Len(slots) : slots'[s] = IF s = free[1] THEN sub ELSE slots[s]
    BY <1>1, <2>2, <2>3, ExceptSeq
  <2>5. /\ \A k \in 1 .. Len(free') : /\ free'[k] # free[1]
                                      /\ free'[k] \in 1 .. Len(slots)
                                      /\ slots[free'[k]] = NoSub
        /\ \A j, k \in 1 .. Len(free') : j # k => free'[j] # free'[k]
    BY <2>1, <2>2 DEF FreeSound
  <2> QED BY <1>1, <2>1, <2>2, <2>3, <2>4, <2>5 DEF Filled
<1> QED BY <1>2, <1>3

LEMMA SubscribeFacts ==
  ASSUME TypeOK, Current, FreeSound, Subscribe
  PROVE  LET c == Len(calls)
             r == [calls[c] EXCEPT !.sid = NextSid] IN
           /\ c \in 1 .. Len(calls) /\ r \in CallRecord /\ calls' = [calls EXCEPT ![c] = r]
           /\ r.sid = NextSid /\ r.over = "no" /\ r.got = calls[c].got
           /\ r.clean = calls[c].clean
           /\ calls[c].sid = None
           /\ Filled(NextSid, c)
           /\ slots' \in Seq(SubRecord \cup {NoSub}) /\ Len(slots') <= MaxSubs
           /\ free' \in Seq(Sid)
           /\ Line("SUB", NextSid, c) \in ToServer /\ Send(Line("SUB", NextSid, c))
           /\ task' \in TaskRecord /\ task'.pc \in {"idle", "publish"}
<1> DEFINE c == Len(calls)
<1>1. task.pc = "subscribe" /\ task.pc \in InApi
  BY DEF Subscribe, At, InApi
<1>2. /\ c \in Call /\ c \in 1 .. Len(calls) /\ calls[c] \in CallRecord
      /\ calls[c].over = "no" /\ calls[c].sid = None
  BY <1>1, CurrentFacts
<1>3. NewSub \in SubRecord /\ NewSub.call = c
  <2>1. calls[c].op.wanted \in Nat
    BY <1>2, ApiFacts DEF CallRecord
  <2> QED BY <1>2, <2>1 DEF NewSub, SubRecord, This, ThisOp
<1>4. /\ Filled(NextSid, c)
      /\ slots' \in Seq(SubRecord \cup {NoSub}) /\ Len(slots') <= MaxSubs
      /\ free' \in Seq(Sid)
  BY <1>3, AllocSidFacts DEF Subscribe
<1>5. NextSid \in Sid
  BY <1>4 DEF Filled
<1>6. calls' = [calls EXCEPT ![c] = [calls[c] EXCEPT !.sid = NextSid]]
  BY DEF Subscribe, This
<1>7. /\ [calls[c] EXCEPT !.sid = NextSid] \in CallRecord
      /\ [calls[c] EXCEPT !.sid = NextSid].sid = NextSid
      /\ [calls[c] EXCEPT !.sid = NextSid].over = "no"
      /\ [calls[c] EXCEPT !.sid = NextSid].got = calls[c].got
      /\ [calls[c] EXCEPT !.sid = NextSid].clean = calls[c].clean
  BY <1>2, <1>5 DEF CallRecord
<1>8. Line("SUB", NextSid, c) \in ToServer /\ Send(Line("SUB", NextSid, c))
  BY <1>2, <1>5, LineTypes DEF Subscribe, This
<1>9. task' \in TaskRecord /\ task'.pc \in {"idle", "publish"}
  <2>1. PICK pc \in {"idle", "publish"} : Begin(pc)
    BY DEF Subscribe
  <2>2. pc \in Pcs
    BY TypedPcs
  <2> QED BY <2>1, <2>2, BeginFacts
<1> QED BY <1>2, <1>4, <1>6, <1>7, <1>8, <1>9

\* The table after unsubscribe().
Emptied(n) ==
  /\ Len(slots') = Len(slots) /\ slots'[n] = NoSub
  /\ \A s \in 1 .. Len(slots) : s # n => slots'[s] = slots[s]
  /\ Len(free) \in Nat /\ Len(free') = Len(free) + 1
  /\ free'[Len(free) + 1] = n
  /\ \A k \in 1 .. Len(free) : free'[k] = free[k]

LEMMA UnsubscribeFacts ==
  ASSUME TypeOK, NEW sid \in Sid, Taken(sid), Unsubscribe(sid)
  PROVE  /\ Emptied(sid)
         /\ slots' \in Seq(SubRecord \cup {NoSub}) /\ free' \in Seq(Sid)
         /\ LinkTypes
         /\ conn'.connected => conn.connected
         /\ \/ out' = Append(out, Line("UNSUB", sid, None)) /\ in' = in
            \/ out' = out /\ in' = in
            \/ out' = <<>> /\ in' = <<>>
<1>1. /\ slots \in Seq(SubRecord \cup {NoSub}) /\ free \in Seq(Sid) /\ Len(free) \in Nat
      /\ Len(slots) \in Nat /\ sid \in Nat /\ sid \in 1 .. Len(slots)
  BY LenProperties, ConstantFacts DEF TypeOK, Taken, Sid
<1>2. /\ Emptied(sid)
      /\ slots' \in Seq(SubRecord \cup {NoSub}) /\ free' \in Seq(Sid)
  <2>1. slots' = [slots EXCEPT ![sid] = NoSub] /\ free' = Append(free, sid)
    BY DEF Unsubscribe
  <2>2. NoSub \in SubRecord \cup {NoSub}
    OBVIOUS
  <2>3. /\ slots' \in Seq(SubRecord \cup {NoSub}) /\ Len(slots') = Len(slots)
        /\ slots'[sid] = NoSub
        /\ \A s \in 1 .. Len(slots) : s # sid => slots'[s] = slots[s]
    BY <1>1, <2>1, <2>2, ExceptSeq
  <2> QED BY <1>1, <2>1, <2>3, AppendProperties DEF Emptied
<1>3. Line("UNSUB", sid, None) \in ToServer
  BY LineTypes
<1>4. CASE Send(Line("UNSUB", sid, None))
  BY <1>2, <1>3, <1>4, SendFacts
<1>5. CASE UNCHANGED <<conn, out, in>>
  BY <1>2, <1>5 DEF LinkTypes, TypeOK
<1> QED BY <1>4, <1>5 DEF Unsubscribe

LEMMA HolderFacts ==
  ASSUME TypeOK, Held, NEW sid \in Sid, Taken(sid)
  PROVE  /\ sid \in 1 .. Len(slots) /\ slots[sid] \in SubRecord
         /\ slots[sid].call \in 1 .. Len(calls)
         /\ calls[slots[sid].call] \in CallRecord
         /\ calls[slots[sid].call].sid = sid
         /\ calls[slots[sid].call].over = "no"
<1>1. sid \in 1 .. Len(slots) /\ slots[sid] # NoSub
  BY LenProperties, ConstantFacts DEF TypeOK, Taken, Sid
<1>2. slots[sid] \in SubRecord
  BY <1>1, ElementOfSeq DEF TypeOK
<1>3. /\ slots[sid].call \in 1 .. Len(calls)
      /\ calls[slots[sid].call].sid = sid
      /\ calls[slots[sid].call].over = "no"
  BY <1>1 DEF Held
<1> QED BY <1>1, <1>2, <1>3, ElementOfSeq DEF TypeOK

\* A call is given up, by the application or after its time.
Ends(over, sid) ==
  /\ Taken(sid) /\ task.pc \in {"idle", "process"}
  /\ calls' = [calls EXCEPT ![slots[sid].call].over = over]
  /\ Unsubscribe(sid)
  /\ UNCHANGED <<task, pending, pings, srv>>

LEMMA EndsFacts ==
  ASSUME TypeOK, Held, NEW sid \in Sid, NEW over \in {"timeout", "offline", "unsubscribed"}, Ends(over, sid)
  PROVE  \E r \in CallRecord :
           /\ calls' = [calls EXCEPT ![slots[sid].call] = r]
           /\ r.sid = sid /\ r.over = over /\ r.got = calls[slots[sid].call].got
           /\ r.clean = calls[slots[sid].call].clean
<1> DEFINE r == [calls[slots[sid].call] EXCEPT !.over = over]
<1>1. calls[slots[sid].call] \in CallRecord /\ calls[slots[sid].call].sid = sid
  BY HolderFacts DEF Ends
<1>2. /\ r \in CallRecord /\ r.sid = sid /\ r.over = over
      /\ r.got = calls[slots[sid].call].got /\ r.clean = calls[slots[sid].call].clean
  BY <1>1 DEF CallRecord
<1>3. calls' = [calls EXCEPT ![slots[sid].call] = r]
  BY DEF Ends
<1> HIDE DEF r
<1> QED BY <1>2, <1>3

LEMMA GivenUpCases ==
  /\ \A sid \in Sid : AppUnsubscribes(sid) => Ends("unsubscribed", sid)
  /\ \A sid \in Sid : Timeout(sid) => (Ends("timeout", sid) /\ conn.connected) \/ Ends("offline", sid)
BY DEF AppUnsubscribes, Timeout, TimedOut, Ends, At

LEMMA SubFields ==
  ASSUME NEW f \in SubRecord, NEW timer \in {"off", "running", "due"}, NEW marked \in BOOLEAN
  PROVE  /\ [f EXCEPT !.received = @ + 1, !.timer = timer, !.marked = marked] \in SubRecord
         /\ [f EXCEPT !.received = @ + 1, !.timer = timer, !.marked = marked].call = f.call
         /\ [f EXCEPT !.timer = timer] \in SubRecord
         /\ [f EXCEPT !.timer = timer].call = f.call
<1> DEFINE n == f.received + 1
<1>1. n \in Nat
  BY DEF SubRecord
<1> HIDE DEF n
<1>2. /\ [f EXCEPT !.received = n, !.timer = timer, !.marked = marked] \in SubRecord
      /\ [f EXCEPT !.received = n, !.timer = timer, !.marked = marked].call = f.call
  BY <1>1 DEF SubRecord
<1>3. /\ [f EXCEPT !.timer = timer] \in SubRecord
      /\ [f EXCEPT !.timer = timer].call = f.call
  BY DEF SubRecord
<1> QED BY <1>2, <1>3 DEF n

\* A message reaches the callback of whoever holds its id.
LEMMA RecvMsgFacts ==
  ASSUME TypeOK, Held, Addressed, RecvMsg
  PROVE  /\ in # <<>> /\ Head(in).kind = "MSG" /\ in' = Tail(in)
         /\ UNCHANGED <<task, free, pending, conn, pings, out, srv>>
         /\ \/ UNCHANGED <<slots, calls>>
            \/ \E sid \in Sid, sub \in SubRecord, r \in CallRecord :
                 LET c == slots[sid].call IN
                 /\ Taken(sid) /\ sid = Head(in).sid
                 /\ sub.call = c /\ slots' = [slots EXCEPT ![sid] = sub]
                 /\ calls' = [calls EXCEPT ![c] = r]
                 /\ r.sid = calls[c].sid /\ r.over = calls[c].over /\ r.clean = calls[c].clean
                 /\ r.got = Append(calls[c].got, Head(in).call)
<1>1. /\ in # <<>> /\ Head(in).kind = "MSG" /\ in' = Tail(in)
      /\ UNCHANGED <<task, free, pending, conn, pings, out, srv>>
  BY DEF RecvMsg
<1>2. Head(in) \in ToClient
  BY <1>1, HeadTailProperties DEF TypeOK
<1> DEFINE sid == Head(in).sid
           max == slots[sid].wanted > 0 /\ slots[sid].received + 1 >= slots[sid].wanted
<1>3. CASE UNCHANGED <<slots, calls>>
  BY <1>1, <1>3
<1>4. CASE /\ Taken(sid)
           /\ slots' = [slots EXCEPT ![sid] =
                [slots[sid] EXCEPT !.received = @ + 1, !.timer = "off", !.marked = max]]
           /\ calls' = [calls EXCEPT ![slots[sid].call].got = Append(@, Head(in).call)]
  <2>1. sid \in Sid
    <3>1. Len(slots) \in Nat /\ Len(slots) <= MaxSubs /\ MaxSubs \in Nat
      BY LenProperties, ConstantFacts DEF TypeOK
    <3>2. sid \in 1 .. Len(slots)
      BY <1>4 DEF Taken
    <3> QED BY <3>1, <3>2 DEF Sid
  <2>2. /\ slots[sid] \in SubRecord /\ slots[sid].call \in 1 .. Len(calls)
        /\ calls[slots[sid].call] \in CallRecord
    BY <1>4, <2>1, HolderFacts
  <2> DEFINE c == slots[sid].call
             sub == [slots[sid] EXCEPT !.received = @ + 1, !.timer = "off", !.marked = max]
             r == [calls[c] EXCEPT !.got = Append(@, Head(in).call)]
  <2>3. max \in BOOLEAN
    OBVIOUS
  <2>4. sub \in SubRecord /\ sub.call = c
    <3> HIDE DEF max
    <3> QED BY <2>2, <2>3, SubFields
  <2>5. Head(in).call \in Call
    <3>1. in[1] = Head(in) /\ 1 \in 1 .. Len(in) /\ Len(calls) <= MaxCalls /\ Len(calls) \in Nat
      BY <1>1, EmptySeq, LenProperties DEF TypeOK
    <3>2. Head(in).call \in 1 .. Len(calls)
      BY <1>1, <3>1 DEF Addressed, Of
    <3> QED BY <3>1, <3>2, ConstantFacts DEF Call
  <2>6. /\ r \in CallRecord /\ r.sid = calls[c].sid /\ r.over = calls[c].over
        /\ r.clean = calls[c].clean
    BY <2>2, <2>5, AppendProperties DEF CallRecord
  <2>7. r.got = Append(calls[c].got, Head(in).call)
    BY <2>2 DEF CallRecord
  <2>8. slots' = [slots EXCEPT ![sid] = sub] /\ calls' = [calls EXCEPT ![c] = r]
    BY <1>4
  <2> HIDE DEF sub, r
  <2> QED BY <1>1, <1>4, <2>1, <2>4, <2>6, <2>7, <2>8
<1> QED BY <1>1, <1>3, <1>4 DEF RecvMsg

-----------------------------------------------------------------------------
(* The calls and the table                                                 *)

TableTypes ==
  /\ calls \in Seq(CallRecord) /\ Len(calls) <= MaxCalls
  /\ slots \in Seq(SubRecord \cup {NoSub}) /\ Len(slots) <= MaxSubs
  /\ free \in Seq(Sid)

Table == Held /\ Holding /\ FreeSound /\ Answered /\ OwnAnswers

\* Calls are added, keep the id they have had and never come back.
Grows ==
  /\ Len(calls) \in Nat /\ Len(calls') \in Nat /\ Len(calls) <= Len(calls')
  /\ \A c \in 1 .. Len(calls) :
       /\ calls[c].over # "no" => calls'[c].over # "no"
       /\ calls[c].sid # None => calls'[c].sid = calls[c].sid

LEMMA Lengths ==
  ASSUME TypeOK
  PROVE  Len(calls) \in Nat /\ Len(slots) \in Nat /\ Len(free) \in Nat
BY LenProperties DEF TypeOK

LEMMA TakenFacts ==
  ASSUME NEW sub \in SubRecord PROVE sub # NoSub /\ sub.call # None
<1>1. sub.call \in Call /\ NoSub.call = None
  BY DEF SubRecord, NoSub
<1> QED BY <1>1, ConstantFacts

\* Neither who holds what nor who is over changes.
SameHolders ==
  /\ Len(calls') = Len(calls) /\ Len(slots') = Len(slots) /\ free' = free
  /\ \A c \in 1 .. Len(calls) :
       /\ calls'[c].sid = calls[c].sid /\ calls'[c].over = calls[c].over
  /\ \A s \in 1 .. Len(slots) :
       /\ slots'[s] = NoSub <=> slots[s] = NoSub
       /\ slots'[s].call = slots[s].call

LEMMA SameHoldersTable ==
  ASSUME Inv, SameHolders
  PROVE  Held' /\ Holding' /\ FreeSound' /\ Grows
<1>1. Held /\ Holding /\ FreeSound /\ TypeOK
  BY DEF Inv, Rest
<1>2. Held'
  BY <1>1 DEF SameHolders, Held
<1>3. Holding'
  BY <1>1 DEF SameHolders, Holding
<1>4. FreeSound'
  BY <1>1 DEF SameHolders, FreeSound
<1>5. Grows
  BY <1>1, Lengths DEF SameHolders, Grows
<1> QED BY <1>2, <1>3, <1>4, <1>5

LEMMA SameAnswers ==
  ASSUME Inv, Grows,
         \A d \in 1 .. Len(calls') :
           \/ d \in 1 .. Len(calls) /\ calls'[d].got = calls[d].got
           \/ calls'[d].got = <<>>
  PROVE  Answered' /\ OwnAnswers'
<1>1. Answered /\ OwnAnswers
  BY DEF Inv, Rest
<1>2. ASSUME NEW d \in 1 .. Len(calls'), NEW k \in 1 .. Len(calls'[d].got)
      PROVE  /\ calls'[d].got[k] \in 1 .. Len(calls')
             /\ calls'[d].got[k] # d => calls'[calls'[d].got[k]].over # "no"
  <2>1. d \in 1 .. Len(calls) /\ calls'[d].got = calls[d].got
    BY <1>2
  <2>2. /\ calls[d].got[k] \in 1 .. Len(calls)
        /\ calls[d].got[k] # d => calls[calls[d].got[k]].over # "no"
    BY <1>1, <1>2, <2>1 DEF Answered, OwnAnswers
  <2> QED BY <2>1, <2>2 DEF Grows
<1> QED BY <1>2 DEF Answered, OwnAnswers

LEMMA FlushBeginFacts ==
  ASSUME TypeOK, Current, FlushBegin
  PROVE  /\ Len(calls) \in 1 .. Len(calls)
         /\ \E r \in CallRecord :
              /\ calls' = [calls EXCEPT ![Len(calls)] = r]
              /\ r.sid = calls[Len(calls)].sid /\ r.over = calls[Len(calls)].over
              /\ r.got = calls[Len(calls)].got
              /\ r.clean = (pings = 0 /\ conn.large)
<1> DEFINE c == Len(calls)
           clean == pings = 0 /\ conn.large
           r == [calls[c] EXCEPT !.clean = clean]
<1>1. c \in 1 .. Len(calls) /\ calls[c] \in CallRecord
  BY CurrentFacts DEF FlushBegin, At, InApi
<1>2. clean \in BOOLEAN
  BY DEF TypeOK, ConnRecord
<1>3. /\ r \in CallRecord /\ r.sid = calls[c].sid /\ r.over = calls[c].over
      /\ r.got = calls[c].got /\ r.clean = clean
  <2> HIDE DEF clean
  <2> QED BY <1>1, <1>2 DEF CallRecord
<1>4. calls' = [calls EXCEPT ![c] = r]
  BY DEF FlushBegin, This
<1> QED BY <1>1, <1>3, <1>4

LEMMA FlushBeginTable ==
  ASSUME Inv, FlushBegin
  PROVE  TableTypes' /\ Table' /\ Grows
<1>1. TypeOK /\ OwnAnswers /\ Current
  BY DEF Inv, Rest
<1> DEFINE c == Len(calls)
<1>2. PICK r \in CallRecord : /\ calls' = [calls EXCEPT ![c] = r]
                              /\ r.sid = calls[c].sid /\ r.over = calls[c].over
                              /\ r.got = calls[c].got
  BY <1>1, FlushBeginFacts
<1>4. c \in 1 .. Len(calls)
  BY <1>1, FlushBeginFacts
<1>5. UNCHANGED <<slots, free>>
  BY DEF FlushBegin
<1> HIDE DEF c
<1>6. /\ calls' \in Seq(CallRecord) /\ Len(calls') = Len(calls) /\ calls'[c] = r
      /\ \A d \in 1 .. Len(calls) : d # c => calls'[d] = calls[d]
  BY <1>1, <1>2, <1>4, CallTypes
<1>7. SameHolders
  BY <1>2, <1>5, <1>6 DEF SameHolders
<1>8. TableTypes'
  BY <1>1, <1>5, <1>6 DEF TypeOK, TableTypes
<1>9. \A d \in 1 .. Len(calls') : d \in 1 .. Len(calls) /\ calls'[d].got = calls[d].got
  BY <1>2, <1>6
<1> QED BY <1>7, <1>8, <1>9, SameHoldersTable, SameAnswers DEF Table

LEMMA TickTable ==
  ASSUME Inv, NEW sid \in Sid, Tick(sid)
  PROVE  TableTypes' /\ Table' /\ Grows
<1>1. TypeOK /\ OwnAnswers /\ Held /\ Taken(sid)
  BY DEF Inv, Rest, Tick
<1> DEFINE timer == "due"
           sub == [slots[sid] EXCEPT !.timer = timer]
<1>2. sid \in 1 .. Len(slots) /\ slots[sid] \in SubRecord
  BY <1>1, HolderFacts
<1>3. timer \in {"off", "running", "due"}
  OBVIOUS
<1>4. slots' = [slots EXCEPT ![sid] = sub] /\ UNCHANGED <<calls, free>>
  BY DEF Tick
<1>5. sub \in SubRecord /\ sub.call = slots[sid].call
  <2> HIDE DEF timer
  <2> QED BY <1>2, <1>3 DEF SubRecord
<1>6. sub # NoSub /\ slots[sid] # NoSub
  BY <1>2, <1>5, TakenFacts
<1> HIDE DEF sub
<1>7. /\ slots' \in Seq(SubRecord \cup {NoSub}) /\ Len(slots') = Len(slots)
      /\ slots'[sid] = sub
      /\ \A s \in 1 .. Len(slots) : s # sid => slots'[s] = slots[s]
  <2>1. slots \in Seq(SubRecord \cup {NoSub}) /\ sub \in SubRecord \cup {NoSub}
    BY <1>1, <1>5 DEF TypeOK
  <2> QED BY <1>2, <1>4, <2>1, ExceptSeq
<1>8. SameHolders
  BY <1>4, <1>5, <1>6, <1>7 DEF SameHolders
<1>9. TableTypes'
  BY <1>1, <1>4, <1>7 DEF TypeOK, TableTypes
<1> QED BY <1>4, <1>8, <1>9, SameHoldersTable, SameAnswers DEF Table

LEMMA UnchangedTable ==
  ASSUME Inv, UNCHANGED <<calls, slots, free>>
  PROVE  TableTypes' /\ Table' /\ Grows
<1>1. TypeOK
  BY DEF Inv, Rest
<1>2. SameHolders
  BY DEF SameHolders
<1>3. TableTypes'
  BY <1>1 DEF TypeOK, TableTypes
<1> QED BY <1>2, <1>3, SameHoldersTable, SameAnswers DEF Table

LEMMA RecvMsgTable ==
  ASSUME Inv, RecvMsg
  PROVE  TableTypes' /\ Table' /\ Grows
<1>1. TypeOK /\ OwnAnswers /\ Answered /\ Held /\ Holding /\ Addressed
  BY DEF Inv, Rest
<1>2. CASE UNCHANGED <<slots, calls>>
  BY <1>1, <1>2, RecvMsgFacts, UnchangedTable
<1>3. ASSUME NEW sid \in Sid, NEW sub \in SubRecord, NEW r \in CallRecord,
             LET c == slots[sid].call IN
             /\ Taken(sid) /\ sid = Head(in).sid
             /\ sub.call = c /\ slots' = [slots EXCEPT ![sid] = sub]
             /\ calls' = [calls EXCEPT ![c] = r]
             /\ r.sid = calls[c].sid /\ r.over = calls[c].over
             /\ r.got = Append(calls[c].got, Head(in).call)
      PROVE  TableTypes' /\ Table' /\ Grows
  <2> DEFINE c == slots[sid].call
  <2>1. /\ sid \in 1 .. Len(slots) /\ slots[sid] \in SubRecord
        /\ c \in 1 .. Len(calls) /\ calls[c] \in CallRecord
    BY <1>1, <1>3, HolderFacts
  <2>2. sub # NoSub /\ slots[sid] # NoSub
    BY <2>1, TakenFacts
  <2>3. /\ calls' \in Seq(CallRecord) /\ Len(calls') = Len(calls) /\ calls'[c] = r
        /\ \A d \in 1 .. Len(calls) : d # c => calls'[d] = calls[d]
    BY <1>1, <1>3, <2>1, CallTypes
  <2>4. /\ slots' \in Seq(SubRecord \cup {NoSub}) /\ Len(slots') = Len(slots)
        /\ slots'[sid] = sub
        /\ \A s \in 1 .. Len(slots) : s # sid => slots'[s] = slots[s]
    <3>1. slots \in Seq(SubRecord \cup {NoSub}) /\ sub \in SubRecord \cup {NoSub}
      BY <1>1 DEF TypeOK
    <3>2. slots' = [slots EXCEPT ![sid] = sub]
      BY <1>3
    <3> QED BY <2>1, <3>1, <3>2, ExceptSeq
  <2>5. free' = free
    BY <1>1, RecvMsgFacts
  <2>6. SameHolders
    BY <1>3, <2>2, <2>3, <2>4, <2>5 DEF SameHolders
  <2>7. TableTypes'
    BY <1>1, <2>3, <2>4, <2>5 DEF TypeOK, TableTypes
  <2>8. \A d \in 1 .. Len(calls) : calls'[d].over = calls[d].over
    BY <2>6 DEF SameHolders
  <2>9. /\ calls[c].got \in Seq(Call)
        /\ Len(calls[c].got) \in Nat /\ Len(r.got) = Len(calls[c].got) + 1
        /\ \A k \in 1 .. Len(calls[c].got) : r.got[k] = calls[c].got[k]
        /\ r.got[Len(calls[c].got) + 1] = Head(in).call
        /\ Head(in).call \in 1 .. Len(calls)
        /\ calls[Head(in).call].sid = sid /\ sid # None
    <3>1. in # <<>> /\ Head(in).kind = "MSG" /\ in \in Seq(ToClient)
      BY <1>1, RecvMsgFacts DEF TypeOK
    <3>2. in[1] = Head(in) /\ 1 \in 1 .. Len(in)
      BY <3>1, EmptySeq, HeadTailProperties
    <3>3. Of(Head(in).call, Head(in).sid)
      BY <1>1, <3>1, <3>2 DEF Addressed
    <3>4. Len(calls) \in Nat /\ Len(calls) <= MaxCalls /\ MaxCalls \in Nat
      BY <1>1, Lengths, ConstantFacts DEF TypeOK
    <3>5. Head(in).call \in Call
      BY <3>3, <3>4 DEF Of, Call
    <3>6. calls[c].got \in Seq(Call)
      BY <2>1 DEF CallRecord
    <3>7. r.got = Append(calls[c].got, Head(in).call) /\ sid = Head(in).sid
      BY <1>3
    <3>8. /\ Len(r.got) = Len(calls[c].got) + 1
          /\ \A k \in 1 .. Len(calls[c].got) : r.got[k] = calls[c].got[k]
          /\ r.got[Len(calls[c].got) + 1] = Head(in).call
      <4> DEFINE g == calls[c].got
                 x == Head(in).call
      <4>1. g \in Seq(Call) /\ x \in Call /\ r.got = Append(g, x)
        BY <3>5, <3>6, <3>7
      <4> HIDE DEF g, x
      <4>2. /\ Len(r.got) = Len(g) + 1 /\ r.got[Len(g) + 1] = x
            /\ \A k \in 1 .. Len(g) : r.got[k] = g[k]
        BY <4>1, Appended
      <4> QED BY <4>2 DEF g, x
    <3>9. Len(calls[c].got) \in Nat
      BY <3>6, LenProperties
    <3> QED BY <3>3, <3>6, <3>7, <3>8, <3>9 DEF Of
  <2>10. ASSUME NEW d \in 1 .. Len(calls), NEW k \in 1 .. Len(calls'[d].got)
         PROVE  /\ calls'[d].got[k] \in 1 .. Len(calls)
                /\ calls'[d].got[k] # d => calls'[calls'[d].got[k]].over # "no"
    <3>1. CASE d # c \/ k # Len(calls[c].got) + 1
      <4>1. k \in 1 .. Len(calls[d].got) /\ calls'[d].got[k] = calls[d].got[k]
        <5>1. CASE d # c
          BY <2>3, <2>10, <5>1
        <5>2. CASE d = c
          <6>1. calls'[d].got = r.got /\ k \in 1 .. Len(r.got)
            BY <2>3, <2>10, <5>2
          <6>2. k \in 1 .. Len(calls[c].got)
            BY <2>9, <3>1, <5>2, <6>1
          <6> QED BY <2>9, <5>2, <6>1, <6>2
        <5> QED BY <5>1, <5>2
      <4>2. /\ calls[d].got[k] \in 1 .. Len(calls)
            /\ calls[d].got[k] # d => calls[calls[d].got[k]].over # "no"
        BY <1>1, <4>1 DEF Answered, OwnAnswers
      <4> QED BY <2>8, <4>1, <4>2
    <3>2. CASE d = c /\ k = Len(calls[c].got) + 1
      <4>1. calls'[d].got[k] = Head(in).call
        BY <2>3, <2>9, <3>2
      <4>2. Head(in).call # c => calls[Head(in).call].over # "no"
        BY <1>1, <2>9 DEF Holding
      <4> QED BY <2>8, <2>9, <3>2, <4>1, <4>2
    <3> QED BY <3>1, <3>2
  <2>11. Answered' /\ OwnAnswers'
    BY <2>3, <2>10 DEF Answered, OwnAnswers
  <2> QED BY <2>6, <2>7, <2>11, SameHoldersTable DEF Table
<1> QED BY <1>1, <1>2, <1>3, RecvMsgFacts

LEMMA StartTable ==
  ASSUME Inv, StartCall
  PROVE  TableTypes' /\ Table' /\ Grows
<1>1. TypeOK /\ Held /\ Holding /\ FreeSound
  BY DEF Inv, Rest
<1>2. PICK r : NewCall(r) /\ calls' = Append(calls, r)
  BY <1>1, StartFacts
<1>3. r \in CallRecord /\ r.sid = None /\ r.over = "no" /\ r.got = <<>>
  BY <1>2 DEF NewCall
<1>4. UNCHANGED <<slots, free>>
  BY DEF StartCall
<1>5. /\ calls' \in Seq(CallRecord) /\ Len(calls') = Len(calls) + 1 /\ Len(calls) \in Nat
      /\ \A d \in 1 .. Len(calls) : calls'[d] = calls[d]
      /\ calls'[Len(calls) + 1] = r
  BY <1>1, <1>2, <1>3, Appended DEF TypeOK
<1>6. Len(calls) < MaxCalls /\ MaxCalls \in Nat
  BY <1>1, StartFacts, ConstantFacts
<1>7. TableTypes'
  BY <1>1, <1>4, <1>5, <1>6 DEF TypeOK, TableTypes
<1>8. Grows
  BY <1>5 DEF Grows
<1>9. \A d \in 1 .. Len(calls') :
        \/ d \in 1 .. Len(calls) /\ calls'[d].got = calls[d].got
        \/ calls'[d].got = <<>>
  BY <1>3, <1>5
<1>10. Held'
  BY <1>1, <1>4, <1>5 DEF Held
<1>11. Holding'
  <2> SUFFICES ASSUME NEW d \in 1 .. Len(calls'), calls'[d].sid # None, calls'[d].over = "no"
               PROVE  calls'[d].sid \in 1 .. Len(slots) /\ slots[calls'[d].sid].call = d
    BY <1>4 DEF Holding
  <2>1. d \in 1 .. Len(calls) /\ calls'[d] = calls[d]
    BY <1>3, <1>5
  <2> QED BY <1>1, <2>1 DEF Holding
<1>12. FreeSound'
  BY <1>1, <1>4 DEF FreeSound
<1> QED BY <1>7, <1>8, <1>9, <1>10, <1>11, <1>12, SameAnswers DEF Table

LEMMA SubscribeTable ==
  ASSUME Inv, Subscribe
  PROVE  TableTypes' /\ Table' /\ Grows
<1>1. TypeOK /\ Held /\ Holding /\ FreeSound /\ Current
  BY DEF Inv, Rest
<1> DEFINE c == Len(calls)
           n == NextSid
           r == [calls[c] EXCEPT !.sid = n]
<1>2. /\ c \in 1 .. Len(calls) /\ r \in CallRecord /\ calls' = [calls EXCEPT ![c] = r]
      /\ r.sid = n /\ r.over = "no" /\ r.got = calls[c].got
      /\ calls[c].sid = None /\ Filled(n, c)
      /\ slots' \in Seq(SubRecord \cup {NoSub}) /\ Len(slots') <= MaxSubs
      /\ free' \in Seq(Sid)
  BY <1>1, SubscribeFacts
<1> HIDE DEF c, n, r
<1>3. /\ calls' \in Seq(CallRecord) /\ Len(calls') = Len(calls) /\ calls'[c] = r
      /\ \A d \in 1 .. Len(calls) : d # c => calls'[d] = calls[d]
  BY <1>1, <1>2, CallTypes
<1>4. TableTypes'
  BY <1>1, <1>2, <1>3 DEF TypeOK, TableTypes
<1>5. Grows
  <2>1. calls[c].over = "no"
    BY <1>1, CurrentFacts DEF Subscribe, At, InApi, c
  <2> QED BY <1>1, <1>2, <1>3, <2>1, Lengths DEF Grows
<1>6. \A d \in 1 .. Len(calls') : d \in 1 .. Len(calls) /\ calls'[d].got = calls[d].got
  BY <1>2, <1>3
<1>7. Held'
  <2> SUFFICES ASSUME NEW s \in 1 .. Len(slots'), slots'[s] # NoSub
               PROVE  /\ slots'[s].call \in 1 .. Len(calls')
                      /\ calls'[slots'[s].call].sid = s
                      /\ calls'[slots'[s].call].over = "no"
    BY DEF Held
  <2>1. CASE s = n
    BY <1>2, <1>3, <2>1 DEF Filled
  <2>2. CASE s # n
    <3>1. s \in 1 .. Len(slots) /\ slots'[s] = slots[s]
      BY <1>2, <2>2 DEF Filled
    <3>2. /\ slots[s].call \in 1 .. Len(calls) /\ calls[slots[s].call].sid = s
          /\ calls[slots[s].call].over = "no"
      BY <1>1, <3>1 DEF Held
    <3>3. s # None
      BY ConstantFacts
    <3>4. slots[s].call # c
      BY <1>2, <3>2, <3>3
    <3> QED BY <1>3, <3>1, <3>2, <3>4
  <2> QED BY <2>1, <2>2
<1>8. Holding'
  <2> SUFFICES ASSUME NEW d \in 1 .. Len(calls'), calls'[d].sid # None, calls'[d].over = "no"
               PROVE  calls'[d].sid \in 1 .. Len(slots') /\ slots'[calls'[d].sid].call = d
    BY DEF Holding
  <2>1. CASE d = c
    BY <1>2, <1>3, <2>1 DEF Filled
  <2>2. CASE d # c
    <3>1. d \in 1 .. Len(calls) /\ calls'[d] = calls[d]
      BY <1>3, <2>2
    <3>2. calls[d].sid \in 1 .. Len(slots) /\ slots[calls[d].sid].call = d
      BY <1>1, <3>1 DEF Holding
    <3>3. NoSub.call = None /\ d # None
      BY ConstantFacts DEF NoSub
    <3>4. calls[d].sid # n
      BY <1>2, <3>2, <3>3 DEF Filled
    <3>5. calls[d].sid \in 1 .. Len(slots')
      BY <1>2, <3>2 DEF Filled
    <3> QED BY <1>2, <3>1, <3>2, <3>4, <3>5 DEF Filled
  <2> QED BY <2>1, <2>2
<1>9. FreeSound'
  <2>1. ASSUME NEW k \in 1 .. Len(free')
        PROVE  free'[k] \in 1 .. Len(slots') /\ slots'[free'[k]] = NoSub
    BY <1>2, <2>1 DEF Filled
  <2> QED BY <1>2, <2>1 DEF FreeSound, Filled
<1> QED BY <1>4, <1>5, <1>6, <1>7, <1>8, <1>9, SameAnswers DEF Table

LEMMA EndsTable ==
  ASSUME Inv, NEW sid \in Sid, NEW over \in {"timeout", "offline", "unsubscribed"}, Ends(over, sid)
  PROVE  TableTypes' /\ Table' /\ Grows
<1>1. TypeOK /\ Held /\ Holding /\ FreeSound
  BY DEF Inv, Rest
<1> DEFINE c == slots[sid].call
<1>2. PICK r \in CallRecord : /\ calls' = [calls EXCEPT ![c] = r]
                              /\ r.sid = sid /\ r.over = over /\ r.got = calls[c].got
  BY <1>1, EndsFacts
<1>3. /\ sid \in 1 .. Len(slots) /\ slots[sid] \in SubRecord /\ c \in 1 .. Len(calls)
      /\ calls[c].sid = sid /\ calls[c].over = "no"
  BY <1>1, HolderFacts DEF Ends
<1>4. Emptied(sid) /\ slots' \in Seq(SubRecord \cup {NoSub}) /\ free' \in Seq(Sid)
  BY <1>1, UnsubscribeFacts DEF Ends
<1>5. slots[sid] # NoSub
  BY <1>3, TakenFacts
<1>6. /\ calls' \in Seq(CallRecord) /\ Len(calls') = Len(calls) /\ calls'[c] = r
      /\ \A d \in 1 .. Len(calls) : d # c => calls'[d] = calls[d]
  BY <1>1, <1>2, <1>3, CallTypes
<1> HIDE DEF c
<1>7. TableTypes'
  BY <1>1, <1>4, <1>6 DEF TypeOK, TableTypes, Emptied
<1>8. over # "no"
  OBVIOUS
<1>9. Grows
  BY <1>1, <1>2, <1>3, <1>6, <1>8, Lengths DEF Grows
<1>10. \A d \in 1 .. Len(calls') : d \in 1 .. Len(calls) /\ calls'[d].got = calls[d].got
  BY <1>2, <1>6
<1>11. Held'
  <2> SUFFICES ASSUME NEW s \in 1 .. Len(slots'), slots'[s] # NoSub
               PROVE  /\ slots'[s].call \in 1 .. Len(calls')
                      /\ calls'[slots'[s].call].sid = s
                      /\ calls'[slots'[s].call].over = "no"
    BY DEF Held
  <2>1. s # sid /\ s \in 1 .. Len(slots) /\ slots'[s] = slots[s]
    BY <1>4 DEF Emptied
  <2>2. /\ slots[s].call \in 1 .. Len(calls) /\ calls[slots[s].call].sid = s
        /\ calls[slots[s].call].over = "no"
    BY <1>1, <2>1 DEF Held
  <2>3. slots[s].call # c
    BY <1>3, <2>1, <2>2
  <2> QED BY <1>6, <2>1, <2>2, <2>3
<1>12. Holding'
  <2> SUFFICES ASSUME NEW d \in 1 .. Len(calls'), calls'[d].sid # None, calls'[d].over = "no"
               PROVE  calls'[d].sid \in 1 .. Len(slots') /\ slots'[calls'[d].sid].call = d
    BY DEF Holding
  <2>1. d # c /\ d \in 1 .. Len(calls) /\ calls'[d] = calls[d]
    BY <1>2, <1>6, <1>8
  <2>2. calls[d].sid \in 1 .. Len(slots) /\ slots[calls[d].sid].call = d
    BY <1>1, <2>1 DEF Holding
  <2>3. calls[d].sid # sid
    BY <2>1, <2>2 DEF c
  <2> QED BY <1>4, <2>1, <2>2, <2>3 DEF Emptied
<1>13. FreeSound'
  <2>1. \A k \in 1 .. Len(free) : free[k] # sid /\ free[k] \in 1 .. Len(slots) /\ slots[free[k]] = NoSub
    BY <1>1, <1>5 DEF FreeSound
  <2>2. \A k \in 1 .. Len(free') : free'[k] \in 1 .. Len(slots') /\ slots'[free'[k]] = NoSub
    BY <1>3, <1>4, <2>1 DEF Emptied
  <2>3. \A j, k \in 1 .. Len(free') : j # k => free'[j] # free'[k]
    <3>1. \A k \in 1 .. Len(free') :
            \/ k \in 1 .. Len(free) /\ free'[k] = free[k] /\ free'[k] # sid
            \/ k = Len(free) + 1 /\ free'[k] = sid
      BY <1>4, <2>1 DEF Emptied
    <3>2. \A j, k \in 1 .. Len(free) : j # k => free[j] # free[k]
      BY <1>1 DEF FreeSound
    <3> QED BY <3>1, <3>2
  <2> QED BY <2>2, <2>3 DEF FreeSound
<1> QED BY <1>7, <1>9, <1>10, <1>11, <1>12, <1>13, SameAnswers DEF Table

\* The other steps leave the calls and the table alone.
LEMMA NextTable ==
  ASSUME Inv, Next
  PROVE  TableTypes' /\ Table' /\ Grows
<1>1. CASE StartCall
  BY <1>1, StartTable
<1>2. CASE Subscribe
  BY <1>2, SubscribeTable
<1>3. CASE FlushBegin
  BY <1>3, FlushBeginTable
<1>4. CASE RecvMsg
  BY <1>4, RecvMsgTable
<1>5. CASE \E sid \in Sid : AppUnsubscribes(sid) \/ Timeout(sid)
  BY <1>5, GivenUpCases, EndsTable
<1>6. CASE \E sid \in Sid : Tick(sid)
  BY <1>6, TickTable
<1>7. CASE \/ SubscribeFails \/ Publish \/ Chunk \/ FlushTrue \/ FlushFalse
           \/ Restore \/ RestoreEnd \/ Replay \/ ReplayEnd
           \/ LinkBreaks \/ ServerReads \/ RecvPong \/ RecvEnd \/ KeepAlive
           \/ ProcessBegin \/ ProcessEnd \/ Dial \/ RecvInfo \/ HandshakeFails
  BY <1>7, UnchangedTable
  DEF SubscribeFails, Publish, Chunk, FlushTrue, FlushFalse, Restore, RestoreEnd, Replay,
      ReplayEnd, LinkBreaks, ServerReads, RecvPong, RecvEnd, KeepAlive, ProcessBegin, ProcessEnd,
      Dial, RecvInfo, HandshakeFails
<1> QED BY <1>1, <1>2, <1>3, <1>4, <1>5, <1>6, <1>7 DEF Next, InCall, Process

-----------------------------------------------------------------------------
(* The link                                                                *)

\* Of after the step.
NextOf(call, sid) == call \in 1 .. Len(calls') /\ sid # None /\ calls'[call].sid = sid

\* A step that sends one line.
Sent(line) ==
  /\ Send(line) /\ srv' = srv
  /\ pings' = IF line.kind = "PING" THEN pings + 1 ELSE pings
  /\ line.kind = "SUB" => NextOf(line.call, line.sid)
  /\ line.kind = "PUB" => line.call \in 1 .. Len(calls) /\ calls[line.call].over # "timeout"

LEMMA OtherLine ==
  ASSUME NEW kind \in {"UNSUB", "CHUNK", "PING"}, NEW sid \in {None} \cup Sid,
         NEW call \in {None} \cup Call, Send(Line(kind, sid, call)), srv' = srv,
         pings' = IF kind = "PING" THEN pings + 1 ELSE pings
  PROVE  \E line \in ToServer : Sent(line)
<1>1. /\ Line(kind, sid, call) \in ToServer /\ Line(kind, sid, call).kind = kind
  BY LineTypes
<1>2. kind # "SUB" /\ kind # "PUB"
  OBVIOUS
<1>3. Sent(Line(kind, sid, call))
  BY <1>1, <1>2 DEF Sent
<1> QED BY <1>1, <1>3

LEMMA PubLine ==
  ASSUME TypeOK, NEW call \in 1 .. Len(calls), calls[call].over # "timeout",
         Send(Line("PUB", None, call)), UNCHANGED <<srv, pings>>
  PROVE  \E line \in ToServer : Sent(line)
<1>1. call \in Call
  BY Lengths, ConstantFacts DEF TypeOK, Call
<1>2. /\ Line("PUB", None, call) \in ToServer /\ Line("PUB", None, call).kind = "PUB"
      /\ Line("PUB", None, call).call = call
  BY <1>1, LineTypes
<1>3. Sent(Line("PUB", None, call))
  BY <1>2 DEF Sent
<1> QED BY <1>2, <1>3

LEMMA SubLine ==
  ASSUME NEW sid \in Sid, NEW call \in Call, NextOf(call, sid),
         Send(Line("SUB", sid, call)), UNCHANGED <<srv, pings>>
  PROVE  \E line \in ToServer : Sent(line)
<1>1. /\ Line("SUB", sid, call) \in ToServer /\ Line("SUB", sid, call).kind = "SUB"
      /\ Line("SUB", sid, call).call = call /\ Line("SUB", sid, call).sid = sid
  BY LineTypes
<1>2. Sent(Line("SUB", sid, call))
  BY <1>1 DEF Sent
<1> QED BY <1>1, <1>2

Quiet == UNCHANGED <<conn, out, in, pings, srv>>

Cut == Disconnect /\ UNCHANGED <<pings, srv>>

LEMMA RestoreCases ==
  ASSUME Inv, Restore PROVE (\E line \in ToServer : Sent(line)) \/ Quiet
<1>1. TypeOK /\ Held
  BY DEF Inv, Rest
<1> DEFINE sid == task.i + 1
<1>2. CASE Restorable(sid) /\ Send(Line("SUB", sid, slots[sid].call)) /\ UNCHANGED <<srv, pings, calls>>
  <2>1. Taken(sid)
    BY <1>2 DEF Restorable
  <2>2. sid \in Sid
    BY <1>1, <2>1, Lengths, ConstantFacts DEF Taken, TypeOK, Sid
  <2>3. slots[sid].call \in 1 .. Len(calls) /\ calls[slots[sid].call].sid = sid
    BY <1>1, <2>1, <2>2, HolderFacts
  <2>4. slots[sid].call \in Call
    BY <1>1, <2>3, Lengths, ConstantFacts DEF TypeOK, Call
  <2> HIDE DEF sid
  <2>5. Of(slots[sid].call, sid)
    BY <2>2, <2>3, ConstantFacts DEF Of
  <2> DEFINE call == slots[sid].call
  <2>6. call \in Call /\ Of(call, sid) /\ Send(Line("SUB", sid, call))
    BY <1>2, <2>4, <2>5
  <2> HIDE DEF call
  <2>7. \A c, s : Of(c, s) => (c \in 1 .. Len(calls') /\ s # None /\ calls'[c].sid = s)
    BY <1>2 DEF Of
  <2>8. call \in 1 .. Len(calls') /\ sid # None /\ calls'[call].sid = sid
    BY <2>6, <2>7
  <2>9. PICK c \in Call : c = call
    BY <2>6
  <2>10. PICK s \in Sid : s = sid
    BY <2>2
  <2>11. NextOf(c, s)
    BY <2>8, <2>9, <2>10 DEF NextOf
  <2> QED BY <1>2, <2>6, <2>9, <2>10, <2>11, SubLine
<1>3. CASE UNCHANGED <<conn, out, in, pings, srv>>
  BY <1>3 DEF Quiet
<1> QED BY <1>2, <1>3 DEF Restore

LEMMA LinkCases ==
  ASSUME Inv, Next
  PROVE  \/ \E line \in ToServer : Sent(line)
         \/ Cut \/ Quiet
         \/ LinkBreaks \/ ServerReads \/ RecvMsg \/ RecvPong \/ Dial \/ RecvInfo
<1>1. TypeOK /\ Current /\ Held /\ FreeSound /\ Buffered
  BY DEF Inv, Rest
<1>2. CASE Subscribe
  <2> DEFINE c == Len(calls)
             n == NextSid
             r == [calls[c] EXCEPT !.sid = n]
  <2>1. /\ c \in 1 .. Len(calls) /\ r \in CallRecord /\ calls' = [calls EXCEPT ![c] = r]
        /\ r.sid = n /\ Filled(n, c) /\ Send(Line("SUB", n, c))
    BY <1>1, <1>2, SubscribeFacts
  <2>2. UNCHANGED <<srv, pings>>
    BY <1>2 DEF Subscribe
  <2> HIDE DEF r
  <2>3. Len(calls') = Len(calls) /\ calls'[c] = r
    BY <1>1, <2>1, CallTypes
  <2>4. c \in Call /\ n \in Sid
    BY <1>1, <2>1, Lengths, ConstantFacts DEF TypeOK, Call, Filled
  <2>5. PICK d \in Call, s \in Sid : d = c /\ s = n
    BY <2>4
  <2>6. NextOf(d, s)
    BY <2>1, <2>3, <2>5, ConstantFacts DEF NextOf
  <2> QED BY <2>1, <2>2, <2>5, <2>6, SubLine
<1>3. CASE Publish
  <2>1. CASE Send(Line("PUB", None, Len(calls))) /\ UNCHANGED <<srv, pings>>
    <3>1. Len(calls) \in 1 .. Len(calls) /\ calls[Len(calls)].over = "no"
      BY <1>1, <1>3, CurrentFacts DEF Publish, At
    <3> QED BY <1>1, <2>1, <3>1, PubLine
  <2>2. CASE UNCHANGED <<conn, out, in, pings, srv>>
    BY <2>2 DEF Quiet
  <2> QED BY <1>3, <2>1, <2>2 DEF Publish, This
<1>4. CASE Chunk
  <2>1. CASE Send(Line("CHUNK", None, Len(calls))) /\ UNCHANGED <<srv, pings>>
    <3>1. Len(calls) \in Call
      BY <1>1, <1>4, CurrentFacts DEF Chunk, At, InApi
    <3> QED BY <2>1, <3>1, OtherLine
  <2>2. CASE UNCHANGED <<conn, out, in, pings, srv>>
    BY <2>2 DEF Quiet
  <2> QED BY <1>4, <2>1, <2>2 DEF Chunk, This
<1>5. CASE FlushBegin \/ KeepAlive
  <2>1. Send(Line("PING", None, None)) /\ pings' = pings + 1 /\ srv' = srv
    BY <1>5 DEF FlushBegin, KeepAlive
  <2> QED BY <2>1, OtherLine
<1>6. CASE Replay
  <2>1. /\ pending # <<>> /\ Send(Line("PUB", None, Head(pending))) /\ UNCHANGED <<srv, pings>>
        /\ pending \in Seq(Call)
    BY <1>1, <1>6 DEF Replay, TypeOK
  <2>2. pending[1] = Head(pending) /\ 1 \in 1 .. Len(pending)
    BY <2>1, HeadTailProperties, EmptySeq
  <2>3. Head(pending) \in 1 .. Len(calls) /\ calls[Head(pending)].over # "timeout"
    BY <1>1, <2>2 DEF Buffered
  <2> QED BY <1>1, <2>1, <2>3, PubLine
<1>7. CASE \E sid \in Sid : AppUnsubscribes(sid) \/ Timeout(sid)
  <2> PICK sid \in Sid : Unsubscribe(sid) /\ UNCHANGED <<pings, srv>>
    BY <1>7 DEF AppUnsubscribes, Timeout
  <2>1. CASE Send(Line("UNSUB", sid, None))
    BY <2>1, OtherLine
  <2>2. CASE UNCHANGED <<conn, out, in>>
    BY <2>2 DEF Quiet
  <2> QED BY <2>1, <2>2 DEF Unsubscribe
<1>8. CASE Restore
  BY <1>8, RestoreCases
<1>9. CASE \/ StartCall \/ SubscribeFails \/ FlushTrue \/ FlushFalse \/ RestoreEnd \/ ReplayEnd
           \/ ProcessBegin \/ ProcessEnd \/ \E sid \in Sid : Tick(sid)
  BY <1>9 DEF StartCall, SubscribeFails, FlushTrue, FlushFalse, RestoreEnd, ReplayEnd, ProcessBegin,
              ProcessEnd, Tick, Quiet
<1>10. CASE RecvEnd \/ HandshakeFails
  BY <1>10 DEF RecvEnd, HandshakeFails, Quiet, Cut
<1> QED BY <1>2, <1>3, <1>4, <1>5, <1>6, <1>7, <1>8, <1>9, <1>10 DEF Next, InCall, Process

\* What ServerReads does, kind by kind.
Serves(line) ==
  \/ /\ line.kind = "SUB"
     /\ srv' = [srv EXCEPT !.serves[line.sid] = line.call]
     /\ UNCHANGED in
  \/ /\ line.kind = "UNSUB"
     /\ srv' = [srv EXCEPT !.serves[line.sid] = None]
     /\ UNCHANGED in
  \/ /\ line.kind = "CHUNK"
     /\ srv' = [srv EXCEPT !.stored[line.call] = @ + 1]
     /\ UNCHANGED in
  \/ /\ line.kind = "PUB"
     /\ srv' = [srv EXCEPT !.done[line.call] = @ + 1]
     /\ \E messages \in Answers(line.call) : in' = in \o messages
  \/ /\ line.kind = "PING"
     /\ in' = Append(in, Line("PONG", None, None))
     /\ UNCHANGED srv

LEMMA ServerReadsFacts ==
  ASSUME TypeOK, ServerReads
  PROVE  /\ out # <<>> /\ out' = Tail(out) /\ Head(out) \in ToServer
         /\ Head(out) = out[1] /\ 1 \in 1 .. Len(out)
         /\ out' \in Seq(ToServer) /\ Len(out') \in Nat
         /\ \A k \in 1 .. Len(out') : k + 1 \in 1 .. Len(out) /\ out'[k] = out[k + 1]
         /\ Serves(Head(out))
         /\ UNCHANGED <<calls, task, slots, free, pending, conn, pings>>
<1>1. out # <<>> /\ out' = Tail(out) /\ out \in Seq(ToServer)
  BY DEF ServerReads, TypeOK
<1>2. /\ Head(out) \in ToServer /\ Head(out) = out[1] /\ Len(out) \in Nat \ {0}
      /\ out' \in Seq(ToServer) /\ Len(out') = Len(out) - 1
      /\ \A k \in 1 .. Len(out') : out'[k] = out[k + 1]
  BY <1>1, HeadTailProperties, EmptySeq
<1> QED BY <1>1, <1>2 DEF ServerReads, Serves

\* Answers come under an id that the server serves for the call.
LEMMA AnswersFacts ==
  ASSUME TypeOK, NEW call \in Call, NEW messages \in Answers(call)
  PROVE  /\ messages \in Seq(ToClient)
         /\ \A k \in 1 .. Len(messages) :
              /\ messages[k].kind = "MSG" /\ messages[k].call = call
              /\ messages[k].sid \in Sid /\ srv.serves[messages[k].sid] = call
<1>1. CASE messages = <<>>
  BY <1>1, EmptySeq
<1>2. ASSUME NEW n \in 1 .. calls[call].op.wanted,
             NEW sid \in {s \in Sid : srv.serves[s] = call},
             messages = [i \in 1 .. n |-> Line("MSG", sid, call)]
      PROVE  /\ messages \in Seq(ToClient)
             /\ \A k \in 1 .. Len(messages) :
                  /\ messages[k].kind = "MSG" /\ messages[k].call = call
                  /\ messages[k].sid \in Sid /\ srv.serves[messages[k].sid] = call
  <2> DEFINE m == Line("MSG", sid, call)
  <2>1. m \in ToClient /\ m.kind = "MSG" /\ m.sid = sid /\ m.call = call
    BY LineTypes
  <2> HIDE DEF m
  <2>2. n \in Nat /\ messages = [i \in 1 .. n |-> m]
    BY <1>2 DEF m
  <2>3. messages \in Seq(ToClient) /\ Len(messages) = n /\ \A k \in 1 .. n : messages[k] = m
    BY <2>1, <2>2
  <2> QED BY <2>1, <2>3
<1> QED BY <1>1, <1>2 DEF Answers

LEMMA ServesTypes ==
  ASSUME NEW s \in ServerRecord, NEW sid \in {None} \cup Sid, NEW holder \in {None} \cup Call,
         NEW t, t = [s EXCEPT !.serves[sid] = holder]
  PROVE  t \in ServerRecord /\ \A x \in Sid : t.serves[x] = IF x = sid THEN holder ELSE s.serves[x]
<1> DEFINE f == [s.serves EXCEPT ![sid] = holder]
<1>1. s.serves \in [Sid -> {None} \cup Call]
  BY DEF ServerRecord
<1>2. /\ f \in [Sid -> {None} \cup Call]
      /\ \A x \in Sid : f[x] = IF x = sid THEN holder ELSE s.serves[x]
  BY <1>1
<1>3. t = [s EXCEPT !.serves = f]
  OBVIOUS
<1> HIDE DEF f
<1>4. t \in ServerRecord /\ t.serves = f
  BY <1>2, <1>3 DEF ServerRecord
<1> QED BY <1>2, <1>4

LEMMA ServerTypes ==
  ASSUME NEW s \in ServerRecord, NEW call \in {None} \cup Call
  PROVE  /\ [s EXCEPT !.stored[call] = @ + 1] \in ServerRecord
         /\ [s EXCEPT !.stored[call] = @ + 1].serves = s.serves
         /\ [s EXCEPT !.done[call] = @ + 1] \in ServerRecord
         /\ [s EXCEPT !.done[call] = @ + 1].serves = s.serves
<1> DEFINE n == s.stored[call] + 1
           d == s.done[call] + 1
<1>1. call \in Call => n \in Nat /\ d \in Nat
  BY DEF ServerRecord
<1>2. s.stored \in [Call -> Nat] /\ s.done \in [Call -> Nat]
  BY DEF ServerRecord
<1> HIDE DEF n, d
<1>3. /\ [s.stored EXCEPT ![call] = n] \in [Call -> Nat]
      /\ [s.done EXCEPT ![call] = d] \in [Call -> Nat]
  BY <1>1, <1>2, ConstantFacts
<1> DEFINE g == [s.stored EXCEPT ![call] = n]
           h == [s.done EXCEPT ![call] = d]
<1>4. /\ [s EXCEPT !.stored = g] \in ServerRecord /\ [s EXCEPT !.stored = g].serves = s.serves
      /\ [s EXCEPT !.done = h] \in ServerRecord /\ [s EXCEPT !.done = h].serves = s.serves
  <2>1. g \in [Call -> Nat] /\ h \in [Call -> Nat]
    BY <1>3
  <2> HIDE DEF g, h
  <2> QED BY <2>1 DEF ServerRecord
<1> QED BY <1>4 DEF n, d

LEMMA ServesFacts ==
  ASSUME TypeOK, NEW line \in ToServer, Serves(line)
  PROVE  /\ srv' \in ServerRecord
         /\ \A s \in Sid : \/ srv'.serves[s] \in {None, srv.serves[s]}
                           \/ line.kind = "SUB" /\ s = line.sid /\ srv'.serves[s] = line.call
<1>1. /\ srv \in ServerRecord /\ line.sid \in {None} \cup Sid /\ line.call \in {None} \cup Call
      /\ None \in {None} \cup Call
  BY DEF TypeOK, ToServer
<1>2. CASE line.kind = "SUB" /\ srv' = [srv EXCEPT !.serves[line.sid] = line.call]
  <2> DEFINE holder == line.call
             sid == line.sid
             f == [srv.serves EXCEPT ![sid] = holder]
  <2>1. srv' = [srv EXCEPT !.serves = f]
    BY <1>2
  <2>2. holder \in {None} \cup Call /\ srv.serves \in [Sid -> {None} \cup Call]
    BY <1>1 DEF ServerRecord
  <2> HIDE DEF holder, sid
  <2>3. /\ f \in [Sid -> {None} \cup Call]
        /\ \A x \in Sid : f[x] = IF x = sid THEN holder ELSE srv.serves[x]
    BY <2>2
  <2> HIDE DEF f
  <2>4. srv' \in ServerRecord /\ srv'.serves = f
    BY <1>1, <2>1, <2>3 DEF ServerRecord
  <2> QED BY <1>2, <2>3, <2>4 DEF holder, sid
<1>3. CASE srv' = [srv EXCEPT !.serves[line.sid] = None]
  BY <1>1, <1>3, ServesTypes
<1>4. CASE srv' = [srv EXCEPT !.stored[line.call] = @ + 1]
  BY <1>1, <1>4, ServerTypes
<1>5. CASE srv' = [srv EXCEPT !.done[line.call] = @ + 1]
  BY <1>1, <1>5, ServerTypes
<1>6. CASE srv' = srv
  BY <1>1, <1>6
<1> QED BY <1>2, <1>3, <1>4, <1>5, <1>6 DEF Serves

LEMMA OfGrows ==
  ASSUME Grows PROVE \A c, s : Of(c, s) => NextOf(c, s)
BY DEF Of, NextOf, Grows

LEMMA SentAddressed ==
  ASSUME Inv, Grows, NEW line \in ToServer, Sent(line)
  PROVE  LinkTypes /\ srv' \in ServerRecord /\ pings' \in Nat /\ Addressed' /\ Awaited'
<1>1. TypeOK /\ Addressed /\ Awaited
  BY DEF Inv, Rest
<1>2. /\ LinkTypes /\ srv' = srv /\ out \in Seq(ToServer) /\ in \in Seq(ToClient)
      /\ \/ out' = Append(out, line) /\ in' = in
         \/ out' = out /\ in' = in
         \/ out' = <<>> /\ in' = <<>>
  BY <1>1, SendFacts DEF Sent, TypeOK
<1>3. \A k \in 1 .. Len(in') : k \in 1 .. Len(in) /\ in'[k] = in[k]
  BY <1>2
<1>4. \A k \in 1 .. Len(out') : (k \in 1 .. Len(out) /\ out'[k] = out[k]) \/ out'[k] = line
  BY <1>2, Appended
<1>5. Addressed'
  <2>1. \A k \in 1 .. Len(in') : in'[k].kind = "MSG" => NextOf(in'[k].call, in'[k].sid)
    BY <1>1, <1>3, OfGrows DEF Addressed
  <2>2. \A k \in 1 .. Len(out') : out'[k].kind = "SUB" => NextOf(out'[k].call, out'[k].sid)
    BY <1>1, <1>4, OfGrows DEF Addressed, Sent
  <2>3. \A k \in 1 .. Len(out') : out'[k].kind = "PUB" => out'[k].call \in 1 .. Len(calls')
    BY <1>1, <1>4 DEF Addressed, Sent, Grows
  <2>4. \A s \in Sid : srv'.serves[s] # None => NextOf(srv'.serves[s], s)
    BY <1>1, <1>2, OfGrows DEF Addressed
  <2> QED BY <2>1, <2>2, <2>3, <2>4 DEF Addressed, Of, NextOf
<1>6. /\ pings \in Nat /\ Count("PING", out) \in Nat /\ Count("PONG", in) \in Nat
      /\ pings' = IF line.kind = "PING" THEN pings + 1 ELSE pings
  BY <1>1, <1>2, CountType DEF TypeOK, Sent
<1>7. Awaited'
  <2>1. CASE out' = Append(out, line) /\ in' = in
    <3>1. Count("PING", out') = Count("PING", out) + (IF line.kind = "PING" THEN 1 ELSE 0)
      BY <1>2, <2>1, CountAppend
    <3> QED BY <1>1, <1>6, <2>1, <3>1 DEF Awaited
  <2>2. CASE out' = out /\ in' = in
    BY <1>1, <1>6, <2>2 DEF Awaited
  <2>3. CASE out' = <<>> /\ in' = <<>>
    BY <1>6, <2>3, CountEmpty DEF Awaited
  <2> QED BY <1>2, <2>1, <2>2, <2>3
<1> QED BY <1>1, <1>2, <1>5, <1>6, <1>7 DEF TypeOK

\* What the steps that send nothing leave travelling.
LEMMA Readdressed ==
  ASSUME Inv, Grows,
         \A k \in 1 .. Len(in') : in'[k].kind = "MSG" => Of(in'[k].call, in'[k].sid),
         \A k \in 1 .. Len(out') : \E j \in 1 .. Len(out) : out'[k] = out[j],
         \A s \in Sid : srv'.serves[s] # None => Of(srv'.serves[s], s)
  PROVE  Addressed'
<1>1. Addressed
  BY DEF Inv, Rest
<1>2. \A k \in 1 .. Len(in') : in'[k].kind = "MSG" => NextOf(in'[k].call, in'[k].sid)
  BY OfGrows
<1>3. \A k \in 1 .. Len(out') : out'[k].kind = "SUB" => NextOf(out'[k].call, out'[k].sid)
  BY <1>1, OfGrows DEF Addressed
<1>4. \A k \in 1 .. Len(out') : out'[k].kind = "PUB" => out'[k].call \in 1 .. Len(calls')
  BY <1>1 DEF Addressed, Grows
<1>5. \A s \in Sid : srv'.serves[s] # None => NextOf(srv'.serves[s], s)
  BY OfGrows
<1> QED BY <1>2, <1>3, <1>4, <1>5 DEF Addressed, Of, NextOf

LinkSound ==
  LinkTypes /\ srv' \in ServerRecord /\ pings' \in Nat /\ Addressed' /\ Awaited'

LEMMA QuietLink ==
  ASSUME Inv, Grows, Quiet PROVE LinkSound
<1>1. TypeOK /\ Addressed /\ Awaited
  BY DEF Inv, Rest
<1>2. Addressed'
  BY <1>1, Readdressed DEF Quiet, Addressed
<1>3. Awaited'
  BY <1>1 DEF Quiet, Awaited, Count, Places
<1> QED BY <1>1, <1>2, <1>3 DEF Quiet, LinkSound, LinkTypes, TypeOK

LEMMA CutLink ==
  ASSUME Inv, Grows, Cut PROVE LinkSound
<1>1. TypeOK /\ Addressed
  BY DEF Inv, Rest
<1>2. LinkTypes /\ out' = <<>> /\ in' = <<>> /\ UNCHANGED <<pings, srv>>
  BY <1>1, DisconnectFacts DEF Cut
<1>3. Addressed'
  BY <1>1, <1>2, Readdressed DEF Addressed
<1>4. Awaited'
  BY <1>1, <1>2, CountEmpty DEF Awaited, TypeOK
<1> QED BY <1>1, <1>2, <1>3, <1>4 DEF LinkSound, TypeOK

LEMMA LinkBreaksLink ==
  ASSUME Inv, Grows, LinkBreaks PROVE LinkSound
<1>1. /\ Addressed /\ Awaited /\ conn \in ConnRecord /\ in \in Seq(ToClient)
      /\ out \in Seq(ToServer) /\ pings \in Nat /\ srv \in ServerRecord
  BY DEF Inv, Rest, TypeOK
<1>2. /\ out' = <<>> /\ UNCHANGED <<pings, srv>> /\ conn.drops < MaxDrops
      /\ conn' = [conn EXCEPT !.up = FALSE, !.drops = @ + 1]
  BY DEF LinkBreaks
<1>3. PICK n \in 0 .. Len(in) : in' = SubSeq(in, 1, n)
  BY DEF LinkBreaks
<1>4. /\ in' \in Seq(ToClient) /\ Len(in') = n /\ \A k \in 1 .. n : in'[k] = in[k]
      /\ Count("PONG", in') <= Count("PONG", in)
  BY <1>1, <1>3, CountPrefix
<1>5. conn' \in ConnRecord
  <2> DEFINE drops == conn.drops + 1
             up == FALSE
  <2>1. drops \in 0 .. MaxDrops
    BY <1>1, <1>2, RequestsAssumption DEF ConnRecord
  <2>2. up \in BOOLEAN /\ conn' = [conn EXCEPT !.up = up, !.drops = drops]
    BY <1>2
  <2> HIDE DEF up, drops
  <2> QED BY <1>1, <2>1, <2>2 DEF ConnRecord
<1>6. Addressed'
  <2>1. \A k \in 1 .. Len(in') : in'[k].kind = "MSG" => Of(in'[k].call, in'[k].sid)
    <3> SUFFICES ASSUME NEW k \in 1 .. Len(in') PROVE k \in 1 .. Len(in) /\ in'[k] = in[k]
      BY <1>1 DEF Addressed
    <3>1. Len(in) \in Nat
      BY <1>1, LenProperties
    <3> QED BY <1>4, <3>1
  <2> QED BY <1>1, <1>2, <2>1, Readdressed DEF Addressed
<1>7. Awaited'
  <2>1. /\ Count("PING", out) \in Nat /\ Count("PONG", in) \in Nat /\ Count("PONG", in') \in Nat
    BY <1>1, <1>4, CountType
  <2>2. Count("PING", out') = 0
    BY <1>2, CountEmpty
  <2> QED BY <1>1, <1>2, <1>4, <2>1, <2>2 DEF Awaited
<1>8. out' \in Seq(ToServer)
  BY <1>2, EmptySeq
<1> QED BY <1>1, <1>2, <1>4, <1>5, <1>6, <1>7, <1>8 DEF LinkSound, LinkTypes

LEMMA DialLink ==
  ASSUME Inv, Grows, Dial PROVE LinkSound
<1>1. conn \in ConnRecord /\ srv \in ServerRecord
  BY DEF Inv, TypeOK
<1>2. out' = <<>> /\ in' = <<>> /\ pings' = 0
  BY DEF Dial
<1>3. conn' \in ConnRecord
  <2> DEFINE t == TRUE
  <2>1. conn' = [conn EXCEPT !.sock = t, !.up = t] /\ t \in BOOLEAN
    BY DEF Dial
  <2> HIDE DEF t
  <2> QED BY <1>1, <2>1 DEF ConnRecord
<1>4. srv' \in ServerRecord /\ \A s \in Sid : srv'.serves[s] = None
  <2> DEFINE f == [s \in Sid |-> None]
  <2>1. f \in [Sid -> {None} \cup Call] /\ \A s \in Sid : f[s] = None
    OBVIOUS
  <2>2. srv' = [srv EXCEPT !.serves = f]
    BY DEF Dial
  <2> HIDE DEF f
  <2> QED BY <1>1, <2>1, <2>2 DEF ServerRecord
<1>5. Addressed'
  BY <1>2, <1>4, Readdressed
<1>6. Awaited'
  BY <1>2, CountEmpty DEF Awaited
<1> QED BY <1>2, <1>3, <1>4, <1>5, <1>6, EmptySeq DEF LinkSound, LinkTypes

LEMMA RecvInfoLink ==
  ASSUME Inv, Grows, RecvInfo PROVE LinkSound
<1>1. /\ conn \in ConnRecord /\ srv \in ServerRecord /\ pings \in Nat
      /\ out \in Seq(ToServer) /\ in \in Seq(ToClient) /\ Addressed /\ Awaited
  BY DEF Inv, TypeOK, Rest
<1>2. UNCHANGED <<out, in, pings, srv>>
  BY DEF RecvInfo
<1>3. conn' \in ConnRecord
  <2> DEFINE t == TRUE
  <2>1. PICK large \in BOOLEAN : conn' = [conn EXCEPT !.connected = t, !.large = large]
    BY DEF RecvInfo
  <2>2. t \in BOOLEAN
    OBVIOUS
  <2> HIDE DEF t
  <2> QED BY <1>1, <2>1, <2>2 DEF ConnRecord
<1>4. Addressed'
  BY <1>1, <1>2, Readdressed DEF Addressed
<1>5. Awaited'
  BY <1>1, <1>2 DEF Awaited, Count, Places
<1> QED BY <1>1, <1>2, <1>3, <1>4, <1>5 DEF LinkSound, LinkTypes

LEMMA RecvLink ==
  ASSUME Inv, Grows, RecvMsg \/ RecvPong PROVE LinkSound
<1>1. /\ TypeOK /\ Held /\ Addressed /\ Awaited /\ in \in Seq(ToClient) /\ out \in Seq(ToServer)
      /\ pings \in Nat
  BY DEF Inv, Rest, TypeOK
<1>2. /\ in # <<>> /\ in' = Tail(in) /\ UNCHANGED <<conn, out, srv>>
      /\ pings' = IF Head(in).kind = "PONG" THEN pings - 1 ELSE pings
  <2>1. CASE RecvMsg
    BY <1>1, <2>1, RecvMsgFacts
  <2>2. CASE RecvPong
    BY <2>2 DEF RecvPong
  <2> QED BY <2>1, <2>2
<1>3. /\ in' \in Seq(ToClient) /\ Len(in') = Len(in) - 1 /\ Len(in) \in Nat \ {0}
      /\ \A k \in 1 .. Len(in') : in'[k] = in[k + 1]
  BY <1>1, <1>2, HeadTailProperties, EmptySeq
<1>4. Addressed'
  <2>1. \A k \in 1 .. Len(in') : in'[k].kind = "MSG" => Of(in'[k].call, in'[k].sid)
    BY <1>1, <1>3 DEF Addressed
  <2> QED BY <1>1, <1>2, <2>1, Readdressed DEF Addressed
<1>5. /\ Count("PONG", in) = Count("PONG", in') + (IF Head(in).kind = "PONG" THEN 1 ELSE 0)
      /\ Count("PONG", in') \in Nat /\ Count("PING", out) \in Nat
  BY <1>1, <1>2, <1>3, CountTail, CountType
<1>6. Awaited' /\ pings' \in Nat
  BY <1>1, <1>2, <1>5 DEF Awaited
<1> QED BY <1>1, <1>2, <1>3, <1>4, <1>6 DEF LinkSound, LinkTypes, TypeOK

LEMMA ServerReadsLink ==
  ASSUME Inv, Grows, ServerReads PROVE LinkSound
<1>1. /\ TypeOK /\ Addressed /\ Awaited /\ in \in Seq(ToClient) /\ out \in Seq(ToServer)
      /\ pings \in Nat /\ conn \in ConnRecord
  BY DEF Inv, Rest, TypeOK
<1> DEFINE line == Head(out)
<1>2. /\ out # <<>> /\ out' = Tail(out) /\ line \in ToServer /\ line = out[1] /\ 1 \in 1 .. Len(out)
      /\ out' \in Seq(ToServer)
      /\ \A k \in 1 .. Len(out') : k + 1 \in 1 .. Len(out) /\ out'[k] = out[k + 1]
      /\ Serves(line) /\ UNCHANGED <<conn, pings>>
  BY <1>1, ServerReadsFacts
<1>3. /\ srv' \in ServerRecord
      /\ \A s \in Sid : \/ srv'.serves[s] \in {None, srv.serves[s]}
                        \/ line.kind = "SUB" /\ s = line.sid /\ srv'.serves[s] = line.call
  BY <1>1, <1>2, ServesFacts
<1>4. Count("PING", out) = Count("PING", out') + (IF line.kind = "PING" THEN 1 ELSE 0)
  BY <1>1, <1>2, CountTail
<1> HIDE DEF line
<1>5. /\ Count("PING", out') \in Nat /\ Count("PONG", in) \in Nat
      /\ \A k \in 1 .. Len(in) : in[k].kind = "MSG" => Of(in[k].call, in[k].sid)
      /\ line.kind = "SUB" => Of(line.call, line.sid)
      /\ line.kind = "PUB" => line.call \in 1 .. Len(calls)
  BY <1>1, <1>2, CountType DEF Addressed
<1> DEFINE Arrived == /\ in' \in Seq(ToClient)
                      /\ \A k \in 1 .. Len(in') : in'[k].kind = "MSG" => Of(in'[k].call, in'[k].sid)
                      /\ Count("PONG", in') = Count("PONG", in) + (IF line.kind = "PING" THEN 1 ELSE 0)
<1>6. ASSUME line.kind # "PING", in' = in PROVE Arrived
  BY <1>1, <1>5, <1>6
<1>7. ASSUME line.kind = "PING", in' = Append(in, Line("PONG", None, None)) PROVE Arrived
  <2> DEFINE x == Line("PONG", None, None)
  <2>1. x \in ToClient /\ x.kind = "PONG"
    BY LineTypes
  <2>2. in' = Append(in, x)
    BY <1>7
  <2> HIDE DEF x
  <2>3. /\ in' \in Seq(ToClient) /\ Len(in') = Len(in) + 1 /\ Len(in) \in Nat
        /\ \A k \in 1 .. Len(in) : in'[k] = in[k]
        /\ in'[Len(in) + 1] = x
    BY <1>1, <2>1, <2>2, Appended
  <2>4. Count("PONG", in') = Count("PONG", in) + 1
    BY <1>1, <2>1, <2>2, CountAppend
  <2>5. \A k \in 1 .. Len(in') : in'[k].kind = "MSG" => Of(in'[k].call, in'[k].sid)
    BY <1>5, <2>1, <2>3
  <2> QED BY <1>7, <2>3, <2>4, <2>5
<1>8. ASSUME line.kind = "PUB", \E messages \in Answers(line.call) : in' = in \o messages
      PROVE  Arrived
  <2>1. line.call \in Call
    BY <1>1, <1>5, <1>8, Lengths, ConstantFacts DEF TypeOK, Call
  <2>2. PICK call \in Call : call = line.call
    BY <2>1
  <2>3. PICK m \in Answers(call) : in' = in \o m
    BY <1>8, <2>2
  <2>4. /\ m \in Seq(ToClient)
        /\ \A k \in 1 .. Len(m) : m[k].kind = "MSG" /\ m[k].call = call
                                 /\ m[k].sid \in Sid /\ srv.serves[m[k].sid] = call
    BY <1>1, <2>3, AnswersFacts
  <2>5. call # None
    BY ConstantFacts
  <2>6. \A k \in 1 .. Len(m) : Of(m[k].call, m[k].sid)
    BY <1>1, <2>4, <2>5 DEF Addressed
  <2>7. /\ in' \in Seq(ToClient) /\ Len(in') = Len(in) + Len(m)
        /\ \A k \in 1 .. Len(in) + Len(m) : in'[k] = IF k <= Len(in) THEN in[k] ELSE m[k - Len(in)]
        /\ Len(in) \in Nat /\ Len(m) \in Nat
    BY <1>1, <2>3, <2>4, ConcatProperties, LenProperties
  <2>8. \A k \in 1 .. Len(in') : in'[k].kind = "MSG" => Of(in'[k].call, in'[k].sid)
    <3> SUFFICES ASSUME NEW k \in 1 .. Len(in'), in'[k].kind = "MSG"
                 PROVE  Of(in'[k].call, in'[k].sid)
      OBVIOUS
    <3>1. CASE k <= Len(in)
      BY <1>5, <2>7, <3>1
    <3>2. CASE k > Len(in)
      <4>1. k - Len(in) \in 1 .. Len(m) /\ in'[k] = m[k - Len(in)]
        BY <2>7, <3>2
      <4> QED BY <2>6, <4>1
    <3> QED BY <2>7, <3>1, <3>2
  <2>9. Count("PONG", in') = Count("PONG", in)
    <3>1. \A k \in 1 .. Len(m) : m[k].kind # "PONG"
      BY <2>4
    <3> QED BY <1>1, <2>3, <2>4, <3>1, CountConcat
  <2> QED BY <1>5, <1>8, <2>7, <2>8, <2>9
<1>9. Arrived
  BY <1>2, <1>6, <1>7, <1>8 DEF Serves
<1>10. Addressed'
  <2>1. \A s \in Sid : srv'.serves[s] # None => Of(srv'.serves[s], s)
    BY <1>1, <1>3, <1>5 DEF Addressed
  <2>2. \A k \in 1 .. Len(out') : \E j \in 1 .. Len(out) : out'[k] = out[j]
    BY <1>2
  <2> QED BY <1>9, <2>1, <2>2, Readdressed
<1>11. Awaited'
  BY <1>1, <1>2, <1>4, <1>5, <1>9 DEF Awaited
<1> QED BY <1>1, <1>2, <1>3, <1>9, <1>10, <1>11 DEF LinkSound, LinkTypes

\* Every step leaves what travels addressed to calls that have had the id.
LEMMA NextLink ==
  ASSUME Inv, Next PROVE LinkSound
<1>1. Grows
  BY NextTable
<1>2. ASSUME NEW line \in ToServer, Sent(line) PROVE LinkSound
  BY <1>1, <1>2, SentAddressed DEF LinkSound
<1> QED BY <1>1, <1>2, LinkCases, QuietLink, CutLink, LinkBreaksLink, DialLink, RecvInfoLink, RecvLink,
           ServerReadsLink

-----------------------------------------------------------------------------
(* The task and the buffer of unsent messages                              *)

TaskSound == task' \in TaskRecord /\ Current'

\* A step after which no call is being made, or the same one at the same stage.
LEMMA TaskIdle ==
  ASSUME task' \in TaskRecord, task'.pc \notin InApi \cup {"publish"} PROVE TaskSound
BY DEF TaskSound, Current

LEMMA TaskSame ==
  ASSUME Inv, task' = task, Len(calls') = Len(calls),
         \/ task.pc \notin InApi \cup {"publish"}
         \/ calls' = calls
  PROVE  TaskSound
BY DEF Inv, Rest, TypeOK, TaskSound, Current

\* The steps after which the task is not in a call.
LEMMA Asides ==
  ASSUME TypeOK, \/ Publish \/ FlushFalse \/ RestoreEnd \/ ReplayEnd
                 \/ ProcessBegin \/ ProcessEnd \/ Dial \/ RecvInfo \/ HandshakeFails
  PROVE  /\ task' \in TaskRecord
         /\ task'.pc \in {"idle", "process", "dialing", "restore", "replay"}
         /\ RecvInfo => task'.pc = "restore"
         /\ RestoreEnd => task'.pc = "replay"
<1>1. /\ "idle" \in Pcs /\ "process" \in Pcs /\ "dialing" \in Pcs /\ "restore" \in Pcs
      /\ "replay" \in Pcs /\ task.back \in {"idle", "process"}
  BY TypedPcs DEF TypeOK, TaskRecord
<1>2. CASE RestoreEnd
  <2>1. Goto("replay") /\ ~RecvInfo
    BY <1>2 DEF RestoreEnd, RecvInfo, At
  <2> QED BY <1>1, <2>1, GotoFacts
<1>3. CASE ProcessBegin
  <2>1. Goto("process") /\ ~RecvInfo /\ ~RestoreEnd
    BY <1>3 DEF ProcessBegin, RecvInfo, RestoreEnd, At
  <2> QED BY <1>1, <2>1, GotoFacts
<1>4. CASE Dial
  <2>1. Goto("dialing") /\ ~RecvInfo /\ ~RestoreEnd
    BY <1>4 DEF Dial, RecvInfo, RestoreEnd, At
  <2> QED BY <1>1, <2>1, GotoFacts
<1>5. CASE RecvInfo
  <2>1. ~RestoreEnd /\ task' \in TaskRecord /\ task'.pc = "restore"
    BY <1>1, <1>5 DEF RecvInfo, RestoreEnd, At, Idle, TaskRecord
  <2> QED BY <2>1
<1>6. CASE Publish \/ FlushFalse \/ ReplayEnd \/ ProcessEnd \/ HandshakeFails
  <2>1. \E pc \in {"idle", "process"} : Begin(pc)
    BY <1>1, <1>6 DEF Publish, FlushFalse, ReplayEnd, ProcessEnd, HandshakeFails
  <2>2. task' \in TaskRecord /\ task'.pc \in {"idle", "process"}
    BY <1>1, <2>1, BeginFacts
  <2>3. ~RestoreEnd
    BY <1>6 DEF Publish, FlushFalse, ReplayEnd, ProcessEnd, HandshakeFails, RestoreEnd, At
  <2>4. RecvInfo => task'.pc = "restore"
    BY DEF RecvInfo, Idle
  <2> QED BY <2>2, <2>3, <2>4
<1> QED BY <1>2, <1>3, <1>4, <1>5, <1>6

LEMMA NextTask ==
  ASSUME Inv, Next PROVE TaskSound
<1>1. TypeOK /\ Current /\ Held /\ FreeSound /\ Addressed /\ Grows
  BY NextTable DEF Inv, Rest
<1>2. /\ task \in TaskRecord /\ task.i + 1 \in Nat /\ task.i \in Nat
      /\ "idle" \in Pcs /\ "publish" \in Pcs /\ "restore" \in Pcs /\ "replay" \in Pcs
      /\ InApi \subseteq Pcs
  BY <1>1, TypedPcs DEF TypeOK, TaskRecord
<1>3. CASE StartCall
  <2>1. PICK r : NewCall(r) /\ calls' = Append(calls, r)
    BY <1>1, <1>3, StartFacts
  <2>2. r \in CallRecord /\ r.over = "no" /\ r.sid = None
    BY <2>1 DEF NewCall
  <2>3. /\ Len(calls') = Len(calls) + 1 /\ Len(calls) \in Nat
        /\ calls'[Len(calls) + 1] = r /\ calls' \in Seq(CallRecord)
    BY <1>1, <2>1, <2>2, Appended DEF TypeOK
  <2>4. calls'[Len(calls')] = r /\ calls' # <<>>
    BY <2>3, EmptySeq
  <2> QED BY <1>1, <1>3, <2>2, <2>4, StartFacts DEF TaskSound, Current
<1>4. CASE Subscribe
  <2> DEFINE c == Len(calls)
             r == [calls[c] EXCEPT !.sid = NextSid]
  <2>1. /\ c \in 1 .. Len(calls) /\ r \in CallRecord /\ calls' = [calls EXCEPT ![c] = r]
        /\ r.over = "no" /\ task' \in TaskRecord /\ task'.pc \in {"idle", "publish"}
    BY <1>1, <1>4, SubscribeFacts
  <2> HIDE DEF r
  <2>2. Len(calls') = c /\ calls'[c] = r
    BY <1>1, <2>1, CallTypes
  <2>3. calls' # <<>>
    BY <2>1, <2>2, EmptySeq
  <2> QED BY <2>1, <2>2, <2>3 DEF TaskSound, Current, InApi
<1>5. CASE SubscribeFails
  <2>1. \E pc \in {"idle", "publish"} : Begin(pc)
    BY <1>5 DEF SubscribeFails
  <2>2. task' \in TaskRecord /\ task'.pc \in {"idle", "publish"}
    BY <1>1, <1>2, <2>1, BeginFacts
  <2> QED BY <1>1, <1>5, <2>2 DEF SubscribeFails, At, InApi, TaskSound, Current
<1>6. CASE \/ Publish \/ FlushFalse \/ RestoreEnd \/ ReplayEnd
           \/ ProcessBegin \/ ProcessEnd \/ Dial \/ RecvInfo \/ HandshakeFails
  BY <1>1, <1>6, Asides, TaskIdle DEF InApi
<1>7. CASE Chunk
  <2>1. \E p \in InApi, n \in Nat : task' = [task EXCEPT !.i = n, !.pc = p]
    <3>1. (IF task.i + 1 = Chunks THEN "flush" ELSE "chunk") \in InApi
      BY DEF InApi
    <3> QED BY <1>2, <1>7, <3>1 DEF Chunk
  <2>2. PICK p \in InApi, n \in Nat : task' = [task EXCEPT !.i = n, !.pc = p]
    BY <2>1
  <2>3. p \in Pcs
    BY <1>2
  <2>4. task' \in TaskRecord /\ task'.pc = p
    BY <1>2, <2>2, <2>3 DEF TaskRecord
  <2>5. task.pc \in InApi /\ calls' = calls
    BY <1>7 DEF Chunk, At, InApi
  <2> QED BY <1>1, <2>4, <2>5 DEF TaskSound, Current
<1>8. CASE FlushBegin
  <2> DEFINE c == Len(calls)
  <2>1. task.pc \in InApi /\ task' = [task EXCEPT !.pc = "flushing", !.initial = pings]
    BY <1>8 DEF FlushBegin, At, InApi
  <2>2. calls[c].over = "no" /\ calls[c].sid = None
    BY <1>1, <2>1, CurrentFacts
  <2>3. PICK r \in CallRecord : /\ calls' = [calls EXCEPT ![c] = r]
                                /\ r.sid = calls[c].sid /\ r.over = calls[c].over
    BY <1>1, <1>8, FlushBeginFacts
  <2>4. c \in 1 .. Len(calls)
    BY <1>1, <1>8, FlushBeginFacts
  <2>5. Len(calls') = c /\ calls'[c] = r
    BY <1>1, <2>3, <2>4, CallTypes
  <2>6. calls' # <<>>
    BY <2>4, <2>5, EmptySeq
  <2>7. task' \in TaskRecord
    BY <1>1, <1>2, <2>1, TaskTypes DEF InApi, TypeOK
  <2> QED BY <2>2, <2>3, <2>5, <2>6, <2>7 DEF TaskSound, Current
<1>9. CASE FlushTrue
  <2>1. \E pc \in {"idle", "subscribe"} : Begin(pc)
    BY <1>9 DEF FlushTrue
  <2>2. task' \in TaskRecord /\ task'.pc \in {"idle", "subscribe"} /\ task.pc \in InApi
    BY <1>1, <1>2, <1>9, <2>1, BeginFacts DEF InApi, FlushTrue, At
  <2> QED BY <1>1, <1>9, <2>2 DEF FlushTrue, TaskSound, Current, InApi
<1>11. CASE Restore
  <2> DEFINE n == task.i + 1
  <2>1. task' = [task EXCEPT !.i = n] /\ task.pc = "restore" /\ n \in Nat
    BY <1>2, <1>11 DEF Restore, At
  <2> HIDE DEF n
  <2>2. task' \in TaskRecord /\ task'.pc = "restore"
    BY <1>2, <2>1 DEF TaskRecord
  <2> QED BY <2>2, TaskIdle DEF InApi
<1>12. CASE RecvMsg
  <2>1. task' = task
    BY <1>1, <1>12, RecvMsgFacts
  <2>2. CASE calls' = calls
    BY <2>1, <2>2, TaskSame
  <2>3. ASSUME NEW c \in 1 .. Len(calls), NEW r \in CallRecord, calls' = [calls EXCEPT ![c] = r],
               r.sid = calls[c].sid, r.over = calls[c].over
        PROVE  TaskSound
    <3>1. /\ Len(calls') = Len(calls) /\ calls'[c] = r
          /\ \A d \in 1 .. Len(calls) : d # c => calls'[d] = calls[d]
      BY <1>1, <2>3, CallTypes
    <3>2. /\ Len(calls) \in 1 .. Len(calls)
          /\ calls'[Len(calls)].over = calls[Len(calls)].over
          /\ calls'[Len(calls)].sid = calls[Len(calls)].sid
      <4>1. Len(calls) \in 1 .. Len(calls)
        BY <1>1, <2>3, Lengths
      <4>2. CASE c = Len(calls)
        BY <2>3, <3>1, <4>1, <4>2
      <4>3. CASE c # Len(calls)
        BY <3>1, <4>1, <4>3
      <4> QED BY <4>1, <4>2, <4>3
    <3>3. calls' # <<>>
      BY <3>1, <3>2, EmptySeq
    <3> QED BY <1>1, <1>2, <2>1, <3>1, <3>2, <3>3 DEF TaskSound, Current
  <2>4. \/ calls' = calls
        \/ \E c \in 1 .. Len(calls), r \in CallRecord :
             calls' = [calls EXCEPT ![c] = r] /\ r.sid = calls[c].sid /\ r.over = calls[c].over
    <3>1. ASSUME NEW sid \in Sid, NEW r \in CallRecord, Taken(sid),
                 calls' = [calls EXCEPT ![slots[sid].call] = r],
                 r.sid = calls[slots[sid].call].sid, r.over = calls[slots[sid].call].over
          PROVE  \E c \in 1 .. Len(calls), x \in CallRecord :
                   calls' = [calls EXCEPT ![c] = x] /\ x.sid = calls[c].sid /\ x.over = calls[c].over
      BY <1>1, <3>1, HolderFacts
    <3> QED BY <1>1, <1>12, <3>1, RecvMsgFacts
  <2> QED BY <2>2, <2>3, <2>4
<1>13. CASE \E sid \in Sid : AppUnsubscribes(sid) \/ Timeout(sid)
  <2>1. task' = task /\ task.pc \in {"idle", "process"}
    BY <1>13 DEF AppUnsubscribes, Timeout, At
  <2> QED BY <1>2, <2>1, TaskIdle DEF InApi
<1>14. CASE \/ LinkBreaks \/ ServerReads \/ RecvPong \/ RecvEnd \/ KeepAlive \/ Replay
            \/ \E sid \in Sid : Tick(sid)
  <2>1. task' = task /\ calls' = calls
    BY <1>14 DEF LinkBreaks, ServerReads, RecvPong, RecvEnd, KeepAlive, Replay, Tick
  <2> QED BY <2>1, TaskSame
<1> QED BY <1>3, <1>4, <1>5, <1>6, <1>7, <1>8, <1>9, <1>11, <1>12, <1>13, <1>14
        DEF Next, InCall, Process

LEMMA OverKept ==
  ASSUME Inv, Next, ~\E sid \in Sid : AppUnsubscribes(sid) \/ Timeout(sid)
  PROVE  \A d \in 1 .. Len(calls) : calls'[d].over = calls[d].over
<1>1. TypeOK /\ Current /\ Held /\ FreeSound /\ Addressed
  BY DEF Inv, Rest
<1>2. ASSUME NEW c \in 1 .. Len(calls), NEW r \in CallRecord, calls' = [calls EXCEPT ![c] = r],
             r.over = calls[c].over
      PROVE  \A d \in 1 .. Len(calls) : calls'[d].over = calls[d].over
  BY <1>1, <1>2, CallTypes
<1>3. CASE StartCall
  <2>1. PICK r : NewCall(r) /\ calls' = Append(calls, r)
    BY <1>1, <1>3, StartFacts
  <2>2. r \in CallRecord
    BY <2>1 DEF NewCall
  <2> QED BY <1>1, <2>1, <2>2, Appended DEF TypeOK
<1>4. CASE Subscribe
  <2> DEFINE c == Len(calls)
             r == [calls[c] EXCEPT !.sid = NextSid]
  <2>1. c \in 1 .. Len(calls) /\ r \in CallRecord /\ calls' = [calls EXCEPT ![c] = r] /\ r.over = "no"
    BY <1>1, <1>4, SubscribeFacts
  <2>2. calls[c].over = "no"
    BY <1>1, <1>4, CurrentFacts DEF Subscribe, At, InApi
  <2> HIDE DEF c, r
  <2> QED BY <1>2, <2>1, <2>2
<1>5. CASE FlushBegin
  BY <1>1, <1>2, <1>5, FlushBeginFacts
<1>6. CASE RecvMsg
  <2>1. ASSUME NEW sid \in Sid, NEW r \in CallRecord, Taken(sid),
               calls' = [calls EXCEPT ![slots[sid].call] = r], r.over = calls[slots[sid].call].over
        PROVE  \A d \in 1 .. Len(calls) : calls'[d].over = calls[d].over
    BY <1>1, <1>2, <2>1, HolderFacts
  <2> QED BY <1>1, <1>6, <2>1, RecvMsgFacts
<1>7. CASE \/ SubscribeFails \/ Publish \/ Chunk \/ FlushTrue \/ FlushFalse
           \/ Restore \/ RestoreEnd \/ Replay \/ ReplayEnd
           \/ LinkBreaks \/ ServerReads \/ RecvPong \/ RecvEnd \/ KeepAlive
           \/ ProcessBegin \/ ProcessEnd \/ Dial \/ RecvInfo \/ HandshakeFails
           \/ \E sid \in Sid : Tick(sid)
  BY <1>7
  DEF SubscribeFails, Publish, Chunk, FlushTrue, FlushFalse, Restore, RestoreEnd, Replay,
      ReplayEnd, LinkBreaks, ServerReads, RecvPong, RecvEnd, KeepAlive, ProcessBegin, ProcessEnd,
      Dial, RecvInfo, HandshakeFails, Tick
<1> QED BY <1>3, <1>4, <1>5, <1>6, <1>7 DEF Next, InCall, Process

BufferSound == pending' \in Seq(Call) /\ Buffered'

\* A step that buffers nothing, and after which the buffer may be as full as before.
LEMMA BufferSame ==
  ASSUME Inv, Grows, pending' = pending,
         conn'.connected => conn.connected,
         task.pc \in {"restore", "replay"} =>
           task'.pc \in {"restore", "replay"} \/ pending = <<>> \/ ~conn'.connected,
         \A k \in 1 .. Len(pending) : calls'[pending[k]].over = calls[pending[k]].over
  PROVE  BufferSound
BY DEF Inv, TypeOK, Rest, BufferSound, Buffered, Grows

\* Only the INFO of a server takes the client for connected again.
LEMMA ConnectedOnce ==
  ASSUME Inv, Next PROVE RecvInfo \/ (conn'.connected => conn.connected)
<1>1. TypeOK /\ Held /\ Addressed /\ conn \in ConnRecord
  BY DEF Inv, Rest, TypeOK
<1>2. ASSUME NEW line \in ToServer, Sent(line) PROVE conn'.connected => conn.connected
  BY <1>1, <1>2, SendFacts DEF Sent
<1>3. CASE Cut
  BY <1>1, <1>3, DisconnectFacts DEF Cut
<1>4. CASE LinkBreaks
  BY <1>1, <1>4 DEF LinkBreaks, ConnRecord
<1>5. CASE Quiet \/ ServerReads \/ RecvMsg \/ RecvPong
  BY <1>1, <1>5, RecvMsgFacts DEF Quiet, ServerReads, RecvPong
<1>6. CASE Dial
  BY <1>1, <1>6 DEF Dial, ConnRecord
<1> QED BY <1>2, <1>3, <1>4, <1>5, <1>6, LinkCases

LEMMA NextBuffer ==
  ASSUME Inv, Next PROVE BufferSound
<1>1. /\ TypeOK /\ Current /\ Held /\ FreeSound /\ Addressed /\ Buffered /\ Grows
      /\ pending \in Seq(Call) /\ Len(pending) \in Nat
  BY NextTable, LenProperties DEF Inv, Rest, TypeOK
<1>2. /\ "idle" \in Pcs /\ "publish" \in Pcs /\ "restore" \in Pcs /\ "replay" \in Pcs
      /\ InApi \subseteq Pcs
  BY TypedPcs
<1>3. CASE Publish /\ pending' # pending
  <2>1. ~conn.connected /\ pending' = Append(pending, Len(calls)) /\ UNCHANGED <<conn, calls>>
    BY <1>3 DEF Publish, This
  <2>2. Len(calls) \in Call /\ Len(calls) \in 1 .. Len(calls) /\ calls[Len(calls)].over = "no"
    BY <1>1, <1>3, CurrentFacts DEF Publish, At
  <2> DEFINE x == Len(calls)
  <2>3. x \in Call /\ pending' = Append(pending, x)
    BY <2>1, <2>2
  <2> HIDE DEF x
  <2>4. /\ pending' \in Seq(Call) /\ Len(pending') = Len(pending) + 1 /\ pending'[Len(pending) + 1] = x
        /\ \A k \in 1 .. Len(pending) : pending'[k] = pending[k]
    BY <1>1, <2>3, Appended
  <2>5. \A k \in 1 .. Len(pending') : pending'[k] \in 1 .. Len(calls) /\ calls[pending'[k]].over # "timeout"
    BY <1>1, <2>2, <2>4 DEF Buffered, x
  <2> QED BY <2>1, <2>4, <2>5 DEF BufferSound, Buffered
<1>4. CASE Replay
  <2>1. /\ pending # <<>> /\ pending' = Tail(pending) /\ UNCHANGED <<calls, task>> /\ task.pc = "replay"
    BY <1>4 DEF Replay, At
  <2>2. /\ pending' \in Seq(Call) /\ Len(pending') = Len(pending) - 1
        /\ \A k \in 1 .. Len(pending') : pending'[k] = pending[k + 1]
    BY <1>1, <2>1, HeadTailProperties, EmptySeq
  <2> QED BY <1>1, <2>1, <2>2 DEF BufferSound, Buffered
<1>5. CASE RecvInfo
  <2>1. UNCHANGED <<calls, pending>>
    BY <1>5 DEF RecvInfo
  <2>2. task'.pc = "restore"
    BY <1>1, <1>5, Asides
  <2> QED BY <1>1, <2>1, <2>2 DEF BufferSound, Buffered
<1>6. CASE (\E sid \in Sid : AppUnsubscribes(sid) \/ Timeout(sid)) /\ ~RecvInfo
  <2> PICK sid \in Sid : AppUnsubscribes(sid) \/ Timeout(sid)
    BY <1>6
  <2>1. /\ pending' = pending /\ task' = task /\ Taken(sid)
        /\ task.pc \in {"idle", "process"}
    BY DEF AppUnsubscribes, Timeout, TimedOut, At
  <2>2. \/ Ends("unsubscribed", sid) \/ Ends("offline", sid)
        \/ Ends("timeout", sid) /\ conn.connected
    BY GivenUpCases
  <2> DEFINE c == slots[sid].call
  <2>3. PICK over \in {"timeout", "offline", "unsubscribed"} :
          Ends(over, sid) /\ (over = "timeout" => conn.connected)
    BY <2>2
  <2>4. PICK r \in CallRecord : calls' = [calls EXCEPT ![c] = r] /\ r.over = over
    BY <1>1, <2>3, EndsFacts
  <2>5. c \in 1 .. Len(calls)
    BY <1>1, <2>1, HolderFacts
  <2> HIDE DEF c
  <2>6. /\ Len(calls') = Len(calls) /\ calls'[c] = r
        /\ \A d \in 1 .. Len(calls) : d # c => calls'[d] = calls[d]
    BY <1>1, <2>4, <2>5, CallTypes
  <2>7. pending # <<>> => ~conn.connected
    BY <1>1, <2>1 DEF Buffered
  <2>8. \A k \in 1 .. Len(pending) : pending[k] \in 1 .. Len(calls') /\ calls'[pending[k]].over # "timeout"
    <3> SUFFICES ASSUME NEW k \in 1 .. Len(pending)
                 PROVE  pending[k] \in 1 .. Len(calls') /\ calls'[pending[k]].over # "timeout"
      OBVIOUS
    <3>1. pending # <<>>
      BY <1>1, EmptySeq
    <3>2. over # "timeout"
      BY <2>3, <2>7, <3>1
    <3>3. pending[k] \in 1 .. Len(calls) /\ calls[pending[k]].over # "timeout"
      BY <1>1 DEF Buffered
    <3> QED BY <2>4, <2>6, <3>2, <3>3
  <2>9. conn'.connected => conn.connected
    BY <1>6, ConnectedOnce
  <2> QED BY <1>1, <2>1, <2>7, <2>8, <2>9 DEF BufferSound, Buffered
<1>8. CASE /\ ~RecvInfo /\ ~Replay /\ ~(Publish /\ pending' # pending)
           /\ ~(\E sid \in Sid : AppUnsubscribes(sid) \/ Timeout(sid))
  <2>1. conn'.connected => conn.connected
    BY <1>8, ConnectedOnce
  <2>2. \A d \in 1 .. Len(calls) : calls'[d].over = calls[d].over
    BY <1>8, OverKept
  <2>3. pending' = pending
    BY <1>1, <1>8, RecvMsgFacts
    DEF Next, InCall, Process, StartCall, SubscribeFails, Subscribe, Publish, Chunk, FlushBegin, FlushTrue,
        FlushFalse, Restore, RestoreEnd, ReplayEnd, LinkBreaks, ServerReads, RecvPong, RecvEnd,
        KeepAlive, Tick, ProcessBegin, ProcessEnd, Dial, HandshakeFails
  <2>4. \A k \in 1 .. Len(pending) : calls'[pending[k]].over = calls[pending[k]].over
    BY <1>1, <2>2 DEF Buffered
  <2>5. task.pc \in {"restore", "replay"} =>
          task'.pc \in {"restore", "replay"} \/ pending = <<>> \/ ~conn'.connected
    <3> SUFFICES ASSUME task.pc \in {"restore", "replay"}
                 PROVE  task'.pc \in {"restore", "replay"} \/ pending = <<>> \/ ~conn'.connected
      OBVIOUS
    <3>1. CASE RestoreEnd
      BY <1>1, <3>1, Asides
    <3>2. CASE ReplayEnd
      BY <3>2 DEF ReplayEnd
    <3>3. CASE Restore
      <4>1. task' = [task EXCEPT !.i = task.i + 1] /\ task \in TaskRecord
        BY <1>1, <3>3 DEF Restore, TypeOK
      <4>2. task'.pc = task.pc
        BY <4>1 DEF TaskRecord
      <4> QED BY <4>2
    <3>4. CASE LinkBreaks \/ ServerReads \/ \E sid \in Sid : Tick(sid)
      BY <3>4 DEF LinkBreaks, ServerReads, Tick
    <3>5. CASE \/ StartCall \/ SubscribeFails \/ Subscribe \/ Publish \/ Chunk \/ FlushBegin \/ FlushTrue
               \/ FlushFalse \/ RecvMsg \/ RecvPong \/ RecvEnd \/ KeepAlive
               \/ ProcessBegin \/ ProcessEnd \/ Dial \/ HandshakeFails
      BY <3>5 DEF StartCall, SubscribeFails, Subscribe, Publish, Chunk, FlushBegin, FlushTrue,
                  FlushFalse, RecvMsg, RecvPong, RecvEnd, KeepAlive, ProcessBegin, ProcessEnd,
                  Dial, HandshakeFails, Receiving, At
    <3> QED BY <1>8, <3>1, <3>2, <3>3, <3>4, <3>5 DEF Next, InCall, Process
  <2> QED BY <1>1, <2>1, <2>3, <2>4, <2>5, BufferSame
<1> QED BY <1>3, <1>4, <1>5, <1>6, <1>8

-----------------------------------------------------------------------------
(* The theorems                                                            *)

LEMMA InitInv == Init => Inv
<1> SUFFICES ASSUME Init PROVE Inv
  OBVIOUS
<1>1. calls = <<>> /\ slots = <<>> /\ free = <<>> /\ pending = <<>> /\ out = <<>> /\ in = <<>>
      /\ task = Idle /\ pings = 0
  BY DEF Init
<1>2. conn \in ConnRecord
  <2>1. 0 \in 0 .. MaxDrops
    BY RequestsAssumption
  <2> QED BY <2>1 DEF Init, ConnRecord
<1>3. srv \in ServerRecord /\ \A s \in Sid : srv.serves[s] = None
  BY DEF Init, ServerRecord
<1>4. TypeOK
  BY <1>1, <1>2, <1>3, IdleFacts, ConstantFacts, EmptySeq DEF TypeOK
<1>5. Count("PING", out) = 0 /\ Count("PONG", in) = 0
  BY <1>1, CountEmpty
<1>6. Rest
  BY <1>1, <1>3, <1>5, IdleFacts
  DEF Rest, Current, Held, Holding, FreeSound, Addressed, Awaited, Buffered, Answered, OwnAnswers, InApi
<1> QED BY <1>4, <1>6 DEF Inv

LEMMA StutterInv ==
  ASSUME Inv, UNCHANGED vars PROVE Inv'
BY DEF Inv, vars, TypeOK, Rest, Current, Held, Holding, FreeSound, Addressed, Of, Awaited, Count, Places,
       Buffered, Answered, OwnAnswers

LEMMA NextInv == ASSUME Inv, Next PROVE Inv'
<1>1. TableTypes' /\ Table' /\ LinkSound /\ TaskSound /\ BufferSound
  BY NextTable, NextLink, NextTask, NextBuffer
<1>2. TypeOK'
  BY <1>1 DEF TypeOK, TableTypes, LinkSound, LinkTypes, TaskSound, BufferSound
<1>3. Rest'
  BY <1>1 DEF Rest, Table, LinkSound, TaskSound, BufferSound
<1> QED BY <1>2, <1>3 DEF Inv

LEMMA Invariance == Spec => []Inv
<1>1. Inv /\ [Next]_vars => Inv'
  BY NextInv, StutterInv
<1> QED BY InitInv, <1>1, PTL DEF Spec

\* The calls, the subscriptions, the buffer and what travels have their types, for
\* every number of calls and subscriptions and however the link breaks: no id
\* outside the table is answered, freed or restored.
THEOREM TypeCorrect == Spec => []TypeOK
<1>1. Inv => TypeOK
  BY DEF Inv
<1> QED BY <1>1, Invariance, PTL

\* The callback of a call gets the answers to this call, or late ones to a call that
\* was given up: recv() finds the callback by the id alone (nats_client.h, recv),
\* and an id is used again only after the call that had it is over.
THEOREM OwnAnswersAlways == Spec => []OwnAnswers
<1>1. Inv => OwnAnswers
  BY DEF Inv, Rest
<1> QED BY <1>1, Invariance, PTL

LEMMA SentLines ==
  ASSUME Inv, Next, NEW c \in 1 .. Len(calls), calls[c].over = "timeout", Sending(c, out')
  PROVE  Sending(c, out)
<1>1. TypeOK /\ out \in Seq(ToServer) /\ Held /\ Addressed
  BY DEF Inv, Rest, TypeOK
<1>2. ASSUME NEW k \in 1 .. Len(out'), out'[k].kind = "PUB", out'[k].call = c,
             \E j \in 1 .. Len(out) : out'[k] = out[j]
      PROVE  Sending(c, out)
  BY <1>2 DEF Sending
<1>3. ASSUME NEW line \in ToServer, Sent(line) PROVE Sending(c, out)
  <2>1. \/ out' = Append(out, line)
        \/ out' = out
        \/ out' = <<>>
    BY <1>1, <1>3, SendFacts DEF Sent
  <2>2. \A k \in 1 .. Len(out') : (k \in 1 .. Len(out) /\ out'[k] = out[k]) \/ out'[k] = line
    BY <1>1, <2>1, Appended
  <2>3. PICK k \in 1 .. Len(out') : out'[k].kind = "PUB" /\ out'[k].call = c
    BY DEF Sending
  <2>4. ~(line.kind = "PUB" /\ line.call = c)
    BY <1>3 DEF Sent
  <2> QED BY <2>2, <2>3, <2>4 DEF Sending
<1>4. CASE Cut \/ LinkBreaks \/ Dial
  <2>1. out' = <<>>
    BY <1>4 DEF Cut, LinkBreaks, Dial, Disconnect
  <2> QED BY <2>1 DEF Sending
<1>5. CASE ServerReads
  BY <1>1, <1>5, ServerReadsFacts DEF Sending
<1>6. CASE Quiet \/ RecvMsg \/ RecvPong \/ RecvInfo
  <2>1. out' = out
    BY <1>1, <1>6, RecvMsgFacts DEF Quiet, RecvPong, RecvInfo
  <2> QED BY <2>1 DEF Sending
<1> QED BY <1>3, <1>4, <1>5, <1>6, LinkCases

\* A request whose on_timeout a connected client has run is not sent any more: when
\* process() finds the client connected the buffer of unsent messages has been sent.
\* Of one that process() gives up over a socket without a connection this is not so
\* (GivenUpIsNeverSent).
THEOREM GivenUpIsNotSentAlways == Spec => GivenUpIsNotSent
<1>1. Inv /\ [Next]_vars =>
        [\A c \in 1 .. Len(calls) :
           calls[c].over = "timeout" /\ Sending(c, out') => Sending(c, out)]_vars
  BY SentLines
<1> QED BY <1>1, Invariance, PTL DEF Spec, GivenUpIsNotSent

-----------------------------------------------------------------------------
(* The chunks of an object                                                 *)

\* Where the chunks of a call stand among the lines under way.
ChunksOf(c, lines) == {k \in 1 .. Len(lines) : lines[k].kind = "CHUNK" /\ lines[k].call = c}

\* Stored, or on their way.
Handed(c) == srv.stored[c] + Cardinality(ChunksOf(c, out))

Stored(c) == srv.stored[c] = Chunks /\ ChunksOf(c, out) = {}

\* The server has been told, or may still be.
Published(c) ==
  srv.done[c] > 0 \/ Sending(c, out) \/ \E k \in 1 .. Len(pending) : pending[k] = c

\* Nothing has been sent for a call that has not been made.
Fresh ==
  /\ \A c \in Call : c > Len(calls) => srv.stored[c] = 0 /\ srv.done[c] = 0
  /\ \A k \in 1 .. Len(out) : out[k].kind = "CHUNK" => out[k].call \in 1 .. Len(calls)

Unpublished == task.pc \in InApi => ~Published(Len(calls))

\* While the link holds, no chunk of obj_put() is lost.
Putting ==
  task.pc \in {"chunk", "flush"} =>
    /\ conn.up /\ conn.large => Handed(Len(calls)) = task.i
    /\ task.pc = "flush" => task.i = Chunks

\* The PING of a clean flush() is behind all chunks, its PONG means that they are stored.
Flushing ==
  task.pc = "flushing" /\ calls[Len(calls)].clean =>
    /\ task.initial = 0
    /\ \A k \in 1 .. Len(out) : out[k].kind = "PING" =>
         /\ Handed(Len(calls)) = Chunks
         /\ \A j \in ChunksOf(Len(calls), out) : j < k
    /\ pings = 0 \/ (\E k \in 1 .. Len(in) : in[k].kind = "PONG") => Stored(Len(calls))

Flushed ==
  task.pc \in {"subscribe", "publish"} /\ calls[Len(calls)].clean => Stored(Len(calls))

Announced == \A c \in 1 .. Len(calls) : calls[c].clean /\ Published(c) => Stored(c)

LinkKnown == task.pc \in InApi => (conn.up => conn.connected)

StoreInv == Fresh /\ Unpublished /\ Putting /\ Flushing /\ Flushed /\ Announced /\ LinkKnown

LEMMA ChunksWhere ==
  ASSUME NEW s \in Seq(ToServer), NEW c
  PROVE  ChunksOf(c, s) = Where({x \in ToServer : x.kind = "CHUNK" /\ x.call = c}, s)
<1>1. \A k \in 1 .. Len(s) : s[k] \in ToServer
  BY LenProperties
<1> QED BY <1>1 DEF ChunksOf, Where

LEMMA ChunksType ==
  ASSUME NEW s \in Seq(ToServer), NEW c
  PROVE  /\ Cardinality(ChunksOf(c, s)) \in Nat
         /\ ChunksOf(c, s) = {} <=> Cardinality(ChunksOf(c, s)) = 0
         /\ ChunksOf(c, <<>>) = {}
<1> DEFINE L == {x \in ToServer : x.kind = "CHUNK" /\ x.call = c}
<1>1. ChunksOf(c, s) = Where(L, s)
  BY ChunksWhere
<1> HIDE DEF L
<1>2. IsFiniteSet(ChunksOf(c, s)) /\ Cardinality(ChunksOf(c, s)) \in Nat
  BY <1>1, WhereType
<1>3. ChunksOf(c, <<>>) = {}
  BY DEF ChunksOf
<1> QED BY <1>2, <1>3, FS_EmptySet

LEMMA ChunksAppend ==
  ASSUME NEW s \in Seq(ToServer), NEW x \in ToServer, NEW c
  PROVE  LET mine == x.kind = "CHUNK" /\ x.call = c IN
         /\ ~mine => ChunksOf(c, Append(s, x)) = ChunksOf(c, s)
         /\ Cardinality(ChunksOf(c, Append(s, x))) = Cardinality(ChunksOf(c, s)) + (IF mine THEN 1 ELSE 0)
<1> DEFINE L == {y \in ToServer : y.kind = "CHUNK" /\ y.call = c}
           t == Append(s, x)
           mine == x.kind = "CHUNK" /\ x.call = c
<1>1. t \in Seq(ToServer)
  BY AppendProperties
<1>2. ChunksOf(c, s) = Where(L, s) /\ ChunksOf(c, t) = Where(L, t)
  <2> HIDE DEF t
  <2> QED BY <1>1, ChunksWhere
<1>3. x \in L <=> mine
  OBVIOUS
<1> HIDE DEF L, mine
<1>4. /\ Where(L, t) = IF x \in L THEN Where(L, s) \cup {Len(s) + 1} ELSE Where(L, s)
      /\ Cardinality(Where(L, t)) = Cardinality(Where(L, s)) + (IF x \in L THEN 1 ELSE 0)
  BY WhereAppend
<1> HIDE DEF t
<1>5. /\ ~mine => ChunksOf(c, t) = ChunksOf(c, s)
      /\ Cardinality(ChunksOf(c, t)) = Cardinality(ChunksOf(c, s)) + (IF mine THEN 1 ELSE 0)
  BY <1>2, <1>3, <1>4
<1> QED BY <1>5 DEF t, mine

LEMMA ChunksTail ==
  ASSUME NEW s \in Seq(ToServer), s # <<>>, NEW c
  PROVE  LET mine == Head(s).kind = "CHUNK" /\ Head(s).call = c IN
         /\ \A k \in ChunksOf(c, Tail(s)) : k + 1 \in ChunksOf(c, s)
         /\ mine => ChunksOf(c, s) # {}
         /\ Cardinality(ChunksOf(c, s)) = Cardinality(ChunksOf(c, Tail(s))) + (IF mine THEN 1 ELSE 0)
<1> DEFINE L == {y \in ToServer : y.kind = "CHUNK" /\ y.call = c}
           x == Head(s)
           mine == x.kind = "CHUNK" /\ x.call = c
<1>1. Tail(s) \in Seq(ToServer) /\ x \in ToServer /\ x = s[1] /\ 1 \in 1 .. Len(s)
  BY HeadTailProperties, EmptySeq
<1>2. ChunksOf(c, s) = Where(L, s) /\ ChunksOf(c, Tail(s)) = Where(L, Tail(s))
  BY <1>1, ChunksWhere
<1>3. x \in L <=> mine
  BY <1>1
<1>4. mine => 1 \in ChunksOf(c, s)
  BY <1>1 DEF ChunksOf
<1> HIDE DEF L, mine
<1>5. /\ \A k \in Where(L, Tail(s)) : k + 1 \in Where(L, s)
      /\ Cardinality(Where(L, s)) = Cardinality(Where(L, Tail(s))) + (IF x \in L THEN 1 ELSE 0)
  BY WhereTail
<1> HIDE DEF x
<1>6. /\ \A k \in ChunksOf(c, Tail(s)) : k + 1 \in ChunksOf(c, s)
      /\ mine => ChunksOf(c, s) # {}
      /\ Cardinality(ChunksOf(c, s)) = Cardinality(ChunksOf(c, Tail(s))) + (IF mine THEN 1 ELSE 0)
  BY <1>2, <1>3, <1>4, <1>5
<1> QED BY <1>6 DEF mine, x

\* What the steps do to the calls and to the server, as far as the chunks go.
SameCalls ==
  /\ Len(calls') = Len(calls)
  /\ \A c \in 1 .. Len(calls) : calls'[c].clean = calls[c].clean

SameWork == srv'.stored = srv.stored /\ srv'.done = srv.done

FewerPending == \A k \in 1 .. Len(pending') : \E j \in 1 .. Len(pending) : pending'[k] = pending[j]

\* A line that is neither a chunk nor a publication other than one that was buffered.
Harmless(line) ==
  /\ line.kind # "CHUNK"
  /\ line.kind = "PUB" => \E j \in 1 .. Len(pending) : pending[j] = line.call

NoMoreSent ==
  \/ out' = out \/ out' = <<>>
  \/ \E line \in ToServer : Harmless(line) /\ out' = Append(out, line)

\* The link after a line was sent, or after a step that does not use it.
LinkKept == UNCHANGED <<conn, out, in>>
LinkLost == ~conn'.up /\ out' = <<>>

LEMMA SendLink ==
  ASSUME TypeOK, NEW line \in ToServer, Send(line)
  PROVE  \/ conn.up /\ conn' = conn /\ in' = in /\ out' = Append(out, line)
         \/ ~conn.up /\ LinkKept
         \/ LinkLost /\ in' = <<>>
<1>1. Disconnect => LinkLost /\ in' = <<>>
  BY DEF TypeOK, ConnRecord, Disconnect, LinkLost
<1> QED BY <1>1 DEF Send, LinkKept

LEMMA SendHarmless ==
  ASSUME TypeOK, NEW line \in ToServer, Send(line), Harmless(line)
  PROVE  NoMoreSent /\ (conn' = conn \/ ~conn'.up)
BY SendLink DEF NoMoreSent, LinkKept, LinkLost

\* Then what is stored stays stored, and what is not published is not published.
LEMMA Keeps ==
  ASSUME TypeOK, SameWork, FewerPending, NoMoreSent, NEW c
  PROVE  /\ out' \in Seq(ToServer)
         /\ Published(c)' => Published(c)
         /\ Stored(c) => Stored(c)'
         /\ \A k \in 1 .. Len(out') : out'[k].kind = "CHUNK" => \E j \in 1 .. Len(out) : out'[k] = out[j]
<1>1. out \in Seq(ToServer) /\ Len(out) \in Nat /\ ChunksOf(c, <<>>) = {}
  BY LenProperties, ChunksType DEF TypeOK
<1>2. CASE out' = out
  BY <1>1, <1>2 DEF Published, Stored, SameWork, FewerPending, Sending
<1>3. CASE out' = <<>>
  <2>1. out' \in Seq(ToServer) /\ ~Sending(c, out') /\ Len(out') = 0
    BY <1>3, EmptySeq DEF Sending
  <2> QED BY <1>1, <1>3, <2>1 DEF Published, Stored, SameWork, FewerPending
<1>4. ASSUME NEW line \in ToServer, Harmless(line), out' = Append(out, line)
      PROVE  /\ out' \in Seq(ToServer)
             /\ Published(c)' => Published(c)
             /\ Stored(c) => Stored(c)'
             /\ \A k \in 1 .. Len(out') : out'[k].kind = "CHUNK" => \E j \in 1 .. Len(out) : out'[k] = out[j]
  <2>1. /\ out' \in Seq(ToServer) /\ Len(out') = Len(out) + 1
        /\ \A k \in 1 .. Len(out) : out'[k] = out[k]
        /\ out'[Len(out) + 1] = line
    BY <1>1, <1>4, Appended
  <2>2. ChunksOf(c, out') = ChunksOf(c, out)
    BY <1>1, <1>4, ChunksAppend DEF Harmless
  <2>3. \A k \in 1 .. Len(out') : (k \in 1 .. Len(out) /\ out'[k] = out[k]) \/ out'[k] = line
    BY <1>1, <2>1
  <2>4. Sending(c, out') => Sending(c, out) \/ \E k \in 1 .. Len(pending) : pending[k] = c
    BY <1>4, <2>3 DEF Sending, Harmless
  <2>5. Published(c)' => Published(c)
    BY <2>4 DEF Published, SameWork, FewerPending
  <2> QED BY <1>4, <2>1, <2>2, <2>3, <2>5 DEF Stored, SameWork, Harmless
<1> QED BY <1>2, <1>3, <1>4 DEF NoMoreSent

\* A step that neither makes chunks nor publishes, nor takes a call further than its
\* subscription.
Steady ==
  /\ SameCalls /\ SameWork /\ FewerPending /\ NoMoreSent
  /\ task'.pc \in InApi => task.pc \in InApi
  /\ task'.pc \in {"subscribe", "publish"} => task.pc \in {"subscribe", "publish"}
  /\ task'.pc \in InApi => conn' = conn \/ ~conn'.up \/ conn'.connected

\* What is left of StoreInv if the task is not inside obj_put().
Settled == Fresh /\ Unpublished /\ Flushed /\ Announced /\ LinkKnown

LEMMA SteadySettled ==
  ASSUME TypeOK, Settled, Current, Steady PROVE Settled'
<1>1. Len(calls) \in Nat /\ Len(calls') = Len(calls)
  BY Lengths DEF TypeOK, Steady, SameCalls
<1> PICK n \in Nat : n = Len(calls) /\ n = Len(calls')
  BY <1>1
<1>2. ASSUME NEW c
      PROVE  /\ Published(c)' => Published(c)
             /\ Stored(c) => Stored(c)'
  BY Keeps DEF Steady
<1>3. \A k \in 1 .. Len(out') : out'[k].kind = "CHUNK" => \E j \in 1 .. Len(out) : out'[k] = out[j]
  BY Keeps DEF Steady
<1>4. Fresh'
  <2>1. \A c \in Call : c > n => srv'.stored[c] = 0 /\ srv'.done[c] = 0
    BY DEF Steady, SameWork, Settled, Fresh
  <2>2. \A k \in 1 .. Len(out') : out'[k].kind = "CHUNK" => out'[k].call \in 1 .. n
    BY <1>3 DEF Settled, Fresh
  <2> QED BY <2>1, <2>2 DEF Fresh
<1>5. Unpublished'
  <2>1. Published(n)' => Published(n)
    BY <1>2
  <2> QED BY <1>1, <2>1 DEF Steady, Settled, Unpublished
<1>6. Flushed'
  <2> SUFFICES ASSUME task'.pc \in {"subscribe", "publish"}, calls'[n].clean
               PROVE  Stored(n)'
    BY <1>1 DEF Flushed
  <2>1. task.pc \in {"subscribe", "publish"}
    BY DEF Steady
  <2>2. n \in 1 .. Len(calls)
    BY <2>1, CurrentFacts DEF InApi
  <2>3. calls[n].clean
    BY <2>2 DEF Steady, SameCalls
  <2>4. Stored(n)
    BY <2>1, <2>3 DEF Settled, Flushed
  <2> QED BY <1>2, <2>4
<1>7. Announced'
  <2> SUFFICES ASSUME NEW c \in 1 .. Len(calls), calls'[c].clean, Published(c)'
               PROVE  Stored(c)'
    BY <1>1 DEF Announced
  <2>1. calls[c].clean /\ Published(c)
    BY <1>2 DEF Steady, SameCalls
  <2>2. Stored(c)
    BY <2>1 DEF Settled, Announced
  <2> QED BY <1>2, <2>2
<1>8. LinkKnown'
  BY DEF Steady, Settled, LinkKnown
<1> QED BY <1>4, <1>5, <1>6, <1>7, <1>8 DEF Settled

\* A step leaves the task where it is, or moves it out of the API.
Aside ==
  \/ task' = task
  \/ task'.pc \notin InApi \cup {"publish"}
  \/ task.pc = "subscribe" /\ task'.pc = "publish"

LEMMA AsideFacts ==
  ASSUME Aside
  PROVE  /\ task'.pc \in InApi => task.pc \in InApi
         /\ task'.pc \in {"subscribe", "publish"} => task.pc \in {"subscribe", "publish"}
         /\ task'.pc \in {"chunk", "flush", "flushing"} => task' = task
BY DEF Aside, InApi

LEMMA OneCall ==
  ASSUME TypeOK, NEW c \in 1 .. Len(calls), NEW r \in CallRecord, r.clean = calls[c].clean,
         calls' = [calls EXCEPT ![c] = r]
  PROVE  SameCalls
BY CallTypes DEF SameCalls

LEMMA QuietSteady ==
  ASSUME TypeOK, UNCHANGED <<calls, pending, srv>>, NoMoreSent, Aside,
         conn' = conn \/ ~conn'.up \/ conn'.connected
  PROVE  Steady
<1>1. SameCalls /\ SameWork /\ FewerPending
  BY DEF SameCalls, SameWork, FewerPending
<1> QED BY <1>1, AsideFacts DEF Steady

LEMMA EndsSteady ==
  ASSUME Inv, NEW sid \in Sid, NEW over \in {"timeout", "offline", "unsubscribed"}, Ends(over, sid)
  PROVE  Steady
<1>1. TypeOK /\ Held
  BY DEF Inv, Rest
<1>2. PICK r \in CallRecord :
        /\ calls' = [calls EXCEPT ![slots[sid].call] = r]
        /\ r.clean = calls[slots[sid].call].clean
  BY <1>1, EndsFacts
<1>3. SameCalls
  <2>1. slots[sid].call \in 1 .. Len(calls)
    BY <1>1, HolderFacts DEF Ends
  <2> QED BY <1>1, <1>2, <2>1, OneCall
<1>4. Line("UNSUB", sid, None) \in ToServer /\ Harmless(Line("UNSUB", sid, None))
  BY LineTypes DEF Harmless
<1>5. NoMoreSent /\ (conn' = conn \/ ~conn'.up)
  <2>1. CASE Send(Line("UNSUB", sid, None))
    BY <1>1, <1>4, <2>1, SendHarmless
  <2>2. CASE UNCHANGED <<conn, out, in>>
    BY <2>2 DEF NoMoreSent
  <2> QED BY <2>1, <2>2 DEF Ends, Unsubscribe
<1>6. SameWork /\ FewerPending /\ Aside
  BY DEF Ends, SameWork, FewerPending, Aside
<1> QED BY <1>3, <1>5, <1>6, AsideFacts DEF Steady

LEMMA SubscribeSteady ==
  ASSUME Inv, Subscribe PROVE Steady
<1>1. TypeOK /\ Current /\ FreeSound
  BY DEF Inv, Rest
<1> DEFINE c == Len(calls)
           r == [calls[c] EXCEPT !.sid = NextSid]
           line == Line("SUB", NextSid, c)
<1>2. /\ c \in 1 .. Len(calls) /\ r \in CallRecord /\ calls' = [calls EXCEPT ![c] = r]
      /\ r.clean = calls[c].clean
      /\ line \in ToServer /\ Send(line) /\ Filled(NextSid, c)
      /\ task'.pc \in {"idle", "publish"}
  BY <1>1, SubscribeFacts
<1>3. SameCalls
  <2> HIDE DEF r
  <2> QED BY <1>1, <1>2, OneCall
<1>4. line.kind = "SUB"
  BY DEF Line
<1>5. Harmless(line)
  BY <1>4 DEF Harmless
<1> HIDE DEF line
<1>6. NoMoreSent /\ (conn' = conn \/ ~conn'.up)
  BY <1>1, <1>2, <1>5, SendHarmless
<1>7. SameWork /\ FewerPending
  BY DEF Subscribe, SameWork, FewerPending
<1>8. Aside
  BY <1>2 DEF Subscribe, At, Aside, InApi
<1> QED BY <1>3, <1>6, <1>7, <1>8, AsideFacts DEF Steady

LEMMA ReplaySteady ==
  ASSUME Inv, Replay PROVE Steady
<1>1. TypeOK /\ pending \in Seq(Call) /\ pending # <<>> /\ pending' = Tail(pending)
  BY DEF Inv, TypeOK, Replay
<1>2. /\ Head(pending) = pending[1] /\ 1 \in 1 .. Len(pending) /\ Head(pending) \in Call
      /\ Len(pending') = Len(pending) - 1 /\ Len(pending) \in Nat
      /\ \A k \in 1 .. Len(pending') : pending'[k] = pending[k + 1]
  BY <1>1, HeadTailProperties, EmptySeq
<1>3. FewerPending
  <2>1. \A k \in 1 .. Len(pending') : k + 1 \in 1 .. Len(pending)
    BY <1>2
  <2> QED BY <1>2, <2>1 DEF FewerPending
<1> DEFINE line == Line("PUB", None, Head(pending))
<1>4. line \in ToServer /\ line.kind = "PUB" /\ line.call = Head(pending)
  BY <1>2, LineTypes
<1>5. Send(line) /\ task' = task /\ calls' = calls /\ srv' = srv
  BY DEF Replay
<1> HIDE DEF line
<1>6. Harmless(line)
  BY <1>2, <1>4 DEF Harmless
<1>7. NoMoreSent /\ (conn' = conn \/ ~conn'.up)
  BY <1>1, <1>4, <1>5, <1>6, SendHarmless
<1>8. Aside /\ SameCalls /\ SameWork
  BY <1>5 DEF Aside, SameCalls, SameWork
<1> QED BY <1>3, <1>7, <1>8, AsideFacts DEF Steady

LEMMA RestoreSteady ==
  ASSUME Inv, Restore PROVE Steady
<1>1. TypeOK /\ Held
  BY DEF Inv, Rest
<1> DEFINE sid == task.i + 1
<1>2. UNCHANGED <<calls, pending, srv>> /\ Aside
  <2>1. task' = [task EXCEPT !.i = @ + 1] /\ task.pc = "restore" /\ task \in TaskRecord
    BY <1>1 DEF Restore, At, TypeOK
  <2>2. task'.pc = "restore"
    BY <2>1 DEF TaskRecord
  <2> QED BY <2>2 DEF Restore, Aside, InApi
<1>3. CASE Restorable(sid) /\ Send(Line("SUB", sid, slots[sid].call))
  <2>1. Taken(sid)
    BY <1>3 DEF Restorable
  <2>2. sid \in Sid
    BY <1>1, <2>1, Lengths, ConstantFacts DEF Taken, TypeOK, Sid
  <2>3. slots[sid].call \in Call
    <3>1. slots[sid].call \in 1 .. Len(calls)
      BY <1>1, <2>1, <2>2, HolderFacts
    <3> QED BY <1>1, <3>1, Lengths, ConstantFacts DEF TypeOK, Call
  <2> DEFINE call == slots[sid].call
             line == Line("SUB", sid, call)
  <2>4. line.kind = "SUB"
    BY DEF Line
  <2>5. line \in ToServer
    <3> HIDE DEF sid, call
    <3>1. sid \in Sid /\ call \in Call
      BY <2>2, <2>3 DEF call
    <3> QED BY <3>1 DEF Line, ToServer
  <2>6. Harmless(line) /\ Send(line)
    BY <1>3, <2>4 DEF Harmless
  <2> HIDE DEF line
  <2>7. NoMoreSent /\ (conn' = conn \/ ~conn'.up)
    BY <1>1, <2>5, <2>6, SendHarmless
  <2> QED BY <1>1, <1>2, <2>7, QuietSteady
<1>4. CASE UNCHANGED <<conn, out, in>>
  BY <1>1, <1>2, <1>4, QuietSteady DEF NoMoreSent
<1> QED BY <1>3, <1>4 DEF Restore

LEMMA KeepAliveSteady ==
  ASSUME Inv, KeepAlive PROVE Steady
<1>1. TypeOK
  BY DEF Inv
<1> DEFINE line == Line("PING", None, None)
<1>2. line \in ToServer /\ line.kind = "PING"
  BY LineTypes
<1>3. Send(line) /\ UNCHANGED <<calls, pending, srv>> /\ task' = task
  BY DEF KeepAlive
<1> HIDE DEF line
<1>4. Harmless(line)
  BY <1>2 DEF Harmless
<1>5. NoMoreSent /\ (conn' = conn \/ ~conn'.up)
  BY <1>1, <1>2, <1>3, <1>4, SendHarmless
<1>6. Aside
  BY <1>3 DEF Aside
<1> QED BY <1>1, <1>3, <1>5, <1>6, QuietSteady

LEMMA RecvMsgSteady ==
  ASSUME Inv, RecvMsg PROVE Steady
<1>1. TypeOK /\ Held /\ Addressed
  BY DEF Inv, Rest
<1>2. UNCHANGED <<task, pending, conn, out, srv>>
  BY DEF RecvMsg
<1>3. SameCalls
  <2>1. CASE calls' = calls
    BY <2>1 DEF SameCalls
  <2>2. ASSUME NEW sid \in Sid, NEW r \in CallRecord, Taken(sid),
               calls' = [calls EXCEPT ![slots[sid].call] = r],
               r.clean = calls[slots[sid].call].clean
        PROVE  SameCalls
    <3>1. slots[sid].call \in 1 .. Len(calls)
      BY <1>1, <2>2, HolderFacts
    <3> QED BY <1>1, <2>2, <3>1, OneCall
  <2> QED BY <1>1, <2>1, <2>2, RecvMsgFacts
<1> QED BY <1>2, <1>3, AsideFacts DEF Steady, SameWork, FewerPending, NoMoreSent, Aside

\* The steps that lose or make a link.
LEMMA LinkSteady ==
  ASSUME Inv, LinkBreaks \/ RecvEnd \/ Dial \/ RecvInfo \/ HandshakeFails PROVE Steady
<1>1. TypeOK /\ conn \in ConnRecord
  BY DEF Inv, TypeOK
<1>2. NoMoreSent
  BY DEF NoMoreSent, LinkBreaks, RecvEnd, Dial, RecvInfo, HandshakeFails, Disconnect
<1>3. SameCalls /\ FewerPending
  BY DEF SameCalls, FewerPending, LinkBreaks, RecvEnd, Dial, RecvInfo, HandshakeFails
<1>4. SameWork
  <2>1. ASSUME NEW f, srv' = [srv EXCEPT !.serves = f] PROVE SameWork
    BY <1>1, <2>1 DEF TypeOK, ServerRecord, SameWork
  <2>2. CASE srv' = srv
    BY <2>2 DEF SameWork
  <2> QED BY <2>1, <2>2 DEF LinkBreaks, RecvEnd, Dial, RecvInfo, HandshakeFails
<1>5. Aside /\ (task'.pc \in InApi => conn' = conn \/ ~conn'.up \/ conn'.connected)
  <2>1. CASE LinkBreaks \/ RecvEnd
    BY <1>1, <2>1 DEF ConnRecord, LinkBreaks, RecvEnd, Disconnect, Aside
  <2>2. CASE Dial \/ RecvInfo \/ HandshakeFails
    BY <1>1, <2>2, Asides DEF Aside, InApi
  <2> QED BY <2>1, <2>2
<1> QED BY <1>2, <1>3, <1>4, <1>5, AsideFacts DEF Steady

Other ==
  StartCall \/ Publish \/ Chunk \/ FlushBegin \/ FlushTrue \/ ServerReads

LEMMA NextSteady ==
  ASSUME Inv, Next PROVE Steady \/ Other
<1>1. TypeOK
  BY DEF Inv
<1>2. CASE SubscribeFails \/ FlushFalse \/ RestoreEnd \/ ReplayEnd \/ ProcessBegin \/ ProcessEnd
  <2>1. UNCHANGED <<calls, pending, srv, conn, out>>
    BY <1>2 DEF SubscribeFails, FlushFalse, RestoreEnd, ReplayEnd, ProcessBegin, ProcessEnd
  <2>2. Aside
    <3>1. CASE SubscribeFails
      <4>1. task.pc = "subscribe" /\ (Begin("idle") \/ Begin("publish"))
        BY <3>1 DEF SubscribeFails, At
      <4>2. (Begin("idle") => task'.pc = "idle") /\ (Begin("publish") => task'.pc = "publish")
        BY BeginFacts DEF Pcs
      <4> QED BY <4>1, <4>2 DEF Aside, InApi
    <3>2. CASE FlushFalse \/ RestoreEnd \/ ReplayEnd \/ ProcessBegin \/ ProcessEnd
      BY <1>1, <3>2, Asides DEF Aside, InApi
    <3> QED BY <1>2, <3>1, <3>2
  <2> QED BY <1>1, <2>1, <2>2, QuietSteady DEF NoMoreSent
<1>3. CASE RecvPong \/ \E sid \in Sid : Tick(sid)
  BY <1>1, <1>3, QuietSteady DEF RecvPong, Tick, NoMoreSent, Aside
<1>4. CASE \E sid \in Sid : AppUnsubscribes(sid) \/ Timeout(sid)
  BY <1>4, EndsSteady, GivenUpCases
<1> QED BY <1>2, <1>3, <1>4, SubscribeSteady, ReplaySteady, RestoreSteady, KeepAliveSteady,
           RecvMsgSteady, LinkSteady DEF Next, InCall, Process, Other

\* Inside obj_put() the other steps are those of the link, of what arrives and of time.
LEMMA StaysPut ==
  ASSUME Inv, Next, ~Other, task'.pc \in {"chunk", "flush", "flushing"}
  PROVE  /\ task' = task
         /\ \/ LinkBreaks \/ \E sid \in Sid : Tick(sid)
            \/ task.pc = "flushing" /\ (RecvMsg \/ RecvPong \/ RecvEnd)
<1>1. TypeOK
  BY DEF Inv
<1>2. ASSUME SubscribeFails \/ Subscribe PROVE FALSE
  <2>1. Begin("idle") \/ Begin("publish")
    BY <1>2 DEF SubscribeFails, Subscribe
  <2>2. (Begin("idle") => task'.pc = "idle") /\ (Begin("publish") => task'.pc = "publish")
    BY BeginFacts DEF Pcs
  <2> QED BY <2>1, <2>2
<1>3. ASSUME \/ FlushFalse \/ RestoreEnd \/ ReplayEnd \/ ProcessBegin \/ ProcessEnd
             \/ Dial \/ RecvInfo \/ HandshakeFails
      PROVE  FALSE
  BY <1>1, <1>3, Asides
<1>4. ASSUME Restore \/ Replay \/ KeepAlive \/ \E sid \in Sid : AppUnsubscribes(sid) \/ Timeout(sid)
      PROVE  FALSE
  <2>1. Restore => task'.pc = "restore"
    BY <1>1 DEF Restore, At, TypeOK, TaskRecord
  <2> QED BY <1>4, <2>1 DEF Replay, KeepAlive, AppUnsubscribes, Timeout, At
<1>5. ASSUME RecvMsg \/ RecvPong \/ RecvEnd PROVE task' = task /\ task.pc = "flushing"
  BY <1>5 DEF RecvMsg, RecvPong, RecvEnd, Receiving, At
<1>6. ASSUME LinkBreaks \/ \E sid \in Sid : Tick(sid) PROVE task' = task
  BY <1>6 DEF LinkBreaks, Tick
<1> QED BY <1>2, <1>3, <1>4, <1>5, <1>6 DEF Next, InCall, Process, Other

Pong(lines) == \E k \in 1 .. Len(lines) : lines[k].kind = "PONG"

\* A step that only takes PONGs away.
LEMMA FewerPongs ==
  ASSUME TypeOK, LinkBreaks \/ RecvMsg \/ RecvPong \/ RecvEnd
  PROVE  /\ Pong(in') => Pong(in)
         /\ pings' = pings \/ Pong(in)
         /\ out' = out \/ out' = <<>>
<1>1. in \in Seq(ToClient) /\ Len(in) \in Nat
  BY LenProperties DEF TypeOK
<1>2. CASE LinkBreaks
  <2>1. PICK n \in 0 .. Len(in) : in' = SubSeq(in, 1, n)
    BY <1>2 DEF LinkBreaks
  <2>2. Len(in') = n /\ \A k \in 1 .. n : in'[k] = in[k]
    BY <1>1, <2>1, CountPrefix
  <2>3. \A k \in 1 .. n : k \in 1 .. Len(in)
    BY <1>1, <2>1
  <2> QED BY <1>2, <2>2, <2>3 DEF LinkBreaks, Pong
<1>3. CASE RecvEnd
  <2>1. in' = <<>> /\ out' = <<>> /\ pings' = pings
    BY <1>3 DEF RecvEnd, Disconnect
  <2>2. ~Pong(in')
    BY <2>1, EmptySeq DEF Pong
  <2> QED BY <2>1, <2>2
<1>4. CASE RecvMsg \/ RecvPong
  <2>1. in' = Tail(in) /\ in # <<>> /\ out' = out
    BY <1>4 DEF RecvMsg, RecvPong
  <2>2. /\ Head(in) = in[1] /\ 1 \in 1 .. Len(in)
        /\ Len(in') = Len(in) - 1 /\ \A k \in 1 .. Len(in') : in'[k] = in[k + 1]
    BY <1>1, <2>1, HeadTailProperties, EmptySeq
  <2>3. \A k \in 1 .. Len(in') : k + 1 \in 1 .. Len(in)
    BY <1>1, <2>2
  <2>4. pings' = pings \/ Head(in).kind = "PONG"
    BY <1>4 DEF RecvMsg, RecvPong
  <2> QED BY <2>1, <2>2, <2>3, <2>4 DEF Pong
<1> QED BY <1>2, <1>3, <1>4

LEMMA PuttingKept ==
  ASSUME Inv, Putting, Next, ~Other PROVE Putting'
<1> SUFFICES ASSUME task'.pc \in {"chunk", "flush"} PROVE Putting'
  BY DEF Putting
<1>1. task' = task /\ (LinkBreaks \/ \E sid \in Sid : Tick(sid))
  BY StaysPut
<1>2. CASE LinkBreaks
  <2>1. ~conn'.up
    BY <1>2 DEF Inv, TypeOK, ConnRecord, LinkBreaks
  <2> QED BY <1>1, <2>1 DEF Putting
<1>3. CASE \E sid \in Sid : Tick(sid)
  BY <1>3 DEF Tick, Putting, Handed
<1> QED BY <1>1, <1>2, <1>3

LEMMA FlushingKept ==
  ASSUME Inv, Flushing, Steady, Next, ~Other PROVE Flushing'
<1>1. TypeOK /\ Current
  BY DEF Inv, Rest
<1> PICK n : n = Len(calls) /\ n = Len(calls')
  BY DEF Steady, SameCalls
<1> SUFFICES ASSUME task'.pc = "flushing", calls'[n].clean
             PROVE  /\ task'.initial = 0
                    /\ \A k \in 1 .. Len(out') : out'[k].kind = "PING" =>
                         /\ Handed(n)' = Chunks
                         /\ \A j \in ChunksOf(n, out') : j < k
                    /\ pings' = 0 \/ Pong(in') => Stored(n)'
  BY DEF Flushing, Pong
<1>9. task' = task /\ (LinkBreaks \/ (\E sid \in Sid : Tick(sid)) \/ RecvMsg \/ RecvPong \/ RecvEnd)
  BY StaysPut
<1>2. n \in 1 .. Len(calls) /\ calls[n].clean
  BY <1>1, <1>9, CurrentFacts DEF InApi, Steady, SameCalls
<1>3. /\ task.initial = 0
      /\ \A k \in 1 .. Len(out) : out[k].kind = "PING" =>
           /\ Handed(n) = Chunks
           /\ \A j \in ChunksOf(n, out) : j < k
      /\ pings = 0 \/ Pong(in) => Stored(n)
  BY <1>9, <1>2 DEF Flushing, Pong
<1>4. CASE \E sid \in Sid : Tick(sid)
  <2>1. UNCHANGED <<task, out, in, srv, pings>>
    BY <1>4 DEF Tick
  <2> QED BY <1>3, <2>1 DEF Handed, Stored
<1>5. CASE LinkBreaks \/ RecvMsg \/ RecvPong \/ RecvEnd
  <2>1. /\ Pong(in') => Pong(in)
        /\ pings' = pings \/ Pong(in)
        /\ out' = out \/ out' = <<>>
    BY <1>1, <1>5, FewerPongs
  <2>2. Stored(n) => Stored(n)'
    BY <1>1, Keeps DEF Steady
  <2>3. out' = out => Handed(n)' = Handed(n)
    BY DEF Steady, SameWork, Handed
  <2>4. out' = <<>> => Len(out') = 0
    BY EmptySeq
  <2> QED BY <1>9, <1>3, <2>1, <2>2, <2>3, <2>4
<1> QED BY <1>9, <1>4, <1>5

LEMMA SteadyStore ==
  ASSUME Inv, StoreInv, Steady, Next, ~Other PROVE StoreInv'
<1>1. TypeOK /\ Current /\ Settled
  BY DEF Inv, Rest, StoreInv, Settled
<1>2. Settled'
  BY <1>1, SteadySettled
<1>3. Putting' /\ Flushing'
  BY PuttingKept, FlushingKept DEF StoreInv
<1> QED BY <1>2, <1>3 DEF StoreInv, Settled

\* The server knows only of calls that were made.
LEMMA KnownCalls ==
  ASSUME Inv, Fresh, NEW c \in Call, c > Len(calls)
  PROVE  ~Published(c) /\ srv.stored[c] = 0 /\ ChunksOf(c, out) = {}
<1>1. Len(calls) \in Nat /\ c \in Nat /\ c \notin 1 .. Len(calls)
  BY Lengths, ConstantFacts DEF Inv, TypeOK
<1>2. srv.stored[c] = 0 /\ srv.done[c] = 0 /\ ChunksOf(c, out) = {}
  BY <1>1 DEF Fresh, ChunksOf
<1>3. ~Sending(c, out)
  BY <1>1 DEF Inv, Rest, Addressed, Sending
<1>4. ~\E k \in 1 .. Len(pending) : pending[k] = c
  BY <1>1 DEF Inv, Rest, Buffered
<1> QED BY <1>2, <1>3, <1>4 DEF Published

LEMMA StartStore ==
  ASSUME Inv, StoreInv, StartCall PROVE StoreInv'
<1>1. /\ TypeOK /\ calls \in Seq(CallRecord) /\ task.pc = "idle"
      /\ UNCHANGED <<pending, conn, pings, out, in, srv>>
  BY DEF Inv, TypeOK, StartCall, At
<1>2. PICK r : NewCall(r) /\ calls' = Append(calls, r)
  BY <1>1, StartFacts
<1>3. /\ Len(calls') = Len(calls) + 1 /\ Len(calls) \in Nat
      /\ \A k \in 1 .. Len(calls) : calls'[k] = calls[k]
      /\ calls'[Len(calls) + 1] = r
  BY <1>1, <1>2, Appended DEF NewCall
<1> PICK n \in Nat : n = Len(calls) + 1 /\ n = Len(calls')
  BY <1>3
<1>4. n \in Call /\ ~calls'[n].clean
  BY <1>1, <1>2, <1>3, StartFacts, ConstantFacts DEF NewCall, Call
<1>5. ~Published(n) /\ srv.stored[n] = 0 /\ ChunksOf(n, out) = {}
  <2>1. n > Len(calls)
    BY <1>3
  <2> QED BY <1>4, <2>1, KnownCalls DEF StoreInv
<1>6. ~Published(n)' /\ Handed(n)' = 0
  <2>1. Published(n)' <=> Published(n)
    BY <1>1 DEF Published
  <2>2. Cardinality(ChunksOf(n, out)) = 0
    BY <1>5, FS_EmptySet
  <2>3. Handed(n)' = Handed(n) /\ Handed(n) = 0
    BY <1>1, <1>5, <2>2 DEF Handed
  <2> QED BY <1>5, <2>1, <2>3
<1>7. task'.pc \notin {"flush", "flushing"} /\ (task'.pc = "chunk" => task'.i = 0)
  <2>1. ASSUME NEW op \in Api, Begin(FirstStep(op))
        PROVE  task'.pc = FirstStep(op) /\ task'.i = 0
    BY <2>1 DEF Begin, Idle
  <2>2. \A op \in Api : FirstStep(op) \in {"chunk", "subscribe", "publish"}
    BY DEF FirstStep
  <2> QED BY <2>1, <2>2 DEF StartCall
<1>8. Fresh'
  <2>1. \A c \in Call : c > n => srv.stored[c] = 0 /\ srv.done[c] = 0
    <3> SUFFICES ASSUME NEW c \in Call, c > n PROVE srv.stored[c] = 0 /\ srv.done[c] = 0
      OBVIOUS
    <3>1. c > Len(calls)
      BY <1>3, ConstantFacts
    <3> QED BY <3>1 DEF StoreInv, Fresh
  <2>2. \A k \in 1 .. Len(out) : out[k].kind = "CHUNK" => out[k].call \in 1 .. n
    BY <1>3 DEF StoreInv, Fresh
  <2> QED BY <1>1, <2>1, <2>2 DEF Fresh
<1>9. Unpublished' /\ Putting' /\ Flushing' /\ Flushed'
  BY <1>4, <1>6, <1>7 DEF Unpublished, Putting, Flushing, Flushed
<1>10. Announced'
  <2> SUFFICES ASSUME NEW c \in 1 .. n, calls'[c].clean, Published(c)' PROVE Stored(c)'
    BY DEF Announced
  <2>1. c \in 1 .. Len(calls) /\ calls[c].clean
    BY <1>3, <1>4
  <2>2. Published(c)
    BY <1>1 DEF Published
  <2>3. Stored(c)
    BY <2>1, <2>2 DEF StoreInv, Announced
  <2> QED BY <1>1, <2>3 DEF Stored
<1>11. LinkKnown'
  BY <1>1 DEF LinkKnown, StartCall
<1> QED BY <1>8, <1>9, <1>10, <1>11 DEF StoreInv

\* What stays as it is when only lines are sent: nobody but the server stores.
LEMMA FreshKept ==
  ASSUME TypeOK, Fresh, SameWork, Len(calls') = Len(calls),
         \A k \in 1 .. Len(out') : out'[k].kind = "CHUNK" =>
           out'[k].call \in 1 .. Len(calls) \/ \E j \in 1 .. Len(out) : out'[k] = out[j]
  PROVE  Fresh'
<1>1. \A c \in Call : c > Len(calls) => srv'.stored[c] = 0 /\ srv'.done[c] = 0
  BY DEF SameWork, Fresh
<1>2. \A k \in 1 .. Len(out') : out'[k].kind = "CHUNK" => out'[k].call \in 1 .. Len(calls)
  BY DEF Fresh
<1> QED BY <1>1, <1>2 DEF Fresh

LEMMA PublishStore ==
  ASSUME Inv, StoreInv, Publish PROVE StoreInv'
<1>1. /\ TypeOK /\ Current /\ task.pc = "publish" /\ UNCHANGED <<calls, srv>>
      /\ out \in Seq(ToServer) /\ pending \in Seq(Call) /\ Len(pending) \in Nat
  BY LenProperties DEF Inv, Rest, Publish, At, TypeOK
<1> PICK n : n = Len(calls)
  OBVIOUS
<1>2. n \in Call /\ n \in 1 .. Len(calls)
  BY <1>1, CurrentFacts
<1>3. task'.pc = "idle"
  BY BeginFacts DEF Publish, Pcs
<1> DEFINE line == Line("PUB", None, n)
<1>4. line \in ToServer /\ line.kind = "PUB" /\ line.call = n
  BY <1>2, LineTypes
<1>5. \/ conn.connected /\ Send(line) /\ UNCHANGED pending
      \/ pending' = Append(pending, n) /\ UNCHANGED <<conn, out, in>>
  BY DEF Publish, This
<1> HIDE DEF line
<1>6. /\ out' = out \/ out' = <<>> \/ out' = Append(out, line)
      /\ pending' = pending \/ pending' = Append(pending, n)
      /\ conn' = conn \/ ~conn'.up
  BY <1>1, <1>4, <1>5, SendLink DEF LinkKept, LinkLost
<1>7. \A k \in 1 .. Len(out') : (\E j \in 1 .. Len(out) : out'[k] = out[j]) \/ out'[k] = line
  <2>1. CASE out' = Append(out, line)
    BY <1>1, <1>4, <2>1, Appended
  <2>2. CASE out' = <<>>
    BY <2>2, EmptySeq
  <2> QED BY <1>6, <2>1, <2>2
<1>8. \A k \in 1 .. Len(pending') : (\E j \in 1 .. Len(pending) : pending'[k] = pending[j]) \/ pending'[k] = n
  <2>1. CASE pending' = Append(pending, n)
    BY <1>1, <1>2, <2>1, Appended
  <2> QED BY <1>6, <2>1
<1>9. \A c : Stored(c) => Stored(c)'
  <2> SUFFICES ASSUME NEW c, Stored(c) PROVE Stored(c)'
    OBVIOUS
  <2>1. ChunksOf(c, <<>>) = {}
    BY DEF ChunksOf
  <2>2. ChunksOf(c, Append(out, line)) = ChunksOf(c, out)
    BY <1>1, <1>4, ChunksAppend
  <2> QED BY <1>1, <1>6, <2>1, <2>2 DEF Stored
<1>10. \A c : c # n /\ Published(c)' => Published(c)
  <2> SUFFICES ASSUME NEW c, c # n, Published(c)' PROVE Published(c)
    OBVIOUS
  <2>1. Sending(c, out') => Sending(c, out)
    BY <1>4, <1>7 DEF Sending
  <2>2. (\E k \in 1 .. Len(pending') : pending'[k] = c) => \E k \in 1 .. Len(pending) : pending[k] = c
    BY <1>8
  <2> QED BY <1>1, <2>1, <2>2 DEF Published
<1>11. Announced'
  <2> SUFFICES ASSUME NEW c \in 1 .. Len(calls), calls[c].clean, Published(c)' PROVE Stored(c)'
    BY <1>1 DEF Announced
  <2>1. CASE c = n
    <3>1. Stored(n)
      BY <1>1, <2>1 DEF StoreInv, Flushed
    <3> QED BY <1>9, <2>1, <3>1
  <2>2. CASE c # n
    BY <1>9, <1>10, <2>2 DEF StoreInv, Announced
  <2> QED BY <2>1, <2>2
<1>12. Fresh'
  BY <1>1, <1>4, <1>7, FreshKept DEF StoreInv, SameWork
<1>13. Unpublished' /\ Putting' /\ Flushing' /\ Flushed'
  BY <1>3 DEF Unpublished, Putting, Flushing, Flushed, InApi
<1>14. LinkKnown'
  BY <1>3 DEF LinkKnown, InApi
<1> QED BY <1>11, <1>12, <1>13, <1>14 DEF StoreInv

\* A chunk is one more on its way, or lost with the link, or dropped by a server that
\* does not take it.
LEMMA ChunkStore ==
  ASSUME Inv, StoreInv, Chunk PROVE StoreInv'
<1>1. /\ TypeOK /\ Current /\ task.pc = "chunk" /\ UNCHANGED <<calls, srv, pending>>
      /\ out \in Seq(ToServer) /\ task \in TaskRecord /\ srv \in ServerRecord
  BY DEF Inv, Rest, Chunk, At, TypeOK
<1> PICK n : n = Len(calls)
  OBVIOUS
<1>2. n \in Call /\ n \in 1 .. Len(calls)
  BY <1>1, CurrentFacts DEF InApi
<1>3. /\ task.i \in Nat /\ task'.i = task.i + 1
      /\ task'.pc = IF task.i + 1 = Chunks THEN "flush" ELSE "chunk"
  BY <1>1 DEF Chunk, TaskRecord
<1> DEFINE line == Line("CHUNK", None, n)
<1>4. line \in ToServer /\ line.kind = "CHUNK" /\ line.call = n
  BY <1>2, LineTypes
<1>5. \/ Send(line)
      \/ ~(conn.connected /\ conn.large) /\ UNCHANGED <<conn, out, in>>
  BY DEF Chunk, This
<1> HIDE DEF line
<1>6. \/ conn.up /\ conn' = conn /\ out' = Append(out, line)
      \/ ~(conn.up /\ conn.large) /\ conn' = conn /\ out' = out
      \/ ~conn'.up /\ out' = <<>>
  BY <1>1, <1>4, <1>5, SendLink DEF LinkKept, LinkLost, StoreInv, LinkKnown, InApi
<1>7. \A k \in 1 .. Len(out') : (\E j \in 1 .. Len(out) : out'[k] = out[j]) \/ out'[k] = line
  <2>1. CASE out' = Append(out, line)
    BY <1>1, <1>4, <2>1, Appended
  <2>2. CASE out' = <<>>
    BY <2>2, EmptySeq
  <2> QED BY <1>6, <2>1, <2>2
<1>8. ~Published(n)
  BY <1>1 DEF StoreInv, Unpublished, InApi
<1>9. \A c : Published(c)' => Published(c)
  <2> SUFFICES ASSUME NEW c, Published(c)' PROVE Published(c)
    OBVIOUS
  <2>1. Sending(c, out') => Sending(c, out)
    BY <1>4, <1>7 DEF Sending
  <2> QED BY <1>1, <2>1 DEF Published
<1>10. \A c : c # n /\ Stored(c) => Stored(c)'
  <2> SUFFICES ASSUME NEW c, c # n, Stored(c) PROVE Stored(c)'
    OBVIOUS
  <2>1. ChunksOf(c, <<>>) = {}
    BY DEF ChunksOf
  <2>2. ChunksOf(c, Append(out, line)) = ChunksOf(c, out)
    BY <1>1, <1>4, ChunksAppend
  <2> QED BY <1>1, <1>6, <2>1, <2>2 DEF Stored
<1>11. Announced'
  BY <1>1, <1>8, <1>9, <1>10 DEF StoreInv, Announced
<1>12. Putting'
  <2> SUFFICES ASSUME conn'.up, conn'.large PROVE Handed(n)' = task'.i
    BY <1>1, <1>3 DEF Putting
  <2>1. conn' = conn /\ out' = Append(out, line)
    BY <1>6
  <2>2. Handed(n) = task.i
    BY <1>1, <2>1 DEF StoreInv, Putting
  <2>3. Cardinality(ChunksOf(n, out')) = Cardinality(ChunksOf(n, out)) + 1
    BY <1>1, <1>4, <2>1, ChunksAppend
  <2>4. Cardinality(ChunksOf(n, out)) \in Nat /\ srv.stored[n] \in Nat
    BY <1>1, <1>2, ChunksType DEF ServerRecord
  <2> DEFINE a == Cardinality(ChunksOf(n, out))
             b == srv.stored[n]
  <2>5. Handed(n) = b + a /\ Handed(n)' = b + (a + 1)
    BY <1>1, <2>3 DEF Handed
  <2> HIDE DEF a, b
  <2>6. a \in Nat /\ b \in Nat
    BY <2>4 DEF a, b
  <2> QED BY <1>3, <2>2, <2>5, <2>6
<1>13. Fresh'
  BY <1>1, <1>2, <1>4, <1>7, FreshKept DEF StoreInv, SameWork
<1>14. Unpublished'
  BY <1>1, <1>8, <1>9 DEF Unpublished
<1>15. Flushing' /\ Flushed'
  BY <1>3 DEF Flushing, Flushed
<1>16. LinkKnown'
  BY <1>1, <1>6 DEF StoreInv, LinkKnown, InApi
<1> QED BY <1>11, <1>12, <1>13, <1>14, <1>15, <1>16 DEF StoreInv

\* The PING of flush() goes behind the chunks, and if the count was zero no other
\* PING or PONG is under way.
LEMMA FlushBeginStore ==
  ASSUME Inv, StoreInv, FlushBegin PROVE StoreInv'
<1>1. /\ TypeOK /\ Current /\ Awaited /\ task.pc = "flush" /\ UNCHANGED <<srv, pending>>
      /\ out \in Seq(ToServer) /\ in \in Seq(ToClient) /\ task \in TaskRecord /\ pings \in Nat
  BY DEF Inv, Rest, FlushBegin, At, TypeOK
<1>2. PICK r \in CallRecord :
        /\ Len(calls) \in 1 .. Len(calls)
        /\ calls' = [calls EXCEPT ![Len(calls)] = r]
        /\ r.clean = (pings = 0 /\ conn.large)
  BY <1>1, FlushBeginFacts
<1>3. /\ Len(calls') = Len(calls) /\ calls'[Len(calls)] = r
      /\ \A d \in 1 .. Len(calls) : d # Len(calls) => calls'[d] = calls[d]
  BY <1>1, <1>2, CallTypes
<1> PICK n : n = Len(calls) /\ n = Len(calls')
  BY <1>3
<1>4. task'.pc = "flushing" /\ task'.initial = pings /\ pings' = pings + 1
  BY <1>1 DEF FlushBegin, TaskRecord
<1> DEFINE line == Line("PING", None, None)
<1>5. line \in ToServer /\ line.kind = "PING" /\ Send(line)
  BY LineTypes DEF FlushBegin
<1> HIDE DEF line
<1>6. \/ conn.up /\ conn' = conn /\ in' = in /\ out' = Append(out, line)
      \/ ~conn.up /\ LinkKept
      \/ LinkLost /\ in' = <<>>
  BY <1>1, <1>5, SendLink
<1>7. Harmless(line)
  BY <1>5 DEF Harmless
<1>8. NoMoreSent /\ SameWork /\ FewerPending
  BY <1>1, <1>5, <1>6, <1>7 DEF NoMoreSent, LinkKept, LinkLost, SameWork, FewerPending
<1>9. /\ \A c : Published(c)' => Published(c)
      /\ \A c : Stored(c) => Stored(c)'
      /\ \A k \in 1 .. Len(out') : out'[k].kind = "CHUNK" => \E j \in 1 .. Len(out) : out'[k] = out[j]
  BY <1>1, <1>8, Keeps
<1>10. ~Published(n)
  BY <1>1 DEF StoreInv, Unpublished, InApi
<1>11. Announced'
  <2> SUFFICES ASSUME NEW c \in 1 .. n, calls'[c].clean, Published(c)' PROVE Stored(c)'
    BY DEF Announced
  <2>1. c # n /\ Published(c)
    BY <1>9, <1>10
  <2>2. calls[c].clean
    BY <1>3, <2>1
  <2> QED BY <1>9, <2>1, <2>2 DEF StoreInv, Announced
<1>12. Flushing'
  <2> SUFFICES ASSUME calls'[n].clean
               PROVE  /\ task'.initial = 0
                      /\ \A k \in 1 .. Len(out') : out'[k].kind = "PING" =>
                           /\ Handed(n)' = Chunks
                           /\ \A j \in ChunksOf(n, out') : j < k
                      /\ ~(pings' = 0 \/ Pong(in'))
    BY DEF Flushing, Pong
  <2>1. pings = 0 /\ conn.large
    BY <1>2, <1>3
  <2>2. Places("PING", out) = {} /\ Places("PONG", in) = {}
    <3>1. /\ IsFiniteSet(Places("PING", out)) /\ Count("PING", out) \in Nat
          /\ IsFiniteSet(Places("PONG", in)) /\ Count("PONG", in) \in Nat
      BY <1>1, CountType
    <3>2. Count("PING", out) = 0 /\ Count("PONG", in) = 0
      BY <1>1, <2>1, <3>1 DEF Awaited
    <3> QED BY <3>1, <3>2, FS_EmptySet DEF Count
  <2>3. (\A k \in 1 .. Len(out) : out[k].kind # "PING") /\ ~Pong(in)
    BY <2>2 DEF Places, Pong
  <2>4. ~(pings' = 0 \/ Pong(in'))
    BY <1>4, <1>6, <2>1, <2>3, EmptySeq DEF LinkKept, Pong
  <2>5. ASSUME NEW k \in 1 .. Len(out'), out'[k].kind = "PING"
        PROVE  Handed(n)' = Chunks /\ \A j \in ChunksOf(n, out') : j < k
    <3>1. conn.up /\ out' = Append(out, line)
      BY <1>6, <2>3, <2>5, EmptySeq DEF LinkKept, LinkLost
    <3>2. /\ Len(out) \in Nat /\ Len(out') = Len(out) + 1
          /\ \A j \in 1 .. Len(out) : out'[j] = out[j]
      BY <1>1, <1>5, <3>1, Appended
    <3>3. k = Len(out) + 1
      BY <2>3, <2>5, <3>2
    <3>4. ChunksOf(n, out') = ChunksOf(n, out)
      BY <1>1, <1>5, <3>1, ChunksAppend
    <3>5. Handed(n)' = Handed(n)
      BY <1>1, <3>4 DEF Handed
    <3>6. Handed(n) = Chunks
      BY <1>1, <2>1, <3>1 DEF StoreInv, Putting
    <3>7. \A j \in ChunksOf(n, out) : j < k
      BY <3>2, <3>3 DEF ChunksOf
    <3> QED BY <3>4, <3>5, <3>6, <3>7
  <2> QED BY <1>4, <2>1, <2>4, <2>5
<1>13. Fresh'
  BY <1>1, <1>3, <1>8, <1>9, FreshKept DEF StoreInv
<1>14. Unpublished'
  <2>1. ~Published(n)'
    BY <1>9, <1>10
  <2> QED BY <2>1 DEF Unpublished
<1>15. Putting' /\ Flushed'
  BY <1>4 DEF Putting, Flushed
<1>16. LinkKnown'
  BY <1>1, <1>6 DEF StoreInv, LinkKnown, LinkKept, LinkLost, InApi
<1> QED BY <1>11, <1>12, <1>13, <1>14, <1>15, <1>16 DEF StoreInv

\* flush() returns true only when the PONG to its PING has come.
LEMMA FlushTrueStore ==
  ASSUME Inv, StoreInv, FlushTrue PROVE StoreInv'
<1>1. /\ TypeOK /\ Current /\ task.pc = "flushing" /\ pings <= task.initial /\ pings \in Nat
      /\ UNCHANGED <<calls, pending, conn, out, in, srv>>
  BY DEF Inv, Rest, TypeOK, FlushTrue, At
<1>2. task'.pc \in {"idle", "subscribe"}
  <2>1. Begin("idle") \/ Begin("subscribe")
    BY DEF FlushTrue
  <2>2. (Begin("idle") => task'.pc = "idle") /\ (Begin("subscribe") => task'.pc = "subscribe")
    BY BeginFacts DEF Pcs
  <2> QED BY <2>1, <2>2
<1>3. calls[Len(calls)].clean => Stored(Len(calls))
  <2> SUFFICES ASSUME calls[Len(calls)].clean PROVE Stored(Len(calls))
    OBVIOUS
  <2>1. task.initial = 0
    BY <1>1 DEF StoreInv, Flushing
  <2>2. pings = 0
    BY <1>1, <2>1
  <2> QED BY <1>1, <2>2 DEF StoreInv, Flushing
<1>4. Fresh' /\ Announced' /\ LinkKnown'
  BY <1>1 DEF StoreInv, Fresh, Announced, LinkKnown, Published, Stored, InApi
<1>5. Unpublished'
  BY <1>1 DEF StoreInv, Unpublished, InApi, Published
<1>6. Flushed'
  BY <1>1, <1>3 DEF Flushed, Stored
<1>7. Putting' /\ Flushing'
  BY <1>2 DEF Putting, Flushing
<1> QED BY <1>4, <1>5, <1>6, <1>7 DEF StoreInv

\* What the server does with a line.
LEMMA Reads ==
  ASSUME Inv, StoreInv, ServerReads
  PROVE  LET line == Head(out) IN
         /\ line \in ToServer /\ line = out[1] /\ 1 \in 1 .. Len(out)
         /\ out' = Tail(out) /\ out # <<>>
         /\ \A k \in 1 .. Len(out') : k + 1 \in 1 .. Len(out) /\ out'[k] = out[k + 1]
         /\ line.kind \in {"CHUNK", "PUB"} => line.call \in 1 .. Len(calls) /\ line.call \in Call
         /\ \A c \in Call : srv'.stored[c] =
              IF line.kind = "CHUNK" /\ line.call = c THEN srv.stored[c] + 1 ELSE srv.stored[c]
         /\ \A c \in Call : srv'.done[c] =
              IF line.kind = "PUB" /\ line.call = c THEN srv.done[c] + 1 ELSE srv.done[c]
         /\ Pong(in') => Pong(in) \/ line.kind = "PING"
         /\ UNCHANGED <<calls, task, pending, conn, pings>>
<1> DEFINE line == Head(out)
<1>1. /\ TypeOK /\ Addressed /\ srv \in ServerRecord /\ in \in Seq(ToClient)
      /\ Len(calls) \in Nat /\ Len(calls) <= MaxCalls
  BY Lengths DEF Inv, Rest, TypeOK
<1>2. /\ out # <<>> /\ out' = Tail(out) /\ line \in ToServer
      /\ line = out[1] /\ 1 \in 1 .. Len(out)
      /\ \A k \in 1 .. Len(out') : k + 1 \in 1 .. Len(out) /\ out'[k] = out[k + 1]
      /\ Serves(line)
      /\ UNCHANGED <<calls, task, pending, conn, pings>>
  BY <1>1, ServerReadsFacts
<1> HIDE DEF line
<1>3. line.kind \in {"CHUNK", "PUB"} => line.call \in 1 .. Len(calls)
  BY <1>1, <1>2 DEF Addressed, StoreInv, Fresh
<1>4. line.kind \in {"CHUNK", "PUB"} => line.call \in Call
  BY <1>1, <1>3, ConstantFacts DEF Call
<1> DEFINE Stores == \A c \in Call : srv'.stored[c] =
             IF line.kind = "CHUNK" /\ line.call = c THEN srv.stored[c] + 1 ELSE srv.stored[c]
           Does == \A c \in Call : srv'.done[c] =
             IF line.kind = "PUB" /\ line.call = c THEN srv.done[c] + 1 ELSE srv.done[c]
           Pongs == Pong(in') => Pong(in) \/ line.kind = "PING"
<1>5. ASSUME line.kind \in {"SUB", "UNSUB"}, in' = in,
             NEW f, srv' = [srv EXCEPT !.serves = f]
      PROVE  Stores /\ Does /\ Pongs
  <2>1. srv'.stored = srv.stored /\ srv'.done = srv.done
    BY <1>1, <1>5 DEF ServerRecord
  <2> QED BY <1>5, <2>1
<1>6. ASSUME line.kind = "CHUNK", in' = in, srv' = [srv EXCEPT !.stored[line.call] = @ + 1]
      PROVE  Stores /\ Does /\ Pongs
  <2> PICK call \in Call : call = line.call
    BY <1>4, <1>6
  <2>1. srv'.done = srv.done /\ srv'.stored = [srv.stored EXCEPT ![call] = @ + 1]
    BY <1>1, <1>6 DEF ServerRecord
  <2>2. srv.stored \in [Call -> Nat]
    BY <1>1 DEF ServerRecord
  <2> QED BY <1>6, <2>1, <2>2
<1>7. ASSUME line.kind = "PUB", srv' = [srv EXCEPT !.done[line.call] = @ + 1],
             \E messages \in Answers(line.call) : in' = in \o messages
      PROVE  Stores /\ Does /\ Pongs
  <2> PICK call \in Call : call = line.call
    BY <1>4, <1>7
  <2>1. srv'.stored = srv.stored /\ srv'.done = [srv.done EXCEPT ![call] = @ + 1]
    BY <1>1, <1>7 DEF ServerRecord
  <2>2. srv.done \in [Call -> Nat]
    BY <1>1 DEF ServerRecord
  <2>3. Pong(in') => Pong(in)
    <3>1. PICK m \in Answers(call) : in' = in \o m
      BY <1>7
    <3>2. m \in Seq(ToClient) /\ \A k \in 1 .. Len(m) : m[k].kind = "MSG"
      BY <1>1, AnswersFacts
    <3>3. \A k \in 1 .. Len(m) : m[k].kind # "PONG"
      BY <3>2
    <3>4. /\ Len(in') = Len(in) + Len(m) /\ Len(in) \in Nat /\ Len(m) \in Nat
          /\ \A k \in 1 .. Len(in) + Len(m) : in'[k] = IF k <= Len(in) THEN in[k] ELSE m[k - Len(in)]
      BY <1>1, <3>1, <3>2, ConcatProperties, LenProperties
    <3>5. ASSUME NEW k \in 1 .. Len(in'), in'[k].kind = "PONG" PROVE Pong(in)
      <4>1. CASE k <= Len(in)
        BY <3>4, <3>5, <4>1 DEF Pong
      <4>2. CASE k > Len(in)
        <5>1. k - Len(in) \in 1 .. Len(m) /\ in'[k] = m[k - Len(in)]
          BY <3>4, <4>2
        <5> QED BY <3>3, <3>5, <5>1
      <4> QED BY <3>4, <4>1, <4>2
    <3> QED BY <3>5 DEF Pong
  <2> QED BY <1>7, <2>1, <2>2, <2>3
<1>8. ASSUME line.kind = "PING", srv' = srv PROVE Stores /\ Does /\ Pongs
  BY <1>8
<1>9. Stores /\ Does /\ Pongs
  BY <1>2, <1>5, <1>6, <1>7, <1>8 DEF Serves
<1> QED BY <1>2, <1>3, <1>4, <1>9 DEF line

\* The server takes the first line: what was on its way is stored or acted on.
LEMMA ReadsKeep ==
  ASSUME Inv, StoreInv, ServerReads, NEW c \in Call
  PROVE  /\ Published(c)' => Published(c)
         /\ Handed(c)' = Handed(c)
         /\ Stored(c) => Stored(c)'
         /\ \A k \in ChunksOf(c, out') : k + 1 \in ChunksOf(c, out)
<1> DEFINE line == Head(out)
           mine == line.kind = "CHUNK" /\ line.call = c
<1>1. /\ out # <<>> /\ out' = Tail(out) /\ out \in Seq(ToServer) /\ out' \in Seq(ToServer)
      /\ line = out[1] /\ 1 \in 1 .. Len(out)
      /\ \A k \in 1 .. Len(out') : k + 1 \in 1 .. Len(out) /\ out'[k] = out[k + 1]
      /\ srv'.stored[c] = IF mine THEN srv.stored[c] + 1 ELSE srv.stored[c]
      /\ srv'.done[c] = IF line.kind = "PUB" /\ line.call = c THEN srv.done[c] + 1 ELSE srv.done[c]
      /\ UNCHANGED pending
  BY Reads, ServerReadsFacts DEF Inv, TypeOK
<1>2. /\ srv.stored[c] \in Nat
      /\ Cardinality(ChunksOf(c, out)) \in Nat /\ Cardinality(ChunksOf(c, out')) \in Nat
  BY <1>1, ChunksType DEF Inv, TypeOK, ServerRecord
<1>3. /\ \A k \in ChunksOf(c, out') : k + 1 \in ChunksOf(c, out)
      /\ mine => ChunksOf(c, out) # {}
      /\ Cardinality(ChunksOf(c, out)) = Cardinality(ChunksOf(c, out')) + (IF mine THEN 1 ELSE 0)
  BY <1>1, ChunksTail
<1> HIDE DEF mine, line
<1>4. Handed(c)' = Handed(c)
  <2> DEFINE a == Cardinality(ChunksOf(c, out))
             b == Cardinality(ChunksOf(c, out'))
             s == srv.stored[c]
             t == srv'.stored[c]
  <2>1. /\ a \in Nat /\ b \in Nat /\ s \in Nat
        /\ a = b + (IF mine THEN 1 ELSE 0)
        /\ t = IF mine THEN s + 1 ELSE s
        /\ Handed(c) = s + a /\ Handed(c)' = t + b
    BY <1>1, <1>2, <1>3 DEF Handed
  <2> HIDE DEF a, b, s, t
  <2> QED BY <2>1
<1>5. Stored(c) => Stored(c)'
  <2> SUFFICES ASSUME srv.stored[c] = Chunks, ChunksOf(c, out) = {}
               PROVE  srv'.stored[c] = Chunks /\ ChunksOf(c, out') = {}
    BY DEF Stored
  <2> QED BY <1>1, <1>3
<1>6. Sending(c, out') => Sending(c, out)
  BY <1>1 DEF Sending
<1>7. line.kind = "PUB" /\ line.call = c => Sending(c, out)
  BY <1>1 DEF Sending
<1>8. Published(c)' => Published(c)
  BY <1>1, <1>6, <1>7 DEF Published
<1> QED BY <1>3, <1>4, <1>5, <1>8

LEMMA ServerReadsStore ==
  ASSUME Inv, StoreInv, ServerReads PROVE StoreInv'
<1> DEFINE line == Head(out)
<1>1. /\ TypeOK /\ Current /\ out \in Seq(ToServer) /\ srv \in ServerRecord
      /\ Len(calls) \in Nat /\ Len(calls) <= MaxCalls
  BY Lengths DEF Inv, Rest, TypeOK
<1>2. /\ line = out[1] /\ 1 \in 1 .. Len(out)
      /\ \A k \in 1 .. Len(out') : k + 1 \in 1 .. Len(out) /\ out'[k] = out[k + 1]
      /\ line.kind \in {"CHUNK", "PUB"} => line.call \in 1 .. Len(calls) /\ line.call \in Call
      /\ \A c \in Call : srv'.stored[c] =
           IF line.kind = "CHUNK" /\ line.call = c THEN srv.stored[c] + 1 ELSE srv.stored[c]
      /\ \A c \in Call : srv'.done[c] =
           IF line.kind = "PUB" /\ line.call = c THEN srv.done[c] + 1 ELSE srv.done[c]
      /\ Pong(in') => Pong(in) \/ line.kind = "PING"
      /\ UNCHANGED <<calls, task, pending, conn, pings>>
  BY Reads
<1> HIDE DEF line
<1>3. ASSUME NEW c \in Call
      PROVE  /\ Published(c)' => Published(c)
             /\ Handed(c)' = Handed(c)
             /\ Stored(c) => Stored(c)'
             /\ \A k \in ChunksOf(c, out') : k + 1 \in ChunksOf(c, out)
  BY ReadsKeep
<1> PICK n : n = Len(calls)
  OBVIOUS
<1>4. task.pc \in InApi \cup {"publish"} => n \in Call
  BY <1>1, CurrentFacts
<1>5. Fresh'
  <2>1. \A c \in Call : c > n => srv'.stored[c] = 0 /\ srv'.done[c] = 0
    <3> SUFFICES ASSUME NEW c \in Call, c > n PROVE srv'.stored[c] = 0 /\ srv'.done[c] = 0
      OBVIOUS
    <3>1. c \notin 1 .. Len(calls)
      BY <1>1, ConstantFacts
    <3>2. srv.stored[c] = 0 /\ srv.done[c] = 0
      BY DEF StoreInv, Fresh
    <3> QED BY <1>2, <3>1, <3>2
  <2>2. \A k \in 1 .. Len(out') : out'[k].kind = "CHUNK" => out'[k].call \in 1 .. n
    BY <1>2 DEF StoreInv, Fresh
  <2> QED BY <1>2, <2>1, <2>2 DEF Fresh
<1>6. Unpublished'
  <2> SUFFICES ASSUME task.pc \in InApi PROVE ~Published(n)'
    BY <1>2 DEF Unpublished
  <2> QED BY <1>3, <1>4 DEF StoreInv, Unpublished
<1>7. Putting'
  <2> SUFFICES ASSUME task.pc \in {"chunk", "flush"}
               PROVE  /\ conn.up /\ conn.large => Handed(n)' = task.i
                      /\ task.pc = "flush" => task.i = Chunks
    BY <1>2 DEF Putting
  <2> QED BY <1>3, <1>4 DEF StoreInv, Putting, InApi
<1>8. Flushed'
  <2> SUFFICES ASSUME task.pc \in {"subscribe", "publish"}, calls[n].clean PROVE Stored(n)'
    BY <1>2 DEF Flushed
  <2> QED BY <1>3, <1>4 DEF StoreInv, Flushed, InApi
<1>9. Announced'
  <2> SUFFICES ASSUME NEW c \in 1 .. Len(calls), calls[c].clean, Published(c)' PROVE Stored(c)'
    BY <1>2 DEF Announced
  <2>1. c \in Call
    BY <1>1, ConstantFacts DEF Call
  <2> QED BY <1>3, <2>1 DEF StoreInv, Announced
<1>10. Flushing'
  <2> SUFFICES ASSUME task.pc = "flushing", calls[n].clean
               PROVE  /\ task.initial = 0
                      /\ \A k \in 1 .. Len(out') : out'[k].kind = "PING" =>
                           /\ Handed(n)' = Chunks
                           /\ \A j \in ChunksOf(n, out') : j < k
                      /\ pings = 0 \/ Pong(in') => Stored(n)'
    BY <1>2 DEF Flushing, Pong
  <2>1. n \in Call
    BY <1>4 DEF InApi
  <2>2. /\ task.initial = 0
        /\ \A k \in 1 .. Len(out) : out[k].kind = "PING" =>
             /\ Handed(n) = Chunks
             /\ \A j \in ChunksOf(n, out) : j < k
        /\ pings = 0 \/ Pong(in) => Stored(n)
    BY DEF StoreInv, Flushing, Pong
  <2>3. ASSUME NEW k \in 1 .. Len(out'), out'[k].kind = "PING"
        PROVE  Handed(n)' = Chunks /\ \A j \in ChunksOf(n, out') : j < k
    <3>1. k + 1 \in 1 .. Len(out) /\ out[k + 1].kind = "PING"
      BY <1>2, <2>3
    <3>2. Handed(n) = Chunks /\ \A j \in ChunksOf(n, out) : j < k + 1
      BY <2>2, <3>1
    <3>3. ASSUME NEW j \in ChunksOf(n, out') PROVE j < k
      <4>1. j + 1 < k + 1
        BY <1>3, <2>1, <3>2
      <4>2. j \in Int /\ k \in Int
        BY DEF ChunksOf
      <4> QED BY <4>1, <4>2
    <3> QED BY <1>3, <2>1, <3>2, <3>3
  <2>4. ASSUME line.kind = "PING" PROVE Stored(n)'
    <3>1. Handed(n) = Chunks /\ \A j \in ChunksOf(n, out) : j < 1
      BY <1>2, <2>2, <2>4
    <3>2. ChunksOf(n, out) = {}
      BY <3>1 DEF ChunksOf
    <3>3. Cardinality(ChunksOf(n, out)) = 0 /\ srv.stored[n] \in Nat
      BY <1>1, <2>1, <3>2, ChunksType DEF ServerRecord
    <3>4. Stored(n)
      BY <3>1, <3>2, <3>3 DEF Handed, Stored
    <3> QED BY <1>3, <2>1, <3>4
  <2> QED BY <1>2, <1>3, <2>1, <2>2, <2>3, <2>4
<1>11. LinkKnown'
  BY <1>2 DEF StoreInv, LinkKnown
<1> QED BY <1>5, <1>6, <1>7, <1>8, <1>9, <1>10, <1>11 DEF StoreInv

LEMMA NextStore == ASSUME Inv, StoreInv, Next PROVE StoreInv'
<1>1. CASE Other
  BY <1>1, StartStore, PublishStore, ChunkStore, FlushBeginStore, FlushTrueStore, ServerReadsStore DEF Other
<1>2. CASE ~Other
  BY <1>2, NextSteady, SteadyStore
<1> QED BY <1>1, <1>2

LEMMA InitStore == Init => StoreInv
<1> SUFFICES ASSUME Init PROVE StoreInv
  OBVIOUS
<1>1. /\ calls = <<>> /\ task.pc = "idle" /\ out = <<>> /\ conn.connected
      /\ \A c \in Call : srv.stored[c] = 0 /\ srv.done[c] = 0
  BY DEF Init, Idle
<1>2. Len(calls) = 0 /\ Len(out) = 0
  BY <1>1, EmptySeq
<1> QED BY <1>1, <1>2
    DEF StoreInv, Fresh, Unpublished, Putting, Flushing, Flushed, Announced, LinkKnown, InApi

LEMMA StutterStore ==
  ASSUME StoreInv, UNCHANGED vars PROVE StoreInv'
BY DEF vars, StoreInv, Fresh, Unpublished, Putting, Flushing, Flushed, Announced, LinkKnown,
       Published, Stored, Handed

LEMMA StoreInvariance == Spec => [](Inv /\ StoreInv)
<1>1. Init => Inv /\ StoreInv
  BY InitInv, InitStore
<1>2. Inv /\ StoreInv /\ [Next]_vars => (Inv /\ StoreInv)'
  BY NextInv, StutterInv, NextStore, StutterStore
<1> QED BY <1>1, <1>2, PTL DEF Spec

\* The metadata of an object is published only when the server has all its chunks,
\* if it takes chunks of this size and no PING was unanswered when obj_put() called
\* flush(): the PONG that flush() waits for is then the answer to its own PING, which
\* stands behind the chunks, and obj_put() publishes nothing after a flush() that
\* has failed.
THEOREM MetadataAlwaysStored == Spec => []MetadataMeansStored
<1>1. Inv /\ StoreInv => MetadataMeansStored
  BY DEF StoreInv, Announced, Published, Stored, MetadataMeansStored
<1> QED BY <1>1, StoreInvariance, PTL
=============================================================================
