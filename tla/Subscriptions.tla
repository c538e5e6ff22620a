--------------------------- MODULE Subscriptions ---------------------------
(***************************************************************************)
(* The subscription table of class NATS (nats_client.h): the array `subs`, *)
(* the FIFO `free_sids` that recycles subscription ids, and the heap       *)
(* objects of class Sub (subscription.h) with their reference counts.      *)
(*                                                                         *)
(* Three parties work on the table, interleaved at the points where the    *)
(* code releases `mutex`:                                                  *)
(*   - the receiver: recv() looks a MSG/HMSG up, runs the user callback    *)
(*     without the mutex and cleans up.  A callback may call flush(), so   *)
(*     invocations of recv() nest; recv_mutex makes them a stack;          *)
(*   - the timeout scan of process(): collect under the mutex, re-check    *)
(*     under the mutex, run on_timeout without it, unsubscribe;            *)
(*   - the application, from a callback or from another task: subscribe,   *)
(*     request_with_timeout, unsubscribe, drain, shutdown.                 *)
(*                                                                         *)
(* A Sub object keeps its identity: an element of Obj is handed out by     *)
(* `new` only while no local variable of a running recv() or process()     *)
(* still refers to it, so a use after free is visible as a reference to    *)
(* an object that is not alive.                                            *)
(***************************************************************************)
EXTENDS Naturals, Sequences, FiniteSets

CONSTANTS
  MaxSubs,              \* NATS_MAX_SUBSCRIPTIONS
  Obj,                  \* identities of Sub objects
  NULL,                 \* the null pointer, not an element of Obj
  Limits,               \* values of max_wanted the application passes
  MaxDepth,             \* how deep flush() in a callback nests recv()
  OneReceiver,          \* only the task that calls process() receives
  TeardownInCallback,   \* drain() or shutdown() may run during a callback
  UsesShutdown          \* the application calls shutdown()

ASSUME SizesAssumption == MaxSubs \in Nat \ {0} /\ MaxDepth \in Nat \ {0}
ASSUME LimitsAssumption == Limits \subseteq Nat
ASSUME NullAssumption == NULL \notin Obj
ASSUME UsageAssumption ==
  /\ OneReceiver \in BOOLEAN
  /\ TeardownInCallback \in BOOLEAN
  /\ UsesShutdown \in BOOLEAN

VARIABLES
  subs,        \* subs[sid]: the Sub in the slot, or NULL
  size,        \* subs.size(), slots 0 .. size - 1 exist
  free_sids,   \* FIFO of recycled subscription ids
  heap,        \* the Sub objects
  rx,          \* rx[1 .. depth]: running invocations of recv()
  depth,
  tmo,         \* the timeout scan of process()
  conn,        \* "down", "restoring" (connected, before the re-SUBs), "up"
  srv          \* ids the server has a subscription for on this connection

vars == <<subs, size, free_sids, heap, rx, depth, tmo, conn, srv>>
table == <<subs, size, free_sids, heap>>

Sid == 0 .. MaxSubs - 1
Frame == 1 .. MaxDepth

SubRecord ==
  [alive : BOOLEAN, ref_count : Nat, marked : BOOLEAN, received : Nat,
   max_wanted : Nat, timer : {"none", "armed", "expired"}, subject : BOOLEAN]

Freed ==
  [alive |-> FALSE, ref_count |-> 0, marked |-> FALSE, received |-> 0,
   max_wanted |-> 0, timer |-> "none", subject |-> FALSE]

NewSubUnowned(max, stored, timed) ==     \* mutant: the table's own reference
  [alive |-> TRUE, ref_count |-> 0, marked |-> FALSE, received |-> 0,
   max_wanted |-> max, timer |-> IF timed THEN "armed" ELSE "none",
   subject |-> stored]

\* subject: the object keeps its subject, so that a reconnect restores it.
NewSub(max, stored, timed) ==
  [alive |-> TRUE, ref_count |-> 1, marked |-> FALSE, received |-> 0,
   max_wanted |-> max, timer |-> IF timed THEN "armed" ELSE "none",
   subject |-> stored]

\* The methods of Sub that recv() and unsubscribe() call.
AddRef(sub) == [sub EXCEPT !.ref_count = @ + 1]
Release(sub) == [sub EXCEPT !.ref_count = @ - 1]
MarkForDeletion(sub) == [sub EXCEPT !.marked = TRUE]
ClearTimeout(sub) == [sub EXCEPT !.timer = "none"]

\* Nothing reads the count of an unlimited subscription: it stops at 1 here.
CountCall(sub) ==
  [sub EXCEPT !.received = IF sub.max_wanted = 0 THEN 1 ELSE @ + 1]

NoFrame == [phase |-> "idle", sid |-> 0, obj |-> NULL, will_max_out |-> FALSE]
NoScan == [phase |-> "idle", todo |-> {}, sid |-> 0, obj |-> NULL]

FrameRecord ==
  [phase : {"idle", "checked", "acquired", "callback"}, sid : Sid,
   obj : Obj \cup {NULL}, will_max_out : BOOLEAN]

\* The scan keeps, besides the ids, the on_timeout of the Sub that was in the
\* slot; obj is the Sub that owns the callback.
Collected == [sid : Sid, obj : Obj]
ScanRecord ==
  [phase : {"idle", "scan", "callback"}, todo : SUBSET Collected, sid : Sid,
   obj : Obj \cup {NULL}]

Live == {o \in Obj : heap[o].alive}

\* The invocations of recv() between add_ref() and release() on o.
Holders(o) ==
  {i \in Frame : rx[i].phase \in {"acquired", "callback"} /\ rx[i].obj = o}

Referenced ==
  {rx[i].obj : i \in Frame} \cup {tmo.obj} \cup {e.obj : e \in tmo.todo}

connected == conn # "down"

-----------------------------------------------------------------------------
(* Subscribing and unsubscribing                                           *)

\* The number of active subscriptions is a size_t: below zero it wraps around,
\* far above the limit.
HasRoom ==
  /\ Len(free_sids) <= size
  /\ size - Len(free_sids) < MaxSubs

AllocSidGrowing(sid) ==                  \* mutant: grows although it recycles
  /\ size' = size + 1
  /\ IF free_sids = << >>
       THEN sid = size /\ UNCHANGED free_sids
       ELSE sid = Head(free_sids) /\ free_sids' = Tail(free_sids)

AllocSidPeeking(sid) ==                  \* mutant: peek() instead of pop()
  /\ UNCHANGED free_sids
  /\ IF free_sids = << >>
       THEN sid = size /\ size' = size + 1
       ELSE sid = Head(free_sids) /\ UNCHANGED size

\* A recycled id first, oldest first; the array grows only when there is none.
AllocSid(sid) ==
  IF free_sids = << >>
    THEN sid = size /\ size' = size + 1 /\ UNCHANGED free_sids
    ELSE sid = Head(free_sids) /\ free_sids' = Tail(free_sids) /\ UNCHANGED size

\* sub_internal(): the whole body runs under mutex.  subscribe() has tested
\* `connected` before, without the mutex, so a disconnect may have come in
\* between: then no SUB is sent and a reconnect restores the subscription.
SubInternal(o, max, stored, timed) ==
  /\ o \notin Live \cup Referenced
  /\ HasRoom
  /\ heap' = [heap EXCEPT ![o] = NewSub(max, stored, timed)]
  /\ \E sid \in Sid :
       /\ AllocSid(sid)
       /\ subs' = [subs EXCEPT ![sid] = o]
       /\ srv' = IF connected THEN srv \cup {sid} ELSE srv
  /\ UNCHANGED <<rx, depth, tmo, conn>>

\* subscribe(): persistent, restored after a reconnect, no timeout.
Subscribe == \E o \in Obj, max \in Limits : SubInternal(o, max, TRUE, FALSE)

\* request_with_timeout(): the inbox is not stored (send_sub = false); a
\* time-out of 0 means none.
RequestWithTimeout ==
  \E o \in Obj, max \in Limits, timed \in BOOLEAN :
    SubInternal(o, max, FALSE, timed)

FreeSlotUnrecycled(sid) ==               \* mutant: the id is not pushed back
  subs' = [subs EXCEPT ![sid] = NULL] /\ UNCHANGED free_sids

FreeSlot(sid) ==
  /\ subs' = [subs EXCEPT ![sid] = NULL]
  /\ free_sids' = Append(free_sids, sid)

NoCallbackRunsIgnored(o) == TRUE         \* mutant: deletes under a callback

NoCallbackRuns(o) == heap[o].ref_count <= 1

SendUnsubWhenIdle(sid) ==                \* mutant: no UNSUB on lazy deletion
  srv' = IF NoCallbackRuns(subs[sid]) THEN srv \ {sid} ELSE srv

SendUnsub(sid) == srv' = srv \ {sid}

\* The effect of unsubscribe(sid) on the table, with mutex held.
Unsubscribed(sid) ==
  LET o == subs[sid] IN
  /\ SendUnsub(sid)
  /\ IF NoCallbackRuns(o)
       THEN FreeSlot(sid) /\ heap' = [heap EXCEPT ![o] = Freed]
       ELSE /\ heap' = [heap EXCEPT ![o] = MarkForDeletion(@)]
            /\ UNCHANGED <<subs, free_sids>>
  /\ UNCHANGED size

Unsubscribe(sid) ==
  /\ subs[sid] # NULL
  /\ Unsubscribed(sid)
  /\ UNCHANGED <<rx, depth, tmo, conn>>

-----------------------------------------------------------------------------
(* The receiver                                                            *)

\* recv() finds a MSG/HMSG line for sid and the first look at the table, under
\* mutex, finds a subscription: it goes on to read the payload.  The first
\* invocation comes from process() (never while its timeout scan runs, unless
\* another task receives too); a nested one from flush() in a callback.
RecvMsg(sid) ==
  /\ connected
  /\ depth < MaxDepth
  /\ IF depth = 0
       THEN OneReceiver => tmo.phase # "scan"
       ELSE rx[depth].phase = "callback"
  /\ subs[sid] # NULL
  /\ depth' = depth + 1
  /\ rx' = [rx EXCEPT ![depth + 1] = [NoFrame EXCEPT !.phase = "checked",
                                                     !.sid = sid]]
  /\ UNCHANGED <<table, tmo, conn, srv>>

\* The payload cannot be read, or the message is a flow-control heartbeat:
\* recv() returns before the second look at the table.
RecvAbort ==
  /\ depth > 0
  /\ rx[depth].phase = "checked"
  /\ rx' = [rx EXCEPT ![depth] = NoFrame]
  /\ depth' = depth - 1
  /\ UNCHANGED <<table, tmo, conn, srv>>

WillMaxOutLate(o) ==                     \* mutant: off by one
  heap[o].max_wanted > 0 /\ heap[o].received >= heap[o].max_wanted

WillMaxOut(o) ==
  heap[o].max_wanted > 0 /\ heap[o].received + 1 >= heap[o].max_wanted

\* The second look: the slot may hold another Sub than at the first, or none.
Acquire ==
  /\ depth > 0
  /\ rx[depth].phase = "checked"
  /\ LET o == subs[rx[depth].sid] IN
     IF o # NULL /\ ~heap[o].marked
       THEN /\ heap' = [heap EXCEPT ![o] = ClearTimeout(AddRef(@))]
            /\ rx' = [rx EXCEPT ![depth] =
                        [@ EXCEPT !.phase = "acquired", !.obj = o,
                                  !.will_max_out = WillMaxOut(o)]]
            /\ UNCHANGED depth
       ELSE /\ rx' = [rx EXCEPT ![depth] = NoFrame]
            /\ depth' = depth - 1
            /\ UNCHANGED heap
  /\ UNCHANGED <<subs, size, free_sids, tmo, conn, srv>>

\* Sub::call(): counts, then runs the user callback.
Call ==
  /\ depth > 0
  /\ rx[depth].phase = "acquired"
  /\ heap' = [heap EXCEPT ![rx[depth].obj] = CountCall(@)]
  /\ rx' = [rx EXCEPT ![depth].phase = "callback"]
  /\ UNCHANGED <<subs, size, free_sids, depth, tmo, conn, srv>>

ReclaimsLastOnly(o) ==                   \* mutant: can_delete() is not asked
  IF heap[o].alive THEN {heap[o].ref_count <= 1} ELSE BOOLEAN

\* Whether release() or can_delete() tells recv() to delete the object.  Of a
\* freed object they read whatever the memory holds by then.
Reclaims(o) ==
  IF heap[o].alive
    THEN {heap[o].ref_count <= 1 \/ (heap[o].marked /\ heap[o].ref_count <= 2)}
    ELSE BOOLEAN

\* The callback has returned: release() and clean-up, under mutex.  No UNSUB.
Return ==
  /\ depth > 0
  /\ rx[depth].phase = "callback"
  /\ LET f == rx[depth]
         o == f.obj
     IN \E reclaim \in Reclaims(o) :
          IF reclaim
            THEN FreeSlot(f.sid) /\ heap' = [heap EXCEPT ![o] = Freed]
            ELSE /\ heap' = [heap EXCEPT ![o] =
                              IF ~@.alive THEN @
                              ELSE IF f.will_max_out
                                THEN MarkForDeletion(Release(@))
                                ELSE Release(@)]
                 /\ UNCHANGED <<subs, free_sids>>
  /\ rx' = [rx EXCEPT ![depth] = NoFrame]
  /\ depth' = depth - 1
  /\ UNCHANGED <<size, tmo, conn, srv>>

-----------------------------------------------------------------------------
(* Request timeouts                                                        *)

\* The time-out of a request passes.
Expire(o) ==
  /\ heap[o].timer = "armed"
  /\ heap' = [heap EXCEPT ![o].timer = "expired"]
  /\ UNCHANGED <<subs, size, free_sids, rx, depth, tmo, conn, srv>>

Expired(sid) == subs[sid] # NULL /\ heap[subs[sid]].timer = "expired"

TimedOut(sid) == Expired(sid) /\ ~heap[subs[sid]].marked

\* The scan goes on with what is left, or ends.
ScanOf(todo) ==
  [phase |-> IF todo = {} THEN "idle" ELSE "scan", todo |-> todo,
   sid |-> 0, obj |-> NULL]

\* process() collects the timed-out ids and their callbacks under mutex, after
\* its recv().
TimeoutCollect ==
  /\ tmo.phase = "idle"
  /\ OneReceiver => depth = 0
  /\ \E sid \in Sid : Expired(sid)
  /\ tmo' = ScanOf({[sid |-> sid, obj |-> subs[sid]] :
                     sid \in {s \in Sid : Expired(s)}})
  /\ UNCHANGED <<table, rx, depth, conn, srv>>

\* The scan takes the smallest id; the callback that runs is the one collected.
Earliest(e) == \A other \in tmo.todo : e.sid <= other.sid
CallbackOf(e) ==
  [phase |-> "callback", todo |-> tmo.todo \ {e}, sid |-> e.sid, obj |-> e.obj]

TimeoutRecheckSkipped ==                 \* mutant: trusts what was collected
  /\ tmo.phase = "scan"
  /\ \E e \in tmo.todo :
       /\ Earliest(e)
       /\ tmo' = IF subs[e.sid] # NULL THEN CallbackOf(e)
                                       ELSE ScanOf(tmo.todo \ {e})
  /\ UNCHANGED <<table, rx, depth, conn, srv>>

\* The next id is looked at again, under mutex: a response may have arrived.
\* What is looked at is the Sub that is in the slot by then.
TimeoutRecheck ==
  /\ tmo.phase = "scan"
  /\ \E e \in tmo.todo :
       /\ Earliest(e)
       /\ tmo' = IF TimedOut(e.sid) THEN CallbackOf(e)
                                    ELSE ScanOf(tmo.todo \ {e})
  /\ UNCHANGED <<table, rx, depth, conn, srv>>

\* on_timeout has returned: unsubscribe(sid), whatever the slot holds by then.
\* With one receiver, what on_timeout received has been dealt with by then.
TimeoutFinish ==
  /\ tmo.phase = "callback"
  /\ OneReceiver => depth = 0
  /\ IF subs[tmo.sid] # NULL
       THEN Unsubscribed(tmo.sid)
       ELSE UNCHANGED <<table, srv>>
  /\ tmo' = ScanOf(tmo.todo)
  /\ UNCHANGED <<rx, depth, conn>>

-----------------------------------------------------------------------------
(* The connection, as far as the table can see it                          *)

\* disconnect() leaves the table alone; the server forgets the connection.
Disconnect ==
  /\ connected
  /\ conn' = "down"
  /\ srv' = {}
  /\ UNCHANGED <<table, rx, depth, tmo>>

\* recv() of the first INFO: CONNECT is sent, connected = true.
HandshakeDone ==
  /\ conn = "down"
  /\ conn' = "restoring"
  /\ UNCHANGED <<table, rx, depth, tmo, srv>>

Restorable ==
  {sid \in Sid : /\ subs[sid] # NULL
                 /\ ~heap[subs[sid]].marked
                 /\ heap[subs[sid]].subject}

RestoreFromOne ==                        \* mutant: the loop starts at 1
  /\ conn = "restoring"
  /\ conn' = "up"
  /\ srv' = srv \cup (Restorable \ {0})
  /\ UNCHANGED <<table, rx, depth, tmo>>

\* restore_subscriptions(), under mutex.
RestoreSubscriptions ==
  /\ conn = "restoring"
  /\ conn' = "up"
  /\ srv' = srv \cup Restorable
  /\ UNCHANGED <<table, rx, depth, tmo>>

-----------------------------------------------------------------------------
(* Tearing the table down                                                  *)

Quiet == TeardownInCallback \/ \A o \in Obj : Holders(o) = {}

Occupied == {sid \in Sid : subs[sid] # NULL}

DeleteAll ==
  /\ subs' = [sid \in Sid |-> NULL]
  /\ heap' = [o \in Obj |->
                IF \E sid \in Sid : subs[sid] = o THEN Freed ELSE heap[o]]

\* q lists the ids of s in ascending order.
Ascending(q, s) ==
  /\ \A sid \in s : \E i \in DOMAIN q : q[i] = sid
  /\ \A i, j \in DOMAIN q : i < j => q[i] < q[j]

\* drain(): UNSUB and delete everything under mutex.  The flush and the
\* disconnect that follow are steps of the receiver and of the connection.
Drain ==
  /\ connected
  /\ Quiet
  /\ DeleteAll
  /\ \E q \in [1 .. Cardinality(Occupied) -> Occupied] :
       /\ Ascending(q, Occupied)
       /\ free_sids' = free_sids \o q
  /\ srv' = srv \ Occupied
  /\ UNCHANGED <<size, rx, depth, tmo, conn>>

\* shutdown(): disconnect, delete everything, empty free_sids.
Shutdown ==
  /\ UsesShutdown
  /\ Quiet
  /\ DeleteAll
  /\ free_sids' = << >>
  /\ conn' = "down"
  /\ srv' = {}
  /\ UNCHANGED <<size, rx, depth, tmo>>

-----------------------------------------------------------------------------
Init ==
  /\ subs = [sid \in Sid |-> NULL]
  /\ size = 0
  /\ free_sids = << >>
  /\ heap = [o \in Obj |-> Freed]
  /\ rx = [i \in Frame |-> NoFrame]
  /\ depth = 0
  /\ tmo = NoScan
  /\ conn = "down"
  /\ srv = {}

Application ==
  \/ Subscribe
  \/ RequestWithTimeout
  \/ \E sid \in Sid : Unsubscribe(sid)
  \/ Drain
  \/ Shutdown

Receiver ==
  \/ \E sid \in Sid : RecvMsg(sid)
  \/ RecvAbort
  \/ Acquire
  \/ Call
  \/ Return

Timeouts ==
  \/ \E o \in Obj : Expire(o)
  \/ TimeoutCollect
  \/ TimeoutRecheck
  \/ TimeoutFinish

Connection ==
  \/ Disconnect
  \/ HandshakeDone
  \/ RestoreSubscriptions

Next == Application \/ Receiver \/ Timeouts \/ Connection

Spec == Init /\ [][Next]_vars

\* User callbacks return after finitely many nested receives (SF), and a recv()
\* that has started runs on to its callback (WF).
Fairness ==
  /\ WF_vars(Acquire \/ RecvAbort)
  /\ WF_vars(Call)
  /\ \A i \in Frame : SF_vars(depth = i /\ Return)

FairSpec == Spec /\ Fairness

-----------------------------------------------------------------------------
(* Properties                                                              *)

TypeOK ==
  /\ subs \in [Sid -> Obj \cup {NULL}]
  /\ size \in 0 .. MaxSubs
  /\ free_sids \in Seq(Sid)
  /\ heap \in [Obj -> SubRecord]
  /\ rx \in [Frame -> FrameRecord]
  /\ depth \in 0 .. MaxDepth
  /\ tmo \in ScanRecord
  /\ conn \in {"down", "restoring", "up"}
  /\ srv \subseteq Sid

\* While recv() runs a callback, and until it has released the Sub, the object
\* is alive and still in its slot: no interleaving of unsubscribe, time-outs,
\* nested receives and other messages deletes it or gives the slot away.
NoUseAfterFree ==
  \A i \in Frame : rx[i].phase \in {"acquired", "callback"} =>
    /\ rx[i].obj \in Live
    /\ subs[rx[i].sid] = rx[i].obj

\* ref_count is one for the table plus one for every callback in progress, so
\* "ref_count <= 1" really means that no callback runs on the object.
RefCountExact ==
  \A o \in Live : heap[o].ref_count = 1 + Cardinality(Holders(o))

\* free_sids never holds an id twice, nor an id that is in use or that the
\* array does not have yet: no id is handed out to two subscriptions.
FreeSidsSound ==
  /\ \A i, j \in DOMAIN free_sids : free_sids[i] = free_sids[j] => i = j
  /\ \A i \in DOMAIN free_sids :
       free_sids[i] < size /\ subs[free_sids[i]] = NULL

\* Every Sub is in exactly one slot: none is leaked, none is in two slots.
EverySubInOneSlot ==
  /\ \A o \in Live : \E sid \in Sid : subs[sid] = o
  /\ \A s, t \in Sid : subs[s] # NULL /\ subs[s] = subs[t] => s = t

\* The limit of sub_internal() counts live subscriptions, no more and no less.
NoSlotLost == size - Len(free_sids) = Cardinality(Live)

\* An on_timeout is started only while the request in the slot has had no
\* response, although responses arrive between the collection of timed-out ids
\* and their turn, through earlier on_timeout callbacks or another receiver; and
\* it is that request's own on_timeout, unless the request it was collected from
\* is gone.
TimeoutOnlyWithoutResponse ==
  [][tmo.phase = "scan" /\ tmo'.phase = "callback" =>
       LET now == subs[tmo'.sid]
       IN /\ heap[now].received = 0 /\ Holders(now) = {}
          /\ heap[tmo'.obj].alive => tmo'.obj = now]_vars

\* What the re-check is for, and the code does not keep: the on_timeout that is
\* started is that of the request that timed out.  When the request it was
\* collected from is answered and its id recycled by one that times out too, the
\* callback of the answered request runs.
TimeoutCallbackIsOwn ==
  [][tmo.phase = "scan" /\ tmo'.phase = "callback" =>
       tmo'.obj = subs[tmo'.sid]]_vars

\* After the handshake of a reconnect the server has every persistent
\* subscription, whatever was subscribed or unsubscribed while it was down
\* or while the subscriptions were being restored.
RestoredOnReconnect == conn = "up" => Restorable \subseteq srv

\* The server has no subscription for an id the client considers free, so a
\* recycled id is never one the server already sends messages for.
ServerKnowsOnlyTaken == srv \subseteq Occupied

\* A subscription with a limit gets at most max_wanted messages.
LimitRespected ==
  \A o \in Live : heap[o].max_wanted > 0 =>
    heap[o].received <= heap[o].max_wanted

\* sub_internal() refuses a subscription only when MaxSubs are active.
LimitCountsActive ==
  size - Len(free_sids) >= MaxSubs => Cardinality(Live) >= MaxSubs

\* A Sub that unsubscribe() marks during a callback is deleted in the end.
LazyDeletionHappens ==
  \A o \in Obj :
    (heap[o].marked /\ Holders(o) # {} /\ heap[o].max_wanted = 0) ~>
      ~heap[o].alive

\* Whatever is marked for deletion is deleted in the end.
MarkedIsDeleted == \A o \in Obj : heap[o].marked ~> ~heap[o].alive
=============================================================================
