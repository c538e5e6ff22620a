------------------------ MODULE SubscriptionsProofs ------------------------
(***************************************************************************)
(* The subscription table is safe for every limit, every number of         *)
(* objects and every nesting depth, as long as drain() and shutdown() do   *)
(* not run during a callback.  The first part is about the memory: IInv.   *)
(* The second, on top of it, is about what the table promises: MoreInv.    *)
(***************************************************************************)
EXTENDS Subscriptions, FiniteSetTheorems, SequenceTheorems, TLAPS

\* What a slot refers to is alive, and within the array.
SlotsLive == \A s \in Sid : subs[s] # NULL => s < size /\ subs[s] \in Live

\* No invocation of recv() exists above depth.
FramesAbove == \A i \in Frame : i > depth => rx[i].phase = "idle"

\* The inductive invariant.
IInv ==
  /\ TypeOK
  /\ SlotsLive
  /\ FramesAbove
  /\ NoUseAfterFree
  /\ RefCountExact
  /\ FreeSidsSound
  /\ EverySubInOneSlot

-----------------------------------------------------------------------------
\* The callbacks in progress on an object are finitely many.
LEMMA HoldersFinite ==
  ASSUME NEW o
  PROVE  IsFiniteSet(Holders(o)) /\ Cardinality(Holders(o)) \in Nat
<1>1. IsFiniteSet(Frame)
  BY FS_Interval, SizesAssumption DEF Frame
<1>2. Holders(o) \in SUBSET Frame
  BY DEF Holders
<1>3. IsFiniteSet(Holders(o))
  BY <1>1, <1>2, FS_Subset
<1> QED
  BY <1>3, FS_CardinalityType

\* What the methods of Sub keep and change.
LEMMA SubMethods ==
  ASSUME NEW r \in SubRecord
  PROVE  /\ /\ AddRef(r) \in SubRecord
            /\ AddRef(r).alive = r.alive
            /\ AddRef(r).ref_count = r.ref_count + 1
         /\ r.ref_count > 0 =>
              /\ Release(r) \in SubRecord
              /\ Release(r).alive = r.alive
              /\ Release(r).ref_count = r.ref_count - 1
         /\ /\ MarkForDeletion(r) \in SubRecord
            /\ MarkForDeletion(r).alive = r.alive
            /\ MarkForDeletion(r).ref_count = r.ref_count
         /\ /\ ClearTimeout(r) \in SubRecord
            /\ ClearTimeout(r).alive = r.alive
            /\ ClearTimeout(r).ref_count = r.ref_count
         /\ /\ CountCall(r) \in SubRecord
            /\ CountCall(r).alive = r.alive
            /\ CountCall(r).ref_count = r.ref_count
<1>1. /\ AddRef(r) \in SubRecord
      /\ AddRef(r).alive = r.alive
      /\ AddRef(r).ref_count = r.ref_count + 1
  BY DEF AddRef, SubRecord
<1>2. r.ref_count > 0 => /\ Release(r) \in SubRecord
                         /\ Release(r).alive = r.alive
                         /\ Release(r).ref_count = r.ref_count - 1
  BY DEF Release, SubRecord
<1>3. /\ MarkForDeletion(r) \in SubRecord
      /\ MarkForDeletion(r).alive = r.alive
      /\ MarkForDeletion(r).ref_count = r.ref_count
  BY DEF MarkForDeletion, SubRecord
<1>4. /\ ClearTimeout(r) \in SubRecord
      /\ ClearTimeout(r).alive = r.alive
      /\ ClearTimeout(r).ref_count = r.ref_count
  BY DEF ClearTimeout, SubRecord
<1>5. /\ CountCall(r) \in SubRecord
      /\ CountCall(r).alive = r.alive
      /\ CountCall(r).ref_count = r.ref_count
  BY DEF CountCall, SubRecord
<1> QED
  BY <1>1, <1>2, <1>3, <1>4, <1>5

\* An object whose ref_count is 1 has no callback in progress.
LEMMA IdleObject ==
  ASSUME IInv, NEW o \in Live, heap[o].ref_count <= 1
  PROVE  Holders(o) = {}
<1>1. heap[o].ref_count = 1 + Cardinality(Holders(o))
  BY DEF IInv, RefCountExact
<1>2. Cardinality(Holders(o)) = 0
  BY <1>1, HoldersFinite
<1> QED
  BY <1>2, HoldersFinite, FS_EmptySet

\* An object whose ref_count is 2 is held by one invocation only.
LEMMA LastHolder ==
  ASSUME IInv, NEW o \in Live, heap[o].ref_count <= 2, NEW i \in Holders(o)
  PROVE  Holders(o) = {i}
<1>1. heap[o].ref_count = 1 + Cardinality(Holders(o))
  BY DEF IInv, RefCountExact
<1>2. Cardinality(Holders(o) \ {i}) = Cardinality(Holders(o)) - 1
  BY HoldersFinite, FS_RemoveElement
<1>3. IsFiniteSet(Holders(o) \ {i}) /\ Cardinality(Holders(o) \ {i}) \in Nat
  BY HoldersFinite, FS_RemoveElement, FS_CardinalityType
<1>4. Cardinality(Holders(o) \ {i}) = 0
  BY <1>1, <1>2, <1>3, HoldersFinite
<1>5. Holders(o) \ {i} = {}
  BY <1>3, <1>4, FS_EmptySet
<1> QED
  BY <1>5

\* A held object has a ref_count of at least 2.
LEMMA HeldObject ==
  ASSUME IInv, NEW o \in Live, NEW i \in Holders(o)
  PROVE  heap[o].ref_count >= 2
<1>1. heap[o].ref_count = 1 + Cardinality(Holders(o))
  BY DEF IInv, RefCountExact
<1>2. Cardinality(Holders(o)) # 0
  BY HoldersFinite, FS_EmptySet
<1> QED
  BY <1>1, <1>2, HoldersFinite

-----------------------------------------------------------------------------
LEMMA InitIInv == Init => IInv
<1> SUFFICES ASSUME Init PROVE IInv
  OBVIOUS
<1> USE SizesAssumption, NullAssumption
<1>1. TypeOK
  <2>1. << >> \in Seq(Sid)
    OBVIOUS
  <2>2. heap \in [Obj -> SubRecord]
    BY DEF Init, Freed, SubRecord
  <2>3. rx \in [Frame -> FrameRecord]
    BY DEF Init, NoFrame, FrameRecord, Sid
  <2>4. tmo \in ScanRecord
    BY DEF Init, NoScan, ScanRecord, Collected, Sid
  <2> QED
    BY <2>1, <2>2, <2>3, <2>4 DEF Init, TypeOK
<1>2. Live = {}
  BY DEF Init, Live, Freed
<1> QED
  BY <1>1, <1>2 DEF Init, IInv, SlotsLive, FramesAbove, NoUseAfterFree,
     RefCountExact, FreeSidsSound, EverySubInOneSlot, NoFrame

-----------------------------------------------------------------------------
\* Steps that touch neither the table nor the invocations of recv().
LEMMA ElsewhereStep ==
  ASSUME IInv, UNCHANGED <<table, rx, depth>>, TypeOK'
  PROVE  IInv'
BY DEF IInv, table, SlotsLive, FramesAbove, NoUseAfterFree, RefCountExact,
   FreeSidsSound, EverySubInOneSlot, Live, Holders

\* Steps of recv() that neither take nor give up a reference.
LEMMA FrameStep ==
  ASSUME IInv, UNCHANGED <<table, tmo, conn, srv>>, TypeOK', FramesAbove',
         \A o : Holders(o)' = Holders(o),
         \A i \in Frame :
           rx'[i].phase \in {"acquired", "callback"} => rx'[i] = rx[i]
  PROVE  IInv'
<1>1. Live' = Live
  BY DEF Live, table
<1>2. SlotsLive' /\ FreeSidsSound' /\ EverySubInOneSlot'
  BY <1>1 DEF IInv, table, SlotsLive, FreeSidsSound, EverySubInOneSlot
<1>3. NoUseAfterFree'
  BY <1>1 DEF IInv, table, NoUseAfterFree
<1>4. RefCountExact'
  BY <1>1 DEF IInv, table, RefCountExact
<1> QED
  BY <1>2, <1>3, <1>4 DEF IInv

\* unsubscribe() keeps the invariant, from the application and from process().
LEMMA UnsubscribedStep ==
  ASSUME IInv, NEW sid \in Sid, subs[sid] # NULL, Unsubscribed(sid),
         UNCHANGED <<rx, depth, conn>>, tmo' \in ScanRecord
  PROVE  IInv'
<1> USE SizesAssumption, NullAssumption
<1> DEFINE o == subs[sid]
<1>1. o \in Live /\ o \in Obj /\ sid < size
  BY DEF IInv, SlotsLive, Live
<1>2. \A p : Holders(p)' = Holders(p)
  BY DEF Holders
<1>3. size' = size /\ srv' \subseteq Sid
  BY DEF Unsubscribed, SendUnsub, IInv, TypeOK
<1>4. FramesAbove'
  BY DEF IInv, FramesAbove
<1>5. CASE NoCallbackRuns(o)
  <2>1. /\ heap' = [heap EXCEPT ![o] = Freed]
        /\ subs' = [subs EXCEPT ![sid] = NULL]
        /\ free_sids' = Append(free_sids, sid)
    BY <1>5 DEF Unsubscribed, FreeSlot
  <2>2. Holders(o) = {}
    BY <1>1, <1>5, IdleObject DEF NoCallbackRuns
  <2>3. TypeOK'
    <3>1. heap' \in [Obj -> SubRecord]
      BY <2>1 DEF IInv, TypeOK, Freed, SubRecord
    <3>2. free_sids' \in Seq(Sid)
      BY <2>1 DEF IInv, TypeOK
    <3> QED
      BY <1>3, <2>1, <3>1, <3>2 DEF IInv, TypeOK
  <2>4. Live' = Live \ {o}
    BY <1>1, <2>1 DEF Live, Freed, IInv, TypeOK, SubRecord
  <2>5. \A p \in Live' : heap'[p] = heap[p]
    BY <2>1, <2>4, <1>1 DEF Live, IInv, TypeOK
  <2>6. SlotsLive'
    BY <1>1, <1>3, <2>1, <2>4 DEF IInv, TypeOK, SlotsLive, EverySubInOneSlot
  <2>7. NoUseAfterFree'
    <3> SUFFICES ASSUME NEW i \in Frame,
                        rx[i].phase \in {"acquired", "callback"}
                 PROVE  rx[i].obj \in Live' /\ subs'[rx[i].sid] = rx[i].obj
      BY DEF NoUseAfterFree
    <3>1. rx[i].obj # o
      BY <2>2 DEF Holders
    <3>2. rx[i].obj \in Live /\ subs[rx[i].sid] = rx[i].obj
      BY DEF IInv, NoUseAfterFree
    <3> QED
      BY <2>1, <2>4, <3>1, <3>2 DEF IInv, TypeOK
  <2>8. RefCountExact'
    BY <1>2, <2>4, <2>5 DEF IInv, RefCountExact
  <2>9. FreeSidsSound'
    <3>1. \A i \in DOMAIN free_sids : free_sids[i] # sid
      BY DEF IInv, FreeSidsSound
    <3> QED
      BY <1>1, <1>3, <2>1, <3>1 DEF IInv, TypeOK, FreeSidsSound
  <2>10. EverySubInOneSlot'
    BY <2>1, <2>4 DEF IInv, TypeOK, EverySubInOneSlot
  <2> QED
    BY <1>4, <2>3, <2>6, <2>7, <2>8, <2>9, <2>10 DEF IInv
<1>6. CASE ~NoCallbackRuns(o)
  <2>1. /\ heap' = [heap EXCEPT ![o] = MarkForDeletion(@)]
        /\ UNCHANGED <<subs, free_sids>>
    BY <1>6 DEF Unsubscribed
  <2>2. heap' \in [Obj -> SubRecord] /\ Live' = Live
    <3>1. heap \in [Obj -> SubRecord] /\ heap[o] \in SubRecord
      BY <1>1 DEF IInv, TypeOK
    <3>2. heap' \in [Obj -> SubRecord]
      BY <1>1, <2>1, <3>1, SubMethods
    <3>3. \A p \in Obj : heap'[p].alive = heap[p].alive
      BY <1>1, <2>1, <3>1, SubMethods
    <3> QED
      BY <3>2, <3>3 DEF Live
  <2>3. \A p \in Obj : heap'[p].ref_count = heap[p].ref_count
    <3>1. heap \in [Obj -> SubRecord] /\ heap[o] \in SubRecord
      BY <1>1 DEF IInv, TypeOK
    <3> QED
      BY <1>1, <2>1, <3>1, SubMethods
  <2>4. TypeOK'
    BY <1>3, <2>1, <2>2 DEF IInv, TypeOK
  <2>5. RefCountExact'
    BY <1>2, <2>2, <2>3 DEF IInv, RefCountExact, Live
  <2> QED
    BY <1>3, <1>4, <2>1, <2>2, <2>4, <2>5
       DEF IInv, SlotsLive, NoUseAfterFree, FreeSidsSound, EverySubInOneSlot
<1> QED
  BY <1>5, <1>6

-----------------------------------------------------------------------------
LEMMA AllocSidStep ==
  ASSUME IInv, NEW sid \in Sid, HasRoom, AllocSid(sid)
  PROVE  /\ subs[sid] = NULL
         /\ sid < size'
         /\ size' \in 0 .. MaxSubs
         /\ size <= size'
         /\ free_sids' \in Seq(Sid)
         /\ \A i, j \in DOMAIN free_sids' : free_sids'[i] = free_sids'[j] => i = j
         /\ \A i \in DOMAIN free_sids' :
              /\ free_sids'[i] # sid
              /\ free_sids'[i] < size
              /\ subs[free_sids'[i]] = NULL
<1> USE SizesAssumption, NullAssumption
<1>1. size \in 0 .. MaxSubs /\ free_sids \in Seq(Sid)
  BY DEF IInv, TypeOK
<1>2. CASE free_sids = << >>
  <2>1. sid = size /\ size' = size + 1 /\ free_sids' = << >>
    BY <1>2 DEF AllocSid
  <2>2. subs[sid] = NULL
    BY <1>1, <2>1 DEF IInv, SlotsLive
  <2>3. size' \in 0 .. MaxSubs
    BY <1>1, <1>2, <2>1 DEF HasRoom
  <2> QED
    BY <1>1, <2>1, <2>2, <2>3
<1>3. CASE free_sids # << >>
  <2>1. sid = Head(free_sids) /\ free_sids' = Tail(free_sids) /\ size' = size
    BY <1>3 DEF AllocSid
  <2>2. /\ Tail(free_sids) \in Seq(Sid)
        /\ Len(Tail(free_sids)) = Len(free_sids) - 1
        /\ \A i \in 1 .. Len(Tail(free_sids)) :
             Tail(free_sids)[i] = free_sids[i + 1]
    BY <1>1, <1>3, HeadTailProperties
  <2>3. DOMAIN free_sids = 1 .. Len(free_sids) /\ Len(free_sids) \in Nat \ {0}
    BY <1>1, <1>3, LenProperties, EmptySeq
  <2>4. DOMAIN Tail(free_sids) = 1 .. Len(Tail(free_sids))
    BY <2>2, LenProperties
  <2>5. sid = free_sids[1]
    BY <1>1, <1>3, <2>1
  <2>6. \A i \in DOMAIN Tail(free_sids) :
          i + 1 \in DOMAIN free_sids /\ Tail(free_sids)[i] = free_sids[i + 1]
    BY <2>2, <2>3, <2>4
  <2>7. 1 \in DOMAIN free_sids
    BY <2>3
  <2>8. \A i \in DOMAIN Tail(free_sids) : i \in Nat /\ i >= 1
    BY <2>2, <2>4
  <2>9. \A i \in DOMAIN Tail(free_sids) : Tail(free_sids)[i] # sid
    BY <2>5, <2>6, <2>7, <2>8 DEF IInv, FreeSidsSound
  <2>10. \A i, j \in DOMAIN Tail(free_sids) :
           Tail(free_sids)[i] = Tail(free_sids)[j] => i = j
    BY <2>6, <2>8 DEF IInv, FreeSidsSound
  <2>11. subs[sid] = NULL /\ sid < size
    BY <2>5, <2>7 DEF IInv, FreeSidsSound
  <2>12. \A i \in DOMAIN Tail(free_sids) :
           Tail(free_sids)[i] < size /\ subs[Tail(free_sids)[i]] = NULL
    BY <2>6 DEF IInv, FreeSidsSound
  <2> QED
    BY <1>1, <2>1, <2>2, <2>9, <2>10, <2>11, <2>12
<1> QED
  BY <1>2, <1>3

LEMMA SubInternalStep ==
  ASSUME IInv, NEW o \in Obj, NEW max \in Limits, NEW stored \in BOOLEAN,
         NEW timed \in BOOLEAN, SubInternal(o, max, stored, timed)
  PROVE  IInv'
<1> USE SizesAssumption, NullAssumption, LimitsAssumption
<1>1. /\ o \notin Live \cup Referenced
      /\ HasRoom
      /\ heap' = [heap EXCEPT ![o] = NewSub(max, stored, timed)]
      /\ UNCHANGED <<rx, depth, tmo, conn>>
  BY DEF SubInternal
<1>2. PICK sid \in Sid : /\ AllocSid(sid)
                         /\ subs' = [subs EXCEPT ![sid] = o]
                         /\ srv' = IF connected THEN srv \cup {sid} ELSE srv
  BY DEF SubInternal
<1>3. /\ subs[sid] = NULL
      /\ sid < size'
      /\ size' \in 0 .. MaxSubs
      /\ size <= size'
      /\ free_sids' \in Seq(Sid)
      /\ \A i, j \in DOMAIN free_sids' : free_sids'[i] = free_sids'[j] => i = j
      /\ \A i \in DOMAIN free_sids' :
           /\ free_sids'[i] # sid
           /\ free_sids'[i] < size
           /\ subs[free_sids'[i]] = NULL
  BY <1>1, <1>2, AllocSidStep
<1>4. NewSub(max, stored, timed) \in SubRecord
  BY DEF NewSub, SubRecord
<1>5. NewSub(max, stored, timed).alive /\ NewSub(max, stored, timed).ref_count = 1
  BY DEF NewSub
<1>6. heap \in [Obj -> SubRecord] /\ subs \in [Sid -> Obj \cup {NULL}]
  BY DEF IInv, TypeOK
<1>7. /\ heap' \in [Obj -> SubRecord]
      /\ heap'[o] = NewSub(max, stored, timed)
      /\ \A p \in Obj \ {o} : heap'[p] = heap[p]
  BY <1>1, <1>4, <1>6
<1>8. Live' = Live \cup {o}
  BY <1>5, <1>7 DEF Live
<1>9. /\ subs' \in [Sid -> Obj \cup {NULL}]
      /\ subs'[sid] = o
      /\ \A s \in Sid \ {sid} : subs'[s] = subs[s]
  BY <1>2, <1>6
<1>10. TypeOK'
  BY <1>1, <1>2, <1>3, <1>7, <1>9 DEF IInv, TypeOK
<1>11. \A s \in Sid : subs[s] # NULL => s < size' /\ s # sid /\ subs[s] # o
  BY <1>1, <1>3 DEF IInv, TypeOK, SlotsLive, Sid
<1>12. SlotsLive'
  BY <1>3, <1>8, <1>9, <1>11 DEF IInv, SlotsLive
<1>13. NoUseAfterFree'
  <2> SUFFICES ASSUME NEW i \in Frame,
                      rx[i].phase \in {"acquired", "callback"}
               PROVE  rx[i].obj \in Live' /\ subs'[rx[i].sid] = rx[i].obj
    BY <1>1 DEF NoUseAfterFree
  <2>1. /\ rx[i].obj \in Live
        /\ rx[i].obj # NULL
        /\ subs[rx[i].sid] = rx[i].obj
        /\ rx[i].sid \in Sid
    BY DEF IInv, NoUseAfterFree, TypeOK, FrameRecord, Live
  <2> QED
    BY <1>3, <1>8, <1>9, <2>1
<1>14. Holders(o) = {}
  BY <1>1 DEF Holders, Referenced
<1>15. \A p : Holders(p)' = Holders(p)
  BY <1>1 DEF Holders
<1>16. RefCountExact'
  <2> SUFFICES ASSUME NEW p \in Live'
               PROVE  heap'[p].ref_count = 1 + Cardinality(Holders(p))
    BY <1>15 DEF RefCountExact
  <2>1. CASE p = o
    BY <1>5, <1>7, <1>14, <2>1, FS_EmptySet
  <2>2. CASE p # o
    BY <1>7, <1>8, <2>2 DEF IInv, RefCountExact, Live
  <2> QED
    BY <2>1, <2>2
<1>17. FreeSidsSound'
  <2>1. \A i \in DOMAIN free_sids' : free_sids'[i] \in Sid
    BY <1>3, LenProperties, ElementOfSeq
  <2> QED
    BY <1>3, <1>9, <2>1 DEF FreeSidsSound, Sid, IInv, TypeOK
<1>18. EverySubInOneSlot'
  <2>1. ASSUME NEW p \in Live' PROVE \E s \in Sid : subs'[s] = p
    <3>1. CASE p = o
      BY <1>9, <3>1
    <3>2. CASE p # o
      <4>1. p \in Live /\ p # NULL
        BY <1>8, <3>2 DEF Live
      <4>2. PICK s \in Sid : subs[s] = p
        BY <4>1 DEF IInv, EverySubInOneSlot
      <4> QED
        BY <1>3, <1>9, <4>1, <4>2
    <3> QED
      BY <3>1, <3>2
  <2>2. ASSUME NEW s \in Sid, NEW t \in Sid, subs'[s] # NULL, subs'[s] = subs'[t]
        PROVE  s = t
    <3>1. CASE s # sid /\ t # sid
      BY <1>9, <2>2, <3>1 DEF IInv, EverySubInOneSlot
    <3>2. CASE s = sid \/ t = sid
      BY <1>9, <1>11, <2>2, <3>2
    <3> QED
      BY <3>1, <3>2
  <2> QED
    BY <2>1, <2>2 DEF EverySubInOneSlot
<1>19. FramesAbove'
  BY <1>1 DEF IInv, FramesAbove
<1> QED
  BY <1>10, <1>12, <1>13, <1>16, <1>17, <1>18, <1>19 DEF IInv

-----------------------------------------------------------------------------
LEMMA RecvMsgStep ==
  ASSUME IInv, NEW sid \in Sid, RecvMsg(sid)
  PROVE  IInv'
<1> USE SizesAssumption
<1> DEFINE f == [NoFrame EXCEPT !.phase = "checked", !.sid = sid]
<1>1. /\ depth < MaxDepth /\ depth \in Nat /\ depth' = depth + 1
      /\ rx \in [Frame -> FrameRecord]
      /\ rx' = [rx EXCEPT ![depth + 1] = f]
      /\ UNCHANGED <<table, tmo, conn, srv>>
  BY DEF RecvMsg, IInv, TypeOK
<1>2. f \in FrameRecord /\ f.phase = "checked"
  BY DEF NoFrame, FrameRecord
<1>3. depth + 1 \in Frame
  BY <1>1 DEF Frame
<1>4. /\ rx' \in [Frame -> FrameRecord]
      /\ rx'[depth + 1] = f
      /\ \A i \in Frame \ {depth + 1} : rx'[i] = rx[i]
  BY <1>1, <1>2, <1>3
<1>5. rx[depth + 1].phase = "idle"
  BY <1>1, <1>3 DEF IInv, FramesAbove
<1>6. TypeOK'
  BY <1>1, <1>4 DEF IInv, TypeOK, table
<1>7. FramesAbove'
  BY <1>1, <1>4 DEF IInv, FramesAbove, Frame
<1> HIDE DEF f
<1>8. ASSUME NEW o PROVE Holders(o)' = Holders(o)
  <2>1. ASSUME NEW i \in Frame
        PROVE  (rx'[i].phase \in {"acquired", "callback"} /\ rx'[i].obj = o)
               <=> (rx[i].phase \in {"acquired", "callback"} /\ rx[i].obj = o)
    <3>1. CASE i = depth + 1
      BY <1>2, <1>4, <1>5, <3>1
    <3>2. CASE i # depth + 1
      BY <1>4, <3>2
    <3> QED
      BY <3>1, <3>2
  <2> QED
    BY <2>1 DEF Holders
<1>9. \A i \in Frame :
        rx'[i].phase \in {"acquired", "callback"} => rx'[i] = rx[i]
  BY <1>2, <1>4
<1> QED
  BY <1>1, <1>6, <1>7, <1>8, <1>9, FrameStep

\* The top invocation leaves without having taken a reference.
LEMMA PopStep ==
  ASSUME IInv, depth > 0, rx[depth].phase = "checked",
         rx' = [rx EXCEPT ![depth] = NoFrame], depth' = depth - 1,
         UNCHANGED <<table, tmo, conn, srv>>
  PROVE  IInv'
<1> USE SizesAssumption
<1>1. depth \in Frame /\ rx \in [Frame -> FrameRecord]
  BY DEF IInv, TypeOK, Frame
<1>2. NoFrame \in FrameRecord /\ NoFrame.phase = "idle"
  BY DEF NoFrame, FrameRecord, Sid
<1>3. /\ rx' \in [Frame -> FrameRecord]
      /\ rx'[depth] = NoFrame
      /\ \A i \in Frame \ {depth} : rx'[i] = rx[i]
  BY <1>1, <1>2
<1>4. TypeOK'
  BY <1>1, <1>3 DEF IInv, TypeOK, table
<1>5. FramesAbove'
  BY <1>1, <1>2, <1>3 DEF IInv, FramesAbove, Frame
<1>6. \A o : Holders(o)' = Holders(o)
  BY <1>2, <1>3 DEF Holders
<1>7. \A i \in Frame :
        rx'[i].phase \in {"acquired", "callback"} => rx'[i] = rx[i]
  BY <1>2, <1>3
<1> QED
  BY <1>4, <1>5, <1>6, <1>7, FrameStep

LEMMA AcquireStep ==
  ASSUME IInv, Acquire
  PROVE  IInv'
<1> USE SizesAssumption, NullAssumption
<1> PICK sid, o : sid = rx[depth].sid /\ o = subs[sid]
  OBVIOUS
<1>1. /\ depth > 0 /\ depth \in Frame /\ rx \in [Frame -> FrameRecord]
      /\ rx[depth].phase = "checked" /\ sid \in Sid
      /\ UNCHANGED <<subs, size, free_sids, tmo, conn, srv>>
  BY DEF Acquire, IInv, TypeOK, Frame, FrameRecord
<1>2. CASE ~(o # NULL /\ ~heap[o].marked)
  <2>1. /\ rx' = [rx EXCEPT ![depth] = NoFrame] /\ depth' = depth - 1
        /\ UNCHANGED heap
    BY <1>2 DEF Acquire
  <2> QED
    BY <1>1, <2>1, PopStep DEF table
<1>3. CASE o # NULL /\ ~heap[o].marked
  <2>1. /\ heap' = [heap EXCEPT ![o] = ClearTimeout(AddRef(@))]
        /\ rx' = [rx EXCEPT ![depth] =
                    [@ EXCEPT !.phase = "acquired", !.obj = o,
                              !.will_max_out = WillMaxOut(o)]]
        /\ depth' = depth
    BY <1>3 DEF Acquire
  <2>2. o \in Obj /\ o \in Live /\ heap \in [Obj -> SubRecord]
    BY <1>1, <1>3 DEF IInv, SlotsLive, Live, TypeOK
  <2>3. WillMaxOut(o) \in BOOLEAN
    BY DEF WillMaxOut
  <2>4. /\ heap' \in [Obj -> SubRecord]
        /\ heap'[o].ref_count = heap[o].ref_count + 1
        /\ heap'[o].alive = heap[o].alive
        /\ \A p \in Obj \ {o} : heap'[p] = heap[p]
    <3> DEFINE n == ClearTimeout(AddRef(heap[o]))
    <3>1. heap[o] \in SubRecord
      BY <2>2
    <3>2. /\ n \in SubRecord
          /\ n.ref_count = heap[o].ref_count + 1
          /\ n.alive = heap[o].alive
      BY <3>1, SubMethods
    <3>3. heap' = [heap EXCEPT ![o] = n]
      BY <2>1
    <3> HIDE DEF n
    <3> QED
      BY <2>2, <3>2, <3>3
  <2>5. /\ rx' \in [Frame -> FrameRecord]
        /\ rx'[depth].phase = "acquired"
        /\ rx'[depth].obj = o
        /\ rx'[depth].sid = sid
        /\ \A i \in Frame \ {depth} : rx'[i] = rx[i]
    <3>1. rx[depth] \in FrameRecord
      BY <1>1
    <3> QED
      BY <1>1, <2>1, <2>2, <2>3, <3>1 DEF FrameRecord
  <2>6. Live' = Live
    BY <2>2, <2>4 DEF Live
  <2>7. TypeOK'
    BY <1>1, <2>1, <2>4, <2>5 DEF IInv, TypeOK
  <2>8. Holders(o)' = Holders(o) \cup {depth} /\ depth \notin Holders(o)
    BY <1>1, <2>5 DEF Holders
  <2>9. ASSUME NEW p, p # o PROVE Holders(p)' = Holders(p)
    <3>1. ASSUME NEW i \in Frame
          PROVE  (rx'[i].phase \in {"acquired", "callback"} /\ rx'[i].obj = p)
                 <=> (rx[i].phase \in {"acquired", "callback"} /\ rx[i].obj = p)
      <4>1. CASE i = depth
        BY <1>1, <2>5, <2>9, <4>1
      <4>2. CASE i # depth
        BY <2>5, <4>2
      <4> QED
        BY <4>1, <4>2
    <3> QED
      BY <3>1 DEF Holders
  <2>10. Cardinality(Holders(o)') = Cardinality(Holders(o)) + 1
    BY <2>8, HoldersFinite, FS_AddElement, SMTT(30)
  <2>11. RefCountExact'
    <3> SUFFICES ASSUME NEW p \in Live
                 PROVE  heap'[p].ref_count = 1 + Cardinality(Holders(p)')
      BY <2>6 DEF RefCountExact
    <3>1. heap[p].ref_count = 1 + Cardinality(Holders(p))
      BY DEF IInv, RefCountExact
    <3>2. CASE p = o
      BY <2>4, <2>10, <3>1, <3>2, HoldersFinite
    <3>3. CASE p # o
      BY <2>4, <2>9, <3>1, <3>3 DEF Live
    <3> QED
      BY <3>2, <3>3
  <2>12. NoUseAfterFree'
    BY <1>1, <2>2, <2>5, <2>6 DEF IInv, NoUseAfterFree
  <2>13. SlotsLive' /\ FreeSidsSound' /\ EverySubInOneSlot'
    BY <1>1, <2>6 DEF IInv, SlotsLive, FreeSidsSound, EverySubInOneSlot
  <2>14. FramesAbove'
    BY <1>1, <2>1, <2>5 DEF IInv, FramesAbove, Frame, TypeOK
  <2> QED
    BY <2>7, <2>11, <2>12, <2>13, <2>14 DEF IInv
<1> QED
  BY <1>2, <1>3

-----------------------------------------------------------------------------
LEMMA CallStep ==
  ASSUME IInv, Call
  PROVE  IInv'
<1> USE SizesAssumption, NullAssumption
<1> PICK o : o = rx[depth].obj
  OBVIOUS
<1>1. /\ depth \in Frame /\ rx \in [Frame -> FrameRecord]
      /\ rx[depth].phase = "acquired"
      /\ rx' = [rx EXCEPT ![depth].phase = "callback"]
      /\ UNCHANGED <<subs, size, free_sids, depth, tmo, conn, srv>>
  BY DEF Call, IInv, TypeOK, Frame
<1>2. o \in Live /\ o \in Obj /\ heap \in [Obj -> SubRecord]
  BY <1>1 DEF IInv, NoUseAfterFree, TypeOK, Live
<1>3. heap' = [heap EXCEPT ![o] = CountCall(@)]
  BY DEF Call
<1>4. /\ heap' \in [Obj -> SubRecord]
      /\ \A p \in Obj : /\ heap'[p].ref_count = heap[p].ref_count
                        /\ heap'[p].alive = heap[p].alive
  <2>1. heap[o] \in SubRecord
    BY <1>2
  <2> QED
    BY <1>2, <1>3, <2>1, SubMethods
<1>5. Live' = Live
  BY <1>4 DEF Live
<1>6. /\ rx' \in [Frame -> FrameRecord]
      /\ rx'[depth].phase = "callback"
      /\ rx'[depth].obj = rx[depth].obj
      /\ rx'[depth].sid = rx[depth].sid
      /\ \A i \in Frame \ {depth} : rx'[i] = rx[i]
  <2>1. rx[depth] \in FrameRecord
    BY <1>1
  <2> QED
    BY <1>1, <2>1 DEF FrameRecord
<1>7. TypeOK'
  BY <1>1, <1>4, <1>6 DEF IInv, TypeOK
<1>8. \A p : Holders(p)' = Holders(p)
  BY <1>1, <1>6 DEF Holders
<1>9. RefCountExact'
  BY <1>4, <1>5, <1>8 DEF IInv, RefCountExact, Live
<1>10. NoUseAfterFree'
  BY <1>1, <1>5, <1>6 DEF IInv, NoUseAfterFree
<1>11. SlotsLive' /\ FreeSidsSound' /\ EverySubInOneSlot'
  BY <1>1, <1>5 DEF IInv, SlotsLive, FreeSidsSound, EverySubInOneSlot
<1>12. FramesAbove'
  BY <1>1, <1>6 DEF IInv, FramesAbove, Frame, TypeOK
<1> QED
  BY <1>7, <1>9, <1>10, <1>11, <1>12 DEF IInv

LEMMA ReturnStep ==
  ASSUME IInv, Return
  PROVE  IInv'
<1> USE SizesAssumption, NullAssumption
<1> PICK d, f, o : d = depth /\ f = rx[depth] /\ o = f.obj
  OBVIOUS
<1>1. /\ d \in Frame /\ depth = d /\ depth' = d - 1
      /\ rx \in [Frame -> FrameRecord] /\ f \in FrameRecord /\ rx[d] = f
      /\ f.phase = "callback" /\ f.obj = o
      /\ f.sid \in Sid /\ f.will_max_out \in BOOLEAN
      /\ rx' = [rx EXCEPT ![d] = NoFrame]
      /\ UNCHANGED <<size, tmo, conn, srv>>
  BY DEF Return, IInv, TypeOK, Frame, FrameRecord
<1>2. /\ o \in Live /\ o \in Obj /\ o # NULL /\ subs[f.sid] = o
      /\ heap \in [Obj -> SubRecord] /\ heap[o] \in SubRecord
  BY <1>1 DEF IInv, NoUseAfterFree, TypeOK, Live
<1>3. NoFrame \in FrameRecord /\ NoFrame.phase = "idle"
  BY DEF NoFrame, FrameRecord, Sid
<1>4. /\ rx' \in [Frame -> FrameRecord]
      /\ rx'[d] = NoFrame
      /\ \A i \in Frame \ {d} : rx'[i] = rx[i]
  BY <1>1, <1>3
<1>5. d \in Holders(o) /\ Holders(o)' = Holders(o) \ {d}
  BY <1>1, <1>3, <1>4 DEF Holders
<1>6. \A p : p # o => Holders(p)' = Holders(p)
  BY <1>1, <1>3, <1>4 DEF Holders
<1>7. FramesAbove'
  BY <1>1, <1>3, <1>4 DEF IInv, FramesAbove, Frame, TypeOK
<1>8. heap[o].ref_count >= 2 /\ heap[o].alive
  BY <1>2, <1>5, HeldObject DEF Live
<1>9. PICK reclaim \in Reclaims(o) :
        IF reclaim
          THEN FreeSlot(f.sid) /\ heap' = [heap EXCEPT ![o] = Freed]
          ELSE /\ heap' = [heap EXCEPT ![o] =
                            IF f.will_max_out THEN MarkForDeletion(Release(@))
                                              ELSE Release(@)]
               /\ UNCHANGED <<subs, free_sids>>
  BY <1>8 DEF Return
<1>10. reclaim <=> heap[o].ref_count <= 1 \/ (heap[o].marked /\ heap[o].ref_count <= 2)
  BY <1>8 DEF Reclaims
<1>11. CASE reclaim
  <2>1. /\ heap' = [heap EXCEPT ![o] = Freed]
        /\ subs' = [subs EXCEPT ![f.sid] = NULL]
        /\ free_sids' = Append(free_sids, f.sid)
    BY <1>9, <1>11 DEF FreeSlot
  <2>2. heap[o].ref_count <= 2
    BY <1>2, <1>10, <1>11 DEF SubRecord
  <2>3. Holders(o) = {d}
    BY <1>2, <1>5, <2>2, LastHolder
  <2>4. f.sid < size /\ free_sids \in Seq(Sid) /\ subs \in [Sid -> Obj \cup {NULL}]
    BY <1>1, <1>2 DEF IInv, SlotsLive, TypeOK
  <2>5. TypeOK'
    <3>1. heap' \in [Obj -> SubRecord]
      BY <1>2, <2>1 DEF Freed, SubRecord
    <3>2. free_sids' \in Seq(Sid)
      BY <1>1, <2>1, <2>4
    <3> QED
      BY <1>1, <1>4, <2>1, <3>1, <3>2 DEF IInv, TypeOK, Frame
  <2>6. Live' = Live \ {o}
    BY <1>2, <2>1 DEF Live, Freed
  <2>7. \A p \in Live' : heap'[p] = heap[p]
    BY <1>2, <2>1, <2>6 DEF Live
  <2>8. SlotsLive'
    BY <1>1, <1>2, <2>1, <2>4, <2>6 DEF IInv, SlotsLive, EverySubInOneSlot
  <2>9. NoUseAfterFree'
    <3> SUFFICES ASSUME NEW i \in Frame,
                        rx'[i].phase \in {"acquired", "callback"}
                 PROVE  rx'[i].obj \in Live' /\ subs'[rx'[i].sid] = rx'[i].obj
      BY DEF NoUseAfterFree
    <3>1. i # d /\ rx'[i] = rx[i]
      BY <1>3, <1>4
    <3>2. rx[i].obj # o
      BY <2>3, <3>1 DEF Holders
    <3>3. rx[i].obj \in Live /\ subs[rx[i].sid] = rx[i].obj /\ rx[i].sid \in Sid
      BY <1>1, <3>1 DEF IInv, NoUseAfterFree, FrameRecord
    <3> QED
      BY <1>1, <1>2, <2>1, <2>4, <2>6, <3>1, <3>2, <3>3
  <2>10. RefCountExact'
    BY <1>6, <2>6, <2>7 DEF IInv, RefCountExact
  <2>11. FreeSidsSound'
    <3>1. \A i \in DOMAIN free_sids : free_sids[i] # f.sid
      BY <1>2 DEF IInv, FreeSidsSound
    <3> QED
      BY <1>1, <2>1, <2>4, <3>1 DEF IInv, TypeOK, FreeSidsSound
  <2>12. EverySubInOneSlot'
    BY <1>1, <1>2, <2>1, <2>4, <2>6 DEF IInv, EverySubInOneSlot
  <2> QED
    BY <1>7, <2>5, <2>8, <2>9, <2>10, <2>11, <2>12 DEF IInv
<1>12. CASE ~reclaim
  <2> DEFINE n == IF f.will_max_out THEN MarkForDeletion(Release(heap[o]))
                                    ELSE Release(heap[o])
  <2>1. heap' = [heap EXCEPT ![o] = n] /\ UNCHANGED <<subs, free_sids>>
    BY <1>2, <1>9, <1>12
  <2>2. /\ n \in SubRecord
        /\ n.alive = heap[o].alive
        /\ n.ref_count = heap[o].ref_count - 1
    <3>1. /\ Release(heap[o]) \in SubRecord
          /\ Release(heap[o]).alive = heap[o].alive
          /\ Release(heap[o]).ref_count = heap[o].ref_count - 1
      <4>1. heap[o].ref_count > 0
        BY <1>2, <1>8 DEF SubRecord
      <4> QED
        BY <1>2, <4>1, SubMethods
    <3>2. CASE f.will_max_out
      BY <3>1, <3>2, SubMethods
    <3>3. CASE ~f.will_max_out
      BY <3>1, <3>3
    <3> QED
      BY <3>2, <3>3
  <2> HIDE DEF n
  <2>3. /\ heap' \in [Obj -> SubRecord]
        /\ heap'[o] = n
        /\ \A p \in Obj \ {o} : heap'[p] = heap[p]
    BY <1>2, <2>1, <2>2
  <2>4. Live' = Live
    BY <1>2, <2>2, <2>3 DEF Live
  <2>5. TypeOK'
    <3>1. depth' \in 0 .. MaxDepth
      BY <1>1 DEF Frame
    <3>2. /\ subs' = subs /\ size' = size /\ free_sids' = free_sids
          /\ tmo' = tmo /\ conn' = conn /\ srv' = srv
      BY <1>1, <2>1
    <3>4. /\ subs' \in [Sid -> Obj \cup {NULL}] /\ size' \in 0 .. MaxSubs
          /\ free_sids' \in Seq(Sid)
      BY <3>2 DEF IInv, TypeOK
    <3>5. /\ tmo' \in ScanRecord /\ conn' \in {"down", "restoring", "up"}
          /\ srv' \subseteq Sid
      BY <3>2 DEF IInv, TypeOK
    <3>3. heap' \in [Obj -> SubRecord] /\ rx' \in [Frame -> FrameRecord]
      BY <1>4, <2>3
    <3> QED
      BY ONLY <3>1, <3>3, <3>4, <3>5, Zenon DEF TypeOK
  <2>6. Cardinality(Holders(o)') = Cardinality(Holders(o)) - 1
    <3>1. IsFiniteSet(Holders(o))
      BY HoldersFinite
    <3>2. Cardinality(Holders(o) \ {d}) = Cardinality(Holders(o)) - 1
      BY ONLY <1>5, <3>1, FS_RemoveElement
    <3> QED
      BY ONLY <1>5, <3>2
  <2>7. RefCountExact'
    <3> SUFFICES ASSUME NEW p \in Live
                 PROVE  heap'[p].ref_count = 1 + Cardinality(Holders(p)')
      BY <2>4 DEF RefCountExact
    <3>1. heap[p].ref_count = 1 + Cardinality(Holders(p))
      BY DEF IInv, RefCountExact
    <3>2. CASE p = o
      BY <2>2, <2>3, <2>6, <3>1, <3>2, HoldersFinite
    <3>3. CASE p # o
      BY <1>6, <2>3, <3>1, <3>3 DEF Live
    <3> QED
      BY <3>2, <3>3
  <2>8. NoUseAfterFree'
    BY <1>1, <1>3, <1>4, <2>1, <2>4 DEF IInv, NoUseAfterFree
  <2>9. SlotsLive' /\ FreeSidsSound' /\ EverySubInOneSlot'
    BY <1>1, <2>1, <2>4 DEF IInv, SlotsLive, FreeSidsSound, EverySubInOneSlot
  <2> QED
    BY <1>7, <2>5, <2>7, <2>8, <2>9 DEF IInv
<1> QED
  BY <1>11, <1>12

-----------------------------------------------------------------------------
LEMMA ExpireStep ==
  ASSUME IInv, NEW o \in Obj, Expire(o)
  PROVE  IInv'
<1>1. /\ heap' = [heap EXCEPT ![o].timer = "expired"]
      /\ UNCHANGED <<subs, size, free_sids, rx, depth, tmo, conn, srv>>
      /\ heap \in [Obj -> SubRecord] /\ heap[o] \in SubRecord
  BY DEF Expire, IInv, TypeOK
<1>2. /\ heap' \in [Obj -> SubRecord]
      /\ \A p \in Obj : /\ heap'[p].ref_count = heap[p].ref_count
                        /\ heap'[p].alive = heap[p].alive
  BY <1>1 DEF SubRecord
<1>3. Live' = Live /\ \A p : Holders(p)' = Holders(p)
  BY <1>1, <1>2 DEF Live, Holders
<1>4. TypeOK'
  BY <1>1, <1>2 DEF IInv, TypeOK
<1>5. RefCountExact'
  BY <1>2, <1>3 DEF IInv, RefCountExact, Live
<1> QED
  BY <1>1, <1>3, <1>4, <1>5 DEF IInv, SlotsLive, FramesAbove, NoUseAfterFree,
     FreeSidsSound, EverySubInOneSlot

\* Deleting everything while no callback runs.
LEMMA DeleteAllStep ==
  ASSUME IInv, \A o \in Obj : Holders(o) = {}, DeleteAll,
         UNCHANGED <<size, rx, depth, tmo>>, free_sids' \in Seq(Sid),
         \A i, j \in DOMAIN free_sids' : free_sids'[i] = free_sids'[j] => i = j,
         \A i \in DOMAIN free_sids' : free_sids'[i] < size,
         conn' \in {"down", "restoring", "up"}, srv' \subseteq Sid
  PROVE  IInv'
<1> USE SizesAssumption, NullAssumption
<1>1. /\ subs' = [sid \in Sid |-> NULL]
      /\ heap' = [o \in Obj |->
                    IF \E sid \in Sid : subs[sid] = o THEN Freed ELSE heap[o]]
  BY DEF DeleteAll
<1>2. heap \in [Obj -> SubRecord] /\ Freed \in SubRecord /\ ~Freed.alive
  BY DEF IInv, TypeOK, Freed, SubRecord
<1>3. Live' = {}
  BY <1>1, <1>2 DEF Live, IInv, EverySubInOneSlot
<1>4. TypeOK'
  BY <1>1, <1>2 DEF IInv, TypeOK
<1>5. \A i \in DOMAIN free_sids' : free_sids'[i] \in Sid
  BY LenProperties, ElementOfSeq
<1>6. SlotsLive' /\ FreeSidsSound' /\ EverySubInOneSlot' /\ RefCountExact'
  BY <1>1, <1>3, <1>5
     DEF SlotsLive, FreeSidsSound, EverySubInOneSlot, RefCountExact
<1>7. NoUseAfterFree'
  <2>1. \A i \in Frame : rx[i].phase \notin {"acquired", "callback"}
    BY DEF IInv, NoUseAfterFree, Live, Holders
  <2> QED
    BY <2>1 DEF NoUseAfterFree
<1>8. FramesAbove'
  BY DEF IInv, FramesAbove
<1> QED
  BY <1>4, <1>6, <1>7, <1>8 DEF IInv

LEMMA ShutdownStep ==
  ASSUME IInv, ~TeardownInCallback, Shutdown
  PROVE  IInv'
<1>1. /\ \A o \in Obj : Holders(o) = {}
      /\ DeleteAll /\ UNCHANGED <<size, rx, depth, tmo>>
      /\ free_sids' = << >> /\ conn' = "down" /\ srv' = {}
  BY DEF Shutdown, Quiet
<1>2. /\ free_sids' \in Seq(Sid)
      /\ \A i, j \in DOMAIN free_sids' : free_sids'[i] = free_sids'[j] => i = j
      /\ \A i \in DOMAIN free_sids' : free_sids'[i] < size
  BY <1>1
<1>3. conn' \in {"down", "restoring", "up"} /\ srv' \subseteq Sid
  BY <1>1
<1> QED
  BY <1>1, <1>2, <1>3, DeleteAllStep

LEMMA DrainStep ==
  ASSUME IInv, ~TeardownInCallback, Drain
  PROVE  IInv'
<1> USE NullAssumption
<1>1. /\ \A o \in Obj : Holders(o) = {}
      /\ DeleteAll /\ UNCHANGED <<size, rx, depth, tmo, conn>>
      /\ srv' = srv \ Occupied
  BY DEF Drain, Quiet
<1>2. PICK q \in [1 .. Cardinality(Occupied) -> Occupied] :
        /\ Ascending(q, Occupied)
        /\ free_sids' = free_sids \o q
  BY DEF Drain
<1>3. IsFiniteSet(Occupied) /\ Cardinality(Occupied) \in Nat
  <2>1. IsFiniteSet(Sid) /\ Occupied \in SUBSET Sid
    BY FS_Interval, SizesAssumption DEF Sid, Occupied
  <2> QED
    BY <2>1, FS_Subset, FS_CardinalityType
<1>4. Occupied \subseteq Sid /\ \A s \in Occupied : subs[s] # NULL /\ s < size
  BY DEF Occupied, IInv, SlotsLive
<1>5. q \in Seq(Sid) /\ Len(q) = Cardinality(Occupied)
  BY <1>2, <1>3, <1>4
<1>6. free_sids \in Seq(Sid)
  BY DEF IInv, TypeOK
<1>7. /\ free_sids' \in Seq(Sid)
      /\ Len(free_sids') = Len(free_sids) + Len(q)
      /\ \A i \in 1 .. Len(free_sids) + Len(q) :
           free_sids'[i] = IF i <= Len(free_sids) THEN free_sids[i]
                                                  ELSE q[i - Len(free_sids)]
  BY <1>2, <1>5, <1>6, ConcatProperties
<1>8. /\ Len(free_sids) \in Nat /\ Len(q) \in Nat
      /\ DOMAIN free_sids = 1 .. Len(free_sids)
      /\ DOMAIN q = 1 .. Len(q)
      /\ DOMAIN free_sids' = 1 .. Len(free_sids) + Len(q)
  BY <1>5, <1>6, <1>7, LenProperties
<1>9. \A i \in DOMAIN free_sids :
        free_sids[i] < size /\ subs[free_sids[i]] = NULL
  BY DEF IInv, FreeSidsSound
<1>10. \A i \in DOMAIN q : q[i] \in Occupied
  BY <1>2, <1>5, <1>8
<1>11. \A i, j \in DOMAIN q : q[i] = q[j] => i = j
  <2> SUFFICES ASSUME NEW i \in DOMAIN q, NEW j \in DOMAIN q, i < j, q[i] = q[j]
               PROVE  FALSE
    BY <1>8
  <2>1. q[i] < q[j]
    BY <1>2 DEF Ascending
  <2>2. q[i] \in Nat /\ q[j] \in Nat
    <3>1. \A s \in Sid : s \in Nat
      BY SizesAssumption DEF Sid
    <3>2. q[i] \in Sid /\ q[j] \in Sid
      BY <1>4, <1>10
    <3> QED
      BY <3>1, <3>2
  <2> QED
    BY <2>1, <2>2
<1>12. \A i \in DOMAIN free_sids' : free_sids'[i] < size
  <2> SUFFICES ASSUME NEW i \in DOMAIN free_sids' PROVE free_sids'[i] < size
    OBVIOUS
  <2>1. CASE i <= Len(free_sids)
    BY <1>7, <1>8, <1>9, <2>1
  <2>2. CASE i > Len(free_sids)
    <3>1. i - Len(free_sids) \in DOMAIN q /\ free_sids'[i] = q[i - Len(free_sids)]
      BY <1>7, <1>8, <2>2
    <3> QED
      BY <1>4, <1>10, <3>1
  <2> QED
    BY <1>8, <2>1, <2>2
<1>13. \A i, j \in DOMAIN free_sids' : free_sids'[i] = free_sids'[j] => i = j
  <2> DEFINE n == Len(free_sids)
  <2>1. ASSUME NEW i \in DOMAIN free_sids'
        PROVE  \/ /\ i \in DOMAIN free_sids /\ i <= n
                  /\ free_sids'[i] = free_sids[i] /\ subs[free_sids'[i]] = NULL
               \/ /\ i - n \in DOMAIN q /\ i > n
                  /\ free_sids'[i] = q[i - n] /\ subs[free_sids'[i]] # NULL
    <3>1. CASE i <= n
      BY <1>7, <1>8, <1>9, <3>1
    <3>2. CASE i > n
      <4>1. i - n \in DOMAIN q /\ free_sids'[i] = q[i - n]
        BY <1>7, <1>8, <3>2
      <4> QED
        BY <1>4, <1>10, <3>2, <4>1
    <3> QED
      BY <1>8, <3>1, <3>2
  <2> SUFFICES ASSUME NEW i \in DOMAIN free_sids', NEW j \in DOMAIN free_sids',
                      free_sids'[i] = free_sids'[j]
               PROVE  i = j
    OBVIOUS
  <2>2. CASE i <= n
    BY <2>1, <2>2, <1>8 DEF IInv, FreeSidsSound
  <2>3. CASE i > n
    <3>1. i - n \in DOMAIN q /\ j - n \in DOMAIN q /\ q[i - n] = q[j - n]
      BY <2>1, <2>3, <1>8
    <3>2. i - n = j - n
      BY <1>11, <3>1
    <3> QED
      BY <1>8, <3>2
  <2> QED
    BY <1>8, <2>2, <2>3
<1>14. conn' \in {"down", "restoring", "up"} /\ srv' \subseteq Sid
  BY <1>1 DEF IInv, TypeOK
<1> QED
  BY <1>1, <1>7, <1>12, <1>13, <1>14, DeleteAllStep

\* The scan of process() stays well-typed.
LEMMA ScanTypes ==
  ASSUME NEW todo \in SUBSET Collected
  PROVE  ScanOf(todo) \in ScanRecord
BY SizesAssumption DEF ScanOf, ScanRecord, Sid

LEMMA TimeoutStep ==
  ASSUME IInv, TimeoutCollect \/ TimeoutRecheck \/ TimeoutFinish
  PROVE  IInv'
<1>1. CASE TimeoutCollect
  <2>1. tmo' \in ScanRecord
    <3> DEFINE todo == {[sid |-> sid, obj |-> subs[sid]] :
                        sid \in {s \in Sid : Expired(s)}}
    <3>1. todo \in SUBSET Collected
      BY DEF Collected, Expired, IInv, TypeOK
    <3> QED
      BY <1>1, <3>1, ScanTypes DEF TimeoutCollect
  <2> QED
    BY <1>1, <2>1, ElsewhereStep DEF TimeoutCollect, IInv, TypeOK, table
<1>2. CASE TimeoutRecheck
  <2>1. PICK e \in tmo.todo :
          tmo' = IF TimedOut(e.sid) THEN CallbackOf(e) ELSE ScanOf(tmo.todo \ {e})
    BY <1>2 DEF TimeoutRecheck
  <2>2. /\ e.sid \in Sid /\ e.obj \in Obj
        /\ tmo.todo \ {e} \in SUBSET Collected
    BY DEF IInv, TypeOK, ScanRecord, Collected
  <2>3. CallbackOf(e) \in ScanRecord
    BY <2>2 DEF CallbackOf, ScanRecord
  <2>4. tmo' \in ScanRecord
    BY <2>1, <2>2, <2>3, ScanTypes
  <2> QED
    BY <1>2, <2>4, ElsewhereStep DEF TimeoutRecheck, IInv, TypeOK, table
<1>3. CASE TimeoutFinish
  <2>1. tmo.sid \in Sid /\ tmo.todo \in SUBSET Collected
    BY DEF IInv, TypeOK, ScanRecord
  <2>2. tmo' \in ScanRecord
    BY <1>3, <2>1, ScanTypes DEF TimeoutFinish
  <2>3. CASE subs[tmo.sid] # NULL
    BY <1>3, <2>1, <2>2, <2>3, UnsubscribedStep DEF TimeoutFinish
  <2>4. CASE subs[tmo.sid] = NULL
    BY <1>3, <2>2, <2>4, ElsewhereStep DEF TimeoutFinish, IInv, TypeOK, table
  <2> QED
    BY <2>3, <2>4
<1> QED
  BY <1>1, <1>2, <1>3

LEMMA ConnectionStep ==
  ASSUME IInv, Connection
  PROVE  IInv'
<1>1. TypeOK' /\ UNCHANGED <<table, rx, depth>>
  BY DEF Connection, Disconnect, HandshakeDone, RestoreSubscriptions, Restorable,
     IInv, TypeOK, table
<1> QED
  BY <1>1, ElsewhereStep

-----------------------------------------------------------------------------
LEMMA NextIInv ==
  ASSUME IInv, ~TeardownInCallback, [Next]_vars
  PROVE  IInv'
<1>1. CASE Application
  <2>1. CASE Subscribe
    BY <2>1, SubInternalStep DEF Subscribe
  <2>2. CASE RequestWithTimeout
    BY <2>2, SubInternalStep DEF RequestWithTimeout
  <2>3. CASE \E sid \in Sid : Unsubscribe(sid)
    <3>1. tmo \in ScanRecord
      BY DEF IInv, TypeOK
    <3> QED
      BY <2>3, <3>1, UnsubscribedStep DEF Unsubscribe
  <2>4. CASE Drain
    BY <2>4, DrainStep
  <2>5. CASE Shutdown
    BY <2>5, ShutdownStep
  <2> QED
    BY <1>1, <2>1, <2>2, <2>3, <2>4, <2>5 DEF Application
<1>2. CASE Receiver
  <2>1. CASE \E sid \in Sid : RecvMsg(sid)
    BY <2>1, RecvMsgStep
  <2>2. CASE RecvAbort
    BY <2>2, PopStep DEF RecvAbort
  <2>3. CASE Acquire
    BY <2>3, AcquireStep
  <2>4. CASE Call
    BY <2>4, CallStep
  <2>5. CASE Return
    BY <2>5, ReturnStep
  <2> QED
    BY <1>2, <2>1, <2>2, <2>3, <2>4, <2>5 DEF Receiver
<1>3. CASE Timeouts
  BY <1>3, ExpireStep, TimeoutStep DEF Timeouts
<1>4. CASE Connection
  BY <1>4, ConnectionStep
<1>5. CASE UNCHANGED vars
  BY <1>5, ElsewhereStep DEF vars, table, IInv, TypeOK
<1> QED
  BY <1>1, <1>2, <1>3, <1>4, <1>5 DEF Next

\* The variables keep their types: in particular subs never outgrows
\* NATS_MAX_SUBSCRIPTIONS and no reference count drops below zero.
THEOREM TypeCorrect ==
  ASSUME ~TeardownInCallback
  PROVE  Spec => []TypeOK
<1>1. IInv => TypeOK
  BY DEF IInv
<1> QED
  BY <1>1, InitIInv, NextIInv, PTL DEF Spec

\* recv() never touches a deleted Sub: unsubscribe(), time-outs and nested
\* receives do not delete an object a callback is running on.
THEOREM NoUseAfterFreeAlways ==
  ASSUME ~TeardownInCallback
  PROVE  Spec => []NoUseAfterFree
<1>1. IInv => NoUseAfterFree
  BY DEF IInv
<1> QED
  BY <1>1, InitIInv, NextIInv, PTL DEF Spec

\* The reference count of a Sub is exact, whatever the nesting of recv().
THEOREM RefCountAlwaysExact ==
  ASSUME ~TeardownInCallback
  PROVE  Spec => []RefCountExact
<1>1. IInv => RefCountExact
  BY DEF IInv
<1> QED
  BY <1>1, InitIInv, NextIInv, PTL DEF Spec

\* free_sids never offers an id twice, nor one that is in use, and every
\* object is in exactly one slot.
THEOREM SidsAlwaysSound ==
  ASSUME ~TeardownInCallback
  PROVE  Spec => [](FreeSidsSound /\ EverySubInOneSlot)
<1>1. IInv => FreeSidsSound /\ EverySubInOneSlot
  BY DEF IInv
<1> QED
  BY <1>1, InitIInv, NextIInv, PTL DEF Spec

-----------------------------------------------------------------------------
(* What more is invariant: which ids are given out, what the server has,   *)
(* how often a callback runs, and which requests may still time out.       *)

HoldsSub(i) == rx[i].phase \in {"acquired", "callback"}

\* A slot of the array is taken, or its id waits in free_sids.
SlotsAccounted ==
  \A s \in 0 .. size - 1 :
    subs[s] # NULL \/ \E i \in DOMAIN free_sids : free_sids[i] = s

\* A request whose time-out is armed has not been answered, nor is it just now.
TimersFresh ==
  \A o \in Obj : heap[o].timer # "none" => heap[o].received = 0 /\ Holders(o) = {}

\* What is marked while its callback runs has been unsubscribed.
MarkedForgotten ==
  \A i \in Frame : HoldsSub(i) /\ heap[rx[i].obj].marked => rx[i].sid \notin srv

\* The last message that a limit allows marks the Sub, once its callback returns.
LastCallRuns(o) ==
  \E i \in Frame : rx[i].phase = "callback" /\ rx[i].obj = o /\ rx[i].will_max_out

LimitCounted ==
  /\ \A o \in Live :
       heap[o].max_wanted > 0 =>
         /\ heap[o].received <= heap[o].max_wanted
         /\ heap[o].received = heap[o].max_wanted => heap[o].marked \/ LastCallRuns(o)
  /\ \A i \in Frame :
       rx[i].phase = "acquired" /\ heap[rx[i].obj].max_wanted > 0 =>
         /\ heap[rx[i].obj].received < heap[rx[i].obj].max_wanted
         /\ heap[rx[i].obj].received + 1 >= heap[rx[i].obj].max_wanted => rx[i].will_max_out

\* Limits are those that the application passes, and only they end a Sub.
LimitsGiven ==
  /\ \A o \in Live : heap[o].max_wanted \in Limits
  /\ \A i \in Frame :
       HoldsSub(i) /\ rx[i].will_max_out => heap[rx[i].obj].max_wanted > 0

\* No callback that ends a subscription with a limit runs below another one.
OneCallPerSub == MaxDepth = 1 \/ Limits \subseteq {0}

MoreInv ==
  /\ TimersFresh
  /\ RestoredOnReconnect
  /\ ~UsesShutdown => SlotsAccounted
  /\ LimitsGiven
  /\ OneCallPerSub => MarkedForgotten /\ ServerKnowsOnlyTaken
  /\ MaxDepth = 1 => LimitCounted

\* What recv() holds is a Sub, in its slot.
LEMMA HeldFacts ==
  ASSUME IInv, NEW i \in Frame, HoldsSub(i)
  PROVE  /\ rx[i].obj \in Live /\ rx[i].obj \in Obj /\ rx[i].obj # NULL
         /\ rx[i].sid \in Sid /\ subs[rx[i].sid] = rx[i].obj /\ i \in Holders(rx[i].obj)
BY NullAssumption DEF IInv, NoUseAfterFree, HoldsSub, Live, TypeOK, FrameRecord, Holders

\* Steps that leave the table and the callbacks alone.
LEMMA QuietMore ==
  ASSUME IInv, MoreInv, UNCHANGED <<subs, size, free_sids, heap>>,
         \A i \in Frame : HoldsSub(i) \/ HoldsSub(i)' => rx'[i] = rx[i],
         srv' \subseteq srv \cup Restorable,
         conn' = "up" => (conn = "up" /\ srv' = srv) \/ Restorable \subseteq srv'
  PROVE  MoreInv'
<1> USE DEF MoreInv
<1>1. UNCHANGED <<subs, size, free_sids, heap>> /\ Live' = Live
  BY DEF Live
<1>2. \A i \in Frame : HoldsSub(i)' => HoldsSub(i) /\ rx'[i] = rx[i]
  BY DEF HoldsSub
<1>3. TimersFresh'
  BY <1>1, <1>2 DEF TimersFresh, Holders, HoldsSub
<1>4. RestoredOnReconnect'
  BY <1>1 DEF RestoredOnReconnect, Restorable
<1>5. ~UsesShutdown => SlotsAccounted'
  BY <1>1 DEF SlotsAccounted
<1>6. OneCallPerSub => MarkedForgotten' /\ ServerKnowsOnlyTaken'
  <2> SUFFICES ASSUME OneCallPerSub PROVE MarkedForgotten' /\ ServerKnowsOnlyTaken'
    OBVIOUS
  <2>1. ASSUME NEW i \in Frame, HoldsSub(i)', heap'[rx'[i].obj].marked
        PROVE  rx'[i].sid \notin srv'
    <3>1. HoldsSub(i) /\ rx'[i] = rx[i] /\ heap[rx[i].obj].marked
      BY <1>1, <1>2, <2>1
    <3>2. rx[i].sid \notin srv
      BY <3>1 DEF MarkedForgotten
    <3>3. subs[rx[i].sid] = rx[i].obj
      BY <3>1, HeldFacts
    <3>4. rx[i].sid \notin Restorable
      BY <3>1, <3>3 DEF Restorable
    <3> QED
      BY <3>1, <3>2, <3>4
  <2>2. ServerKnowsOnlyTaken'
    BY <1>1 DEF ServerKnowsOnlyTaken, Occupied, Restorable
  <2> QED
    BY <2>1, <2>2 DEF MarkedForgotten
<1>7. MaxDepth = 1 => LimitCounted'
  <2> SUFFICES ASSUME MaxDepth = 1 PROVE LimitCounted'
    OBVIOUS
  <2>1. ASSUME NEW o PROVE LastCallRuns(o) => LastCallRuns(o)'
    BY DEF LastCallRuns, HoldsSub
  <2>2. \A i \in Frame : rx'[i].phase = "acquired" => rx'[i] = rx[i]
    BY <1>2 DEF HoldsSub
  <2> QED
    BY <1>1, <2>1, <2>2 DEF LimitCounted
<1>8. LimitsGiven'
  BY <1>1, <1>2 DEF LimitsGiven
<1> QED
  BY <1>3, <1>4, <1>5, <1>6, <1>7, <1>8

LEMMA SubInternalMore ==
  ASSUME IInv, MoreInv, NEW o \in Obj, NEW max \in Limits, NEW stored \in BOOLEAN,
         NEW timed \in BOOLEAN, SubInternal(o, max, stored, timed)
  PROVE  MoreInv'
<1> USE DEF MoreInv
<1>1. /\ o \notin Live \cup Referenced /\ o # NULL
      /\ HasRoom
      /\ heap' = [heap EXCEPT ![o] = NewSub(max, stored, timed)]
      /\ UNCHANGED <<rx, depth, tmo, conn>>
  BY NullAssumption DEF SubInternal
<1>2. PICK sid \in Sid : /\ AllocSid(sid)
                         /\ subs' = [subs EXCEPT ![sid] = o]
                         /\ srv' = IF connected THEN srv \cup {sid} ELSE srv
  BY DEF SubInternal
<1>3. subs[sid] = NULL
  BY <1>1, <1>2, AllocSidStep
<1>4. /\ heap'[o] = NewSub(max, stored, timed)
      /\ \A p \in Obj \ {o} : heap'[p] = heap[p]
      /\ subs'[sid] = o /\ \A s \in Sid \ {sid} : subs'[s] = subs[s]
  BY <1>1, <1>2 DEF IInv, TypeOK
<1>5. /\ heap'[o].received = 0 /\ heap'[o].max_wanted = max /\ ~heap'[o].marked
      /\ heap'[o].alive
  BY <1>4 DEF NewSub
<1>6. Live' = Live \cup {o}
  BY <1>4, <1>5 DEF Live
<1>7. Holders(o) = {} /\ \A p : Holders(p)' = Holders(p)
  BY <1>1 DEF Holders, Referenced
<1>8. \A i \in Frame : HoldsSub(i)' <=> HoldsSub(i)
  BY <1>1 DEF HoldsSub
<1>9. \A i \in Frame : HoldsSub(i) =>
        rx[i].obj \in Obj \ {o} /\ rx[i].sid # sid /\ heap'[rx[i].obj] = heap[rx[i].obj]
  BY <1>1, <1>3, <1>4, HeldFacts
<1>10. \A s \in Sid \ {sid} : subs[s] # NULL => subs[s] \in Obj \ {o}
  BY <1>1 DEF IInv, SlotsLive, Live
<1>11. TimersFresh'
  BY <1>4, <1>5, <1>7 DEF TimersFresh
<1>12. RestoredOnReconnect'
  <2>1. ASSUME NEW s \in Restorable', s # sid PROVE s \in Restorable
    <3>1. s \in Sid \ {sid} /\ subs'[s] # NULL /\ ~heap'[subs'[s]].marked
          /\ heap'[subs'[s]].subject
      BY <2>1 DEF Restorable
    <3>2. subs'[s] = subs[s] /\ subs[s] \in Obj \ {o}
      BY <1>4, <1>10, <3>1
    <3> QED
      BY <1>4, <3>1, <3>2 DEF Restorable
  <2>2. conn = "up" => srv' = srv \cup {sid}
    BY <1>2 DEF connected
  <2> QED
    BY <1>1, <2>1, <2>2 DEF RestoredOnReconnect
<1>13. ~UsesShutdown => SlotsAccounted'
  <2> SUFFICES ASSUME SlotsAccounted, NEW s \in 0 .. size' - 1, s # sid
               PROVE  subs'[s] # NULL \/ \E i \in DOMAIN free_sids' : free_sids'[i] = s
    BY <1>1, <1>4 DEF SlotsAccounted
  <2>1. size \in 0 .. MaxSubs /\ free_sids \in Seq(Sid) /\ MaxSubs \in Nat
    BY SizesAssumption DEF IInv, TypeOK
  <2>2. CASE free_sids = << >>
    <3>1. sid = size /\ size' = size + 1
      BY <1>2, <2>2 DEF AllocSid
    <3>2. s \in 0 .. size - 1 /\ s \in Sid
      BY <2>1, <3>1 DEF Sid
    <3>3. subs[s] # NULL
      BY <2>2, <3>2 DEF SlotsAccounted
    <3> QED
      BY <1>4, <3>2, <3>3
  <2>3. CASE free_sids # << >>
    <3>1. sid = Head(free_sids) /\ free_sids' = Tail(free_sids) /\ size' = size
      BY <1>2, <2>3 DEF AllocSid
    <3>2. s \in 0 .. size - 1 /\ s \in Sid
      BY <2>1, <3>1 DEF Sid
    <3>3. CASE subs[s] # NULL
      BY <1>4, <3>2, <3>3
    <3>4. CASE \E i \in DOMAIN free_sids : free_sids[i] = s
      <4>1. PICK i \in DOMAIN free_sids : free_sids[i] = s
        BY <3>4
      <4>2. DOMAIN free_sids = 1 .. Len(free_sids) /\ Len(free_sids) \in Nat \ {0}
        BY <2>1, <2>3, LenProperties, EmptySeq
      <4>3. i # 1
        BY <2>1, <2>3, <3>1, <4>1
      <4>4. /\ Tail(free_sids) \in Seq(Sid)
            /\ Len(Tail(free_sids)) = Len(free_sids) - 1
            /\ \A j \in 1 .. Len(Tail(free_sids)) : Tail(free_sids)[j] = free_sids[j + 1]
        BY <2>1, <2>3, HeadTailProperties
      <4>5. i - 1 \in 1 .. Len(Tail(free_sids)) /\ (i - 1) + 1 = i
        BY <4>1, <4>2, <4>3, <4>4
      <4>6. Tail(free_sids)[i - 1] = s
        BY <4>1, <4>4, <4>5
      <4>7. DOMAIN Tail(free_sids) = 1 .. Len(Tail(free_sids))
        BY <4>4, LenProperties
      <4> QED
        BY <3>1, <4>5, <4>6, <4>7
    <3> QED
      BY <3>2, <3>3, <3>4 DEF SlotsAccounted
  <2> QED
    BY <2>2, <2>3
<1>14. OneCallPerSub => MarkedForgotten' /\ ServerKnowsOnlyTaken'
  <2> SUFFICES ASSUME OneCallPerSub PROVE MarkedForgotten' /\ ServerKnowsOnlyTaken'
    OBVIOUS
  <2>1. MarkedForgotten'
    BY <1>1, <1>2, <1>8, <1>9 DEF MarkedForgotten
  <2>2. srv' \subseteq srv \cup {sid}
    BY <1>2
  <2>3. ServerKnowsOnlyTaken'
    BY <1>1, <1>4, <2>2 DEF ServerKnowsOnlyTaken, Occupied
  <2> QED
    BY <2>1, <2>3
<1>15. MaxDepth = 1 => LimitCounted'
  <2> SUFFICES ASSUME MaxDepth = 1 PROVE LimitCounted'
    OBVIOUS
  <2>1. \A p : LastCallRuns(p)' <=> LastCallRuns(p)
    BY <1>1 DEF LastCallRuns
  <2>2. ASSUME NEW p \in Live', heap'[p].max_wanted > 0
        PROVE  /\ heap'[p].received <= heap'[p].max_wanted
               /\ heap'[p].received = heap'[p].max_wanted =>
                    heap'[p].marked \/ LastCallRuns(p)'
    <3>1. CASE p = o
      BY <1>5, <2>2, <3>1, LimitsAssumption
    <3>2. CASE p # o
      <4>1. p \in Live /\ heap'[p] = heap[p]
        BY <1>4, <1>6, <3>2 DEF Live
      <4> QED
        BY <2>1, <2>2, <4>1 DEF LimitCounted
    <3> QED
      BY <3>1, <3>2
  <2>3. \A i \in Frame : rx'[i] = rx[i] /\ (rx[i].phase = "acquired" => HoldsSub(i))
    BY <1>1 DEF HoldsSub
  <2> QED
    BY <1>9, <2>2, <2>3 DEF LimitCounted
<1>16. LimitsGiven'
  <2>1. \A p \in Live' : heap'[p].max_wanted \in Limits
    BY <1>4, <1>5, <1>6 DEF LimitsGiven, Live
  <2>2. \A i \in Frame :
          HoldsSub(i)' /\ rx'[i].will_max_out => heap'[rx'[i].obj].max_wanted > 0
    BY <1>1, <1>8, <1>9 DEF LimitsGiven
  <2> QED
    BY <2>1, <2>2 DEF LimitsGiven
<1> QED
  BY <1>11, <1>12, <1>13, <1>14, <1>15, <1>16

\* unsubscribe(), from the application and from process().
LEMMA UnsubscribedMore ==
  ASSUME IInv, MoreInv, NEW sid \in Sid, subs[sid] # NULL, Unsubscribed(sid),
         UNCHANGED <<rx, conn>>
  PROVE  MoreInv'
<1> USE DEF MoreInv
<1> DEFINE o == subs[sid]
<1>1. /\ o \in Live /\ o \in Obj /\ heap \in [Obj -> SubRecord]
      /\ subs \in [Sid -> Obj \cup {NULL}] /\ free_sids \in Seq(Sid)
      /\ srv' = srv \ {sid} /\ size' = size
  BY DEF IInv, SlotsLive, Live, TypeOK, Unsubscribed, SendUnsub
<1>2. \A p : Holders(p)' = Holders(p) /\ (LastCallRuns(p)' <=> LastCallRuns(p))
  BY DEF Holders, LastCallRuns
<1>3. \A i \in Frame : HoldsSub(i)' <=> HoldsSub(i)
  BY DEF HoldsSub
<1>4. \A i \in Frame : rx[i].phase = "acquired" => HoldsSub(i)
  BY DEF HoldsSub
<1>5. CASE NoCallbackRuns(o)
  <2>1. /\ heap' = [heap EXCEPT ![o] = Freed]
        /\ subs' = [subs EXCEPT ![sid] = NULL]
        /\ free_sids' = Append(free_sids, sid)
    BY <1>5 DEF Unsubscribed, FreeSlot
  <2>2. Holders(o) = {}
    BY <1>1, <1>5, IdleObject DEF NoCallbackRuns
  <2>3. /\ heap'[o] = Freed /\ \A p \in Obj \ {o} : heap'[p] = heap[p]
        /\ subs'[sid] = NULL /\ \A s \in Sid \ {sid} : subs'[s] = subs[s]
    BY <1>1, <2>1
  <2>4. Live' = Live \ {o}
    BY <1>1, <2>3 DEF Live, Freed
  <2>5. \A s \in Sid \ {sid} : subs[s] # NULL => subs[s] \in Obj \ {o}
    BY DEF IInv, SlotsLive, Live, EverySubInOneSlot
  <2>6. \A i \in Frame : HoldsSub(i) =>
          rx[i].obj \in Obj \ {o} /\ heap'[rx[i].obj] = heap[rx[i].obj]
    BY <2>2, <2>3, HeldFacts
  <2>7. TimersFresh'
    BY <1>2, <2>3 DEF TimersFresh, Freed
  <2>8. RestoredOnReconnect'
    <3>1. Restorable' \subseteq Restorable \ {sid}
      BY <2>3, <2>5 DEF Restorable
    <3> QED
      BY <1>1, <3>1 DEF RestoredOnReconnect
  <2>9. ~UsesShutdown => SlotsAccounted'
    <3> SUFFICES ASSUME SlotsAccounted PROVE SlotsAccounted'
      OBVIOUS
    <3>1. \A s \in 0 .. size - 1 : s \in Sid
      BY SizesAssumption DEF Sid, IInv, TypeOK
    <3>2. /\ Len(free_sids') = Len(free_sids) + 1 /\ Len(free_sids) \in Nat
          /\ free_sids'[Len(free_sids) + 1] = sid
          /\ \A i \in 1 .. Len(free_sids) : free_sids'[i] = free_sids[i]
          /\ DOMAIN free_sids = 1 .. Len(free_sids)
          /\ DOMAIN free_sids' = 1 .. Len(free_sids')
      BY <1>1, <2>1, AppendProperties, LenProperties
    <3>3. /\ \A i \in DOMAIN free_sids :
               i \in DOMAIN free_sids' /\ free_sids'[i] = free_sids[i]
          /\ \E i \in DOMAIN free_sids' : free_sids'[i] = sid
      BY <3>2
    <3> QED
      BY <1>1, <2>3, <3>1, <3>3 DEF SlotsAccounted
  <2>10. OneCallPerSub => MarkedForgotten' /\ ServerKnowsOnlyTaken'
    <3> SUFFICES ASSUME OneCallPerSub PROVE MarkedForgotten' /\ ServerKnowsOnlyTaken'
      OBVIOUS
    <3>1. MarkedForgotten'
      BY <1>1, <1>3, <2>6 DEF MarkedForgotten
    <3>2. ServerKnowsOnlyTaken'
      BY <1>1, <2>3 DEF ServerKnowsOnlyTaken, Occupied
    <3> QED
      BY <3>1, <3>2
  <2>11. MaxDepth = 1 => LimitCounted'
    <3> SUFFICES ASSUME MaxDepth = 1 PROVE LimitCounted'
      OBVIOUS
    <3>1. \A p \in Live' : p \in Live /\ heap'[p] = heap[p]
      BY <2>3, <2>4 DEF Live
    <3> QED
      BY <1>2, <1>4, <2>6, <3>1 DEF LimitCounted
  <2>12. LimitsGiven'
    <3>1. \A p \in Live' : p \in Live /\ heap'[p] = heap[p]
      BY <2>3, <2>4 DEF Live
    <3> QED
      BY <1>3, <2>6, <3>1 DEF LimitsGiven
  <2> QED
    BY <2>7, <2>8, <2>9, <2>10, <2>11, <2>12
<1>6. CASE ~NoCallbackRuns(o)
  <2>1. heap' = [heap EXCEPT ![o] = MarkForDeletion(@)] /\ UNCHANGED <<subs, free_sids>>
    BY <1>6 DEF Unsubscribed
  <2>2. /\ \A p \in Obj \ {o} : heap'[p] = heap[p]
        /\ heap'[o] = MarkForDeletion(heap[o]) /\ heap[o] \in SubRecord
    BY <1>1, <2>1
  <2>3. /\ heap'[o].marked
        /\ \A p \in Obj :
             /\ heap'[p].timer = heap[p].timer /\ heap'[p].received = heap[p].received
             /\ heap'[p].max_wanted = heap[p].max_wanted /\ heap'[p].alive = heap[p].alive
             /\ heap'[p].subject = heap[p].subject /\ (heap[p].marked => heap'[p].marked)
    BY <2>2 DEF MarkForDeletion, SubRecord
  <2>4. Live' = Live
    BY <2>3 DEF Live
  <2>5. TimersFresh'
    BY <1>2, <2>3 DEF TimersFresh
  <2>6. RestoredOnReconnect'
    <3>1. Restorable' \subseteq Restorable \ {sid}
      <4> SUFFICES ASSUME NEW s \in Restorable' PROVE s \in Restorable \ {sid}
        OBVIOUS
      <4>1. s \in Sid /\ subs[s] # NULL /\ ~heap'[subs[s]].marked /\ heap'[subs[s]].subject
        BY <2>1 DEF Restorable
      <4>2. subs[s] \in Obj
        BY <1>1, <4>1
      <4> QED
        BY <2>3, <4>1, <4>2 DEF Restorable
    <3> QED
      BY <1>1, <3>1 DEF RestoredOnReconnect
  <2>7. ~UsesShutdown => SlotsAccounted'
    BY <1>1, <2>1 DEF SlotsAccounted
  <2>8. OneCallPerSub => MarkedForgotten' /\ ServerKnowsOnlyTaken'
    <3> SUFFICES ASSUME OneCallPerSub PROVE MarkedForgotten' /\ ServerKnowsOnlyTaken'
      OBVIOUS
    <3>1. ASSUME NEW i \in Frame, HoldsSub(i), heap'[rx[i].obj].marked
          PROVE  rx[i].sid \notin srv'
      <4>1. rx[i].obj \in Obj /\ rx[i].sid \in Sid /\ subs[rx[i].sid] = rx[i].obj
            /\ rx[i].obj # NULL
        BY <3>1, HeldFacts
      <4>2. CASE rx[i].obj = o
        BY <1>1, <4>1, <4>2 DEF IInv, EverySubInOneSlot
      <4>3. CASE rx[i].obj # o
        BY <1>1, <2>2, <3>1, <4>1, <4>3 DEF MarkedForgotten
      <4> QED
        BY <4>2, <4>3
    <3>2. ServerKnowsOnlyTaken'
      BY <1>1, <2>1 DEF ServerKnowsOnlyTaken, Occupied
    <3> QED
      BY <1>3, <3>1, <3>2 DEF MarkedForgotten
  <2>9. MaxDepth = 1 => LimitCounted'
    <3> SUFFICES ASSUME MaxDepth = 1 PROVE LimitCounted'
      OBVIOUS
    <3>1. \A p \in Live' :
            heap'[p].max_wanted > 0 =>
              /\ heap'[p].received <= heap'[p].max_wanted
              /\ heap'[p].received = heap'[p].max_wanted =>
                   heap'[p].marked \/ LastCallRuns(p)'
      BY <1>2, <2>3, <2>4 DEF LimitCounted, Live
    <3>2. \A i \in Frame :
            rx[i].phase = "acquired" /\ heap'[rx[i].obj].max_wanted > 0 =>
              /\ heap'[rx[i].obj].received < heap'[rx[i].obj].max_wanted
              /\ heap'[rx[i].obj].received + 1 >= heap'[rx[i].obj].max_wanted =>
                   rx[i].will_max_out
      <4> SUFFICES ASSUME NEW i \in Frame, rx[i].phase = "acquired",
                          heap'[rx[i].obj].max_wanted > 0
                   PROVE  /\ heap'[rx[i].obj].received < heap'[rx[i].obj].max_wanted
                          /\ heap'[rx[i].obj].received + 1 >= heap'[rx[i].obj].max_wanted =>
                               rx[i].will_max_out
        OBVIOUS
      <4>1. rx[i].obj \in Obj
        BY <1>4, HeldFacts
      <4>2. /\ heap'[rx[i].obj].received = heap[rx[i].obj].received
            /\ heap'[rx[i].obj].max_wanted = heap[rx[i].obj].max_wanted
        BY <2>3, <4>1
      <4> QED
        BY <4>2 DEF LimitCounted
    <3> QED
      BY <3>1, <3>2 DEF LimitCounted
  <2>10. LimitsGiven'
    <3>1. \A p \in Live' : p \in Live /\ p \in Obj
      BY <2>4 DEF Live
    <3>2. \A i \in Frame : HoldsSub(i) => rx[i].obj \in Obj
      BY HeldFacts
    <3> QED
      BY <1>3, <2>3, <3>1, <3>2 DEF LimitsGiven
  <2> QED
    BY <2>5, <2>6, <2>7, <2>8, <2>9, <2>10
<1> QED
  BY <1>5, <1>6

\* The second look of recv() at the table.
LEMMA AcquireMore ==
  ASSUME IInv, MoreInv, Acquire
  PROVE  MoreInv'
<1> USE SizesAssumption, NullAssumption DEF MoreInv
<1> PICK d, sid, o : d = depth /\ sid = rx[d].sid /\ o = subs[sid]
  OBVIOUS
<1>1. /\ d \in Frame /\ rx \in [Frame -> FrameRecord]
      /\ rx[d].phase = "checked" /\ rx[d] \in FrameRecord /\ sid \in Sid
      /\ UNCHANGED <<subs, size, free_sids, conn, srv>>
      /\ heap \in [Obj -> SubRecord]
  BY DEF Acquire, IInv, TypeOK, Frame, FrameRecord
<1>2. CASE ~(o # NULL /\ ~heap[o].marked)
  <2>1. rx' = [rx EXCEPT ![d] = NoFrame] /\ UNCHANGED heap
    BY <1>2 DEF Acquire
  <2>2. /\ rx'[d].phase = "idle" /\ \A i \in Frame \ {d} : rx'[i] = rx[i]
    BY <1>1, <2>1 DEF NoFrame
  <2>3. \A i \in Frame : HoldsSub(i) \/ HoldsSub(i)' => rx'[i] = rx[i]
    BY <1>1, <2>2 DEF HoldsSub
  <2> QED
    BY <1>1, <2>1, <2>3, QuietMore
<1>3. CASE o # NULL /\ ~heap[o].marked
  <2> DEFINE n == ClearTimeout(AddRef(heap[o]))
             g == [rx[d] EXCEPT !.phase = "acquired", !.obj = o,
                                !.will_max_out = WillMaxOut(o)]
  <2>1. heap' = [heap EXCEPT ![o] = n] /\ rx' = [rx EXCEPT ![d] = g]
    BY <1>3 DEF Acquire
  <2>2. o \in Live /\ o \in Obj /\ heap[o] \in SubRecord
    BY <1>1, <1>3 DEF IInv, SlotsLive, Live
  <2>3. /\ n.timer = "none" /\ n.received = heap[o].received
        /\ n.max_wanted = heap[o].max_wanted /\ n.alive = heap[o].alive
        /\ n.subject = heap[o].subject /\ n.marked = heap[o].marked
    BY <2>2 DEF ClearTimeout, AddRef, SubRecord
  <2>4. /\ g.phase = "acquired" /\ g.obj = o /\ g.sid = sid
        /\ g.will_max_out = WillMaxOut(o)
    BY <1>1 DEF FrameRecord
  <2> HIDE DEF n, g
  <2>5. /\ heap'[o] = n /\ \A p \in Obj \ {o} : heap'[p] = heap[p]
        /\ rx'[d] = g /\ \A i \in Frame \ {d} : rx'[i] = rx[i]
    BY <1>1, <2>1, <2>2
  <2>6. /\ \A p \in Obj :
             /\ heap'[p].received = heap[p].received /\ heap'[p].marked = heap[p].marked
             /\ heap'[p].max_wanted = heap[p].max_wanted /\ heap'[p].alive = heap[p].alive
             /\ heap'[p].subject = heap[p].subject
        /\ \A p \in Obj : heap'[p].timer # "none" => p # o /\ heap[p].timer # "none"
    BY <2>3, <2>5
  <2>7. Live' = Live
    BY <2>6 DEF Live
  <2>8. \A i \in Frame \ {d} : HoldsSub(i)' <=> HoldsSub(i)
    BY <2>5 DEF HoldsSub
  <2>9. ~HoldsSub(d)
    BY <1>1 DEF HoldsSub
  <2>10. \A i \in Frame : HoldsSub(i) => i # d /\ rx[i].obj \in Obj
    BY <2>9, HeldFacts
  <2>11. \A p : p # o => Holders(p)' = Holders(p)
    <3> SUFFICES ASSUME NEW p, p # o, NEW i \in Frame
                 PROVE  (rx'[i].phase \in {"acquired", "callback"} /\ rx'[i].obj = p)
                        <=> (rx[i].phase \in {"acquired", "callback"} /\ rx[i].obj = p)
      BY DEF Holders
    <3>1. CASE i = d
      BY <1>1, <2>4, <2>5, <3>1
    <3>2. CASE i # d
      BY <2>5, <3>2
    <3> QED
      BY <3>1, <3>2
  <2>12. TimersFresh'
    BY <2>6, <2>11 DEF TimersFresh
  <2>13. RestoredOnReconnect'
    <3>1. Restorable' = Restorable
      <4>1. \A s \in Sid : subs[s] # NULL => subs[s] \in Obj
        BY DEF IInv, SlotsLive, Live
      <4> QED
        BY <1>1, <2>6, <4>1 DEF Restorable
    <3> QED
      BY <1>1, <3>1 DEF RestoredOnReconnect
  <2>14. ~UsesShutdown => SlotsAccounted'
    BY <1>1 DEF SlotsAccounted
  <2>15. OneCallPerSub => MarkedForgotten' /\ ServerKnowsOnlyTaken'
    <3> SUFFICES ASSUME OneCallPerSub PROVE MarkedForgotten' /\ ServerKnowsOnlyTaken'
      OBVIOUS
    <3>1. ASSUME NEW i \in Frame, HoldsSub(i)', heap'[rx'[i].obj].marked
          PROVE  rx'[i].sid \notin srv'
      <4>1. i # d
        BY <1>3, <2>2, <2>4, <2>5, <2>6, <3>1
      <4>2. HoldsSub(i) /\ rx'[i] = rx[i] /\ rx[i].obj \in Obj
        BY <2>5, <2>8, <2>10, <3>1, <4>1
      <4> QED
        BY <1>1, <2>6, <3>1, <4>2 DEF MarkedForgotten
    <3>2. ServerKnowsOnlyTaken'
      BY <1>1 DEF ServerKnowsOnlyTaken, Occupied
    <3> QED
      BY <3>1, <3>2 DEF MarkedForgotten
  <2>16. MaxDepth = 1 => LimitCounted'
    <3> SUFFICES ASSUME MaxDepth = 1 PROVE LimitCounted'
      OBVIOUS
    <3>1. Frame = {d}
      BY <1>1 DEF Frame
    <3>2. \A p : ~LastCallRuns(p)
      BY <1>1, <3>1 DEF LastCallRuns
    <3>3. \A p \in Live' :
            heap'[p].max_wanted > 0 =>
              /\ heap'[p].received <= heap'[p].max_wanted
              /\ heap'[p].received = heap'[p].max_wanted => heap'[p].marked
      BY <2>6, <2>7, <3>2 DEF LimitCounted, Live
    <3>4. heap[o].max_wanted > 0 =>
            heap[o].received < heap[o].max_wanted
            /\ (heap[o].received + 1 >= heap[o].max_wanted => WillMaxOut(o))
      BY <1>3, <2>2, <3>2 DEF LimitCounted, WillMaxOut, SubRecord
    <3>5. ASSUME NEW i \in Frame, rx'[i].phase = "acquired",
                 heap'[rx'[i].obj].max_wanted > 0
          PROVE  /\ heap'[rx'[i].obj].received < heap'[rx'[i].obj].max_wanted
                 /\ heap'[rx'[i].obj].received + 1 >= heap'[rx'[i].obj].max_wanted =>
                      rx'[i].will_max_out
      BY <2>2, <2>4, <2>5, <2>6, <3>1, <3>4, <3>5
    <3> QED
      BY <3>3, <3>5 DEF LimitCounted
  <2>17. LimitsGiven'
    <3>1. \A p \in Live' : heap'[p].max_wanted \in Limits
      BY <2>6, <2>7 DEF LimitsGiven, Live
    <3>2. WillMaxOut(o) => heap[o].max_wanted > 0
      BY DEF WillMaxOut
    <3>3. ASSUME NEW i \in Frame, HoldsSub(i)', rx'[i].will_max_out
          PROVE  heap'[rx'[i].obj].max_wanted > 0
      <4>1. CASE i = d
        BY <2>2, <2>4, <2>5, <2>6, <3>2, <3>3, <4>1
      <4>2. CASE i # d
        BY <2>5, <2>6, <2>8, <2>10, <3>3, <4>2 DEF LimitsGiven
      <4> QED
        BY <4>1, <4>2
    <3> QED
      BY <3>1, <3>3 DEF LimitsGiven
  <2> QED
    BY <2>12, <2>13, <2>14, <2>15, <2>16, <2>17
<1> QED
  BY <1>2, <1>3

\* Sub::call() counts the message.
LEMMA CallMore ==
  ASSUME IInv, MoreInv, Call
  PROVE  MoreInv'
<1> USE SizesAssumption, NullAssumption DEF MoreInv
<1> PICK d, o : d = depth /\ o = rx[d].obj
  OBVIOUS
<1>1. /\ d \in Frame /\ rx \in [Frame -> FrameRecord] /\ rx[d] \in FrameRecord
      /\ rx[d].phase = "acquired"
      /\ rx' = [rx EXCEPT ![d].phase = "callback"]
      /\ heap' = [heap EXCEPT ![o] = CountCall(@)]
      /\ UNCHANGED <<subs, size, free_sids, conn, srv>>
      /\ heap \in [Obj -> SubRecord]
  BY DEF Call, IInv, TypeOK, Frame
<1>2. HoldsSub(d)
  BY <1>1 DEF HoldsSub
<1>3. o \in Live /\ o \in Obj /\ d \in Holders(o) /\ heap[o] \in SubRecord
  BY <1>1, <1>2, HeldFacts
<1>4. /\ heap'[o] = CountCall(heap[o]) /\ \A p \in Obj \ {o} : heap'[p] = heap[p]
      /\ rx'[d] = [rx[d] EXCEPT !.phase = "callback"]
      /\ \A i \in Frame \ {d} : rx'[i] = rx[i]
  BY <1>1, <1>3
<1>5. /\ rx'[d].phase = "callback" /\ rx'[d].obj = o /\ rx'[d].sid = rx[d].sid
      /\ rx'[d].will_max_out = rx[d].will_max_out
  BY <1>1, <1>4 DEF FrameRecord
<1>6. \A i \in Frame : /\ rx'[i].obj = rx[i].obj /\ rx'[i].sid = rx[i].sid
                       /\ rx'[i].will_max_out = rx[i].will_max_out
  BY <1>4, <1>5
<1>7. \A p \in Obj :
        /\ heap'[p].timer = heap[p].timer /\ heap'[p].marked = heap[p].marked
        /\ heap'[p].max_wanted = heap[p].max_wanted /\ heap'[p].alive = heap[p].alive
        /\ heap'[p].subject = heap[p].subject
        /\ p # o => heap'[p].received = heap[p].received
  BY <1>3, <1>4 DEF CountCall, SubRecord
<1>8. Live' = Live
  BY <1>7 DEF Live
<1>9. \A i \in Frame : HoldsSub(i)' <=> HoldsSub(i)
  BY <1>1, <1>4, <1>5 DEF HoldsSub
<1>10. \A p : Holders(p)' = Holders(p)
  BY <1>6, <1>9 DEF Holders, HoldsSub
<1>11. \A i \in Frame : HoldsSub(i) => rx[i].obj \in Obj
  BY HeldFacts
<1>12. TimersFresh'
  BY <1>3, <1>7, <1>10 DEF TimersFresh
<1>13. RestoredOnReconnect'
  <2>1. Restorable' = Restorable
    <3>1. \A s \in Sid : subs[s] # NULL => subs[s] \in Obj
      BY DEF IInv, SlotsLive, Live
    <3> QED
      BY <1>1, <1>7, <3>1 DEF Restorable
  <2> QED
    BY <1>1, <2>1 DEF RestoredOnReconnect
<1>14. ~UsesShutdown => SlotsAccounted'
  BY <1>1 DEF SlotsAccounted
<1>15. OneCallPerSub => MarkedForgotten' /\ ServerKnowsOnlyTaken'
  <2>1. MarkedForgotten => MarkedForgotten'
    BY <1>1, <1>6, <1>7, <1>9, <1>11 DEF MarkedForgotten
  <2>2. ServerKnowsOnlyTaken => ServerKnowsOnlyTaken'
    BY <1>1 DEF ServerKnowsOnlyTaken, Occupied
  <2> QED
    BY <2>1, <2>2
<1>16. MaxDepth = 1 => LimitCounted'
  <2> SUFFICES ASSUME MaxDepth = 1 PROVE LimitCounted'
    OBVIOUS
  <2>1. \A p : LastCallRuns(p) => LastCallRuns(p)'
    BY <1>1, <1>4 DEF LastCallRuns
  <2>2. ASSUME NEW p \in Live', heap'[p].max_wanted > 0
        PROVE  /\ heap'[p].received <= heap'[p].max_wanted
               /\ heap'[p].received = heap'[p].max_wanted =>
                    heap'[p].marked \/ LastCallRuns(p)'
    <3>1. CASE p # o
      BY <1>7, <1>8, <2>1, <2>2, <3>1 DEF LimitCounted, Live
    <3>2. CASE p = o
      <4>1. heap[o].max_wanted > 0 /\ heap'[o].max_wanted = heap[o].max_wanted
        BY <1>3, <1>7, <2>2, <3>2
      <4>2. heap'[o].received = heap[o].received + 1
        BY <1>3, <1>4, <4>1 DEF CountCall, SubRecord
      <4>3. /\ heap[o].received < heap[o].max_wanted
            /\ heap[o].received + 1 >= heap[o].max_wanted => rx[d].will_max_out
        BY <1>1, <4>1 DEF LimitCounted
      <4>4. rx[d].will_max_out => LastCallRuns(o)'
        BY <1>1, <1>5 DEF LastCallRuns
      <4>5. heap[o].received \in Nat /\ heap[o].max_wanted \in Nat
        BY <1>3 DEF SubRecord
      <4> QED
        BY <3>2, <4>1, <4>2, <4>3, <4>4, <4>5
    <3> QED
      BY <3>1, <3>2
  <2>3. \A i \in Frame : rx'[i].phase # "acquired"
    BY <1>1, <1>5 DEF Frame
  <2> QED
    BY <2>2, <2>3 DEF LimitCounted
<1>17. LimitsGiven'
  <2>1. \A p \in Live' : heap'[p].max_wanted \in Limits
    BY <1>7, <1>8 DEF LimitsGiven, Live
  <2>2. \A i \in Frame :
          HoldsSub(i)' /\ rx'[i].will_max_out => heap'[rx'[i].obj].max_wanted > 0
    BY <1>6, <1>7, <1>9, <1>11 DEF LimitsGiven
  <2> QED
    BY <2>1, <2>2 DEF LimitsGiven
<1> QED
  BY <1>12, <1>13, <1>14, <1>15, <1>16, <1>17

\* The callback has returned: the last invocation on a marked Sub deletes it.
LEMMA ReturnMore ==
  ASSUME IInv, MoreInv, Return
  PROVE  MoreInv'
<1> USE SizesAssumption, NullAssumption DEF MoreInv
<1> PICK d, f, o : d = depth /\ f = rx[depth] /\ o = f.obj
  OBVIOUS
<1>1. /\ d \in Frame /\ rx \in [Frame -> FrameRecord] /\ f \in FrameRecord
      /\ rx[d] = f /\ f.phase = "callback" /\ f.obj = o /\ f.sid \in Sid
      /\ rx' = [rx EXCEPT ![d] = NoFrame]
      /\ UNCHANGED <<size, conn, srv>>
      /\ heap \in [Obj -> SubRecord]
      /\ subs \in [Sid -> Obj \cup {NULL}] /\ free_sids \in Seq(Sid)
  BY DEF Return, IInv, TypeOK, Frame, FrameRecord
<1>2. HoldsSub(d)
  BY <1>1 DEF HoldsSub
<1>3. /\ o \in Live /\ o \in Obj /\ o # NULL /\ subs[f.sid] = o
      /\ d \in Holders(o) /\ heap[o] \in SubRecord /\ heap[o].alive
  BY <1>1, <1>2, HeldFacts DEF Live
<1>4. /\ rx'[d].phase = "idle" /\ \A i \in Frame \ {d} : rx'[i] = rx[i]
  BY <1>1 DEF NoFrame
<1>5. /\ ~HoldsSub(d)' /\ \A i \in Frame \ {d} : HoldsSub(i)' <=> HoldsSub(i)
  BY <1>4 DEF HoldsSub
<1>6. Holders(o)' = Holders(o) \ {d} /\ \A p : p # o => Holders(p)' = Holders(p)
  BY <1>1, <1>4 DEF Holders
<1>7. heap[o].ref_count >= 2 /\ heap[o].ref_count \in Nat
  BY <1>3, HeldObject DEF SubRecord
<1>8. PICK reclaim \in Reclaims(o) :
        IF reclaim
          THEN FreeSlot(f.sid) /\ heap' = [heap EXCEPT ![o] = Freed]
          ELSE /\ heap' = [heap EXCEPT ![o] =
                            IF f.will_max_out THEN MarkForDeletion(Release(@))
                                              ELSE Release(@)]
               /\ UNCHANGED <<subs, free_sids>>
  BY <1>3 DEF Return
<1>9. reclaim <=> heap[o].ref_count <= 1 \/ (heap[o].marked /\ heap[o].ref_count <= 2)
  BY <1>3 DEF Reclaims
<1>10. \A p : p # o /\ LastCallRuns(p) => LastCallRuns(p)'
  BY <1>1, <1>4 DEF LastCallRuns
<1>11. CASE reclaim
  <2>1. /\ heap' = [heap EXCEPT ![o] = Freed]
        /\ subs' = [subs EXCEPT ![f.sid] = NULL]
        /\ free_sids' = Append(free_sids, f.sid)
    BY <1>8, <1>11 DEF FreeSlot
  <2>2. heap[o].marked /\ heap[o].ref_count <= 2
    BY <1>7, <1>9, <1>11
  <2>3. Holders(o) = {d}
    BY <1>3, <2>2, LastHolder
  <2>4. /\ heap'[o] = Freed /\ \A p \in Obj \ {o} : heap'[p] = heap[p]
        /\ subs'[f.sid] = NULL /\ \A s \in Sid \ {f.sid} : subs'[s] = subs[s]
    BY <1>1, <1>3, <2>1
  <2>5. Live' = Live \ {o}
    BY <1>3, <2>4 DEF Live, Freed
  <2>6. \A p \in Live' : p \in Live /\ p # o /\ heap'[p] = heap[p]
    BY <2>4, <2>5 DEF Live
  <2>7. \A s \in Sid \ {f.sid} : subs[s] # NULL => subs[s] \in Obj \ {o}
    BY <1>1, <1>3 DEF IInv, SlotsLive, Live, EverySubInOneSlot
  <2>8. \A i \in Frame : HoldsSub(i)' =>
          /\ HoldsSub(i) /\ rx'[i] = rx[i]
          /\ rx[i].obj \in Obj \ {o} /\ heap'[rx[i].obj] = heap[rx[i].obj]
    <3> SUFFICES ASSUME NEW i \in Frame, HoldsSub(i)'
                 PROVE  /\ HoldsSub(i) /\ rx'[i] = rx[i]
                        /\ rx[i].obj \in Obj \ {o} /\ heap'[rx[i].obj] = heap[rx[i].obj]
      OBVIOUS
    <3>1. i # d /\ HoldsSub(i) /\ rx'[i] = rx[i]
      BY <1>4, <1>5
    <3>2. rx[i].obj \in Obj /\ i \in Holders(rx[i].obj)
      BY <3>1, HeldFacts
    <3>3. rx[i].obj # o
      BY <2>3, <3>1, <3>2
    <3> QED
      BY <2>4, <3>1, <3>2, <3>3
  <2>9. TimersFresh'
    BY <1>6, <2>4 DEF TimersFresh, Freed
  <2>10. RestoredOnReconnect'
    <3>1. Restorable' \subseteq Restorable
      BY <2>4, <2>7 DEF Restorable
    <3> QED
      BY <1>1, <3>1 DEF RestoredOnReconnect
  <2>11. ~UsesShutdown => SlotsAccounted'
    <3> SUFFICES ASSUME SlotsAccounted PROVE SlotsAccounted'
      OBVIOUS
    <3>1. \A s \in 0 .. size - 1 : s \in Sid
      BY DEF Sid, IInv, TypeOK
    <3>2. /\ Len(free_sids') = Len(free_sids) + 1 /\ Len(free_sids) \in Nat
          /\ free_sids'[Len(free_sids) + 1] = f.sid
          /\ \A i \in 1 .. Len(free_sids) : free_sids'[i] = free_sids[i]
          /\ DOMAIN free_sids = 1 .. Len(free_sids)
          /\ DOMAIN free_sids' = 1 .. Len(free_sids')
      BY <1>1, <2>1, AppendProperties, LenProperties
    <3>3. /\ \A i \in DOMAIN free_sids :
               i \in DOMAIN free_sids' /\ free_sids'[i] = free_sids[i]
          /\ \E i \in DOMAIN free_sids' : free_sids'[i] = f.sid
      BY <3>2
    <3> QED
      BY <1>1, <2>4, <3>1, <3>3 DEF SlotsAccounted
  <2>12. OneCallPerSub => MarkedForgotten' /\ ServerKnowsOnlyTaken'
    <3> SUFFICES ASSUME OneCallPerSub PROVE MarkedForgotten' /\ ServerKnowsOnlyTaken'
      OBVIOUS
    <3>1. MarkedForgotten'
      BY <1>1, <2>8 DEF MarkedForgotten
    <3>2. f.sid \notin srv
      BY <1>1, <1>2, <2>2 DEF MarkedForgotten
    <3>3. ServerKnowsOnlyTaken'
      BY <1>1, <2>4, <3>2 DEF ServerKnowsOnlyTaken, Occupied
    <3> QED
      BY <3>1, <3>3
  <2>13. MaxDepth = 1 => LimitCounted'
    <3> SUFFICES ASSUME MaxDepth = 1 PROVE LimitCounted'
      OBVIOUS
    <3>1. \A i \in Frame : rx'[i].phase = "acquired" =>
            rx'[i] = rx[i] /\ heap'[rx[i].obj] = heap[rx[i].obj]
      BY <2>8 DEF HoldsSub
    <3> QED
      BY <1>10, <2>6, <3>1 DEF LimitCounted
  <2>14. LimitsGiven'
    BY <2>6, <2>8 DEF LimitsGiven
  <2> QED
    BY <2>9, <2>10, <2>11, <2>12, <2>13, <2>14
<1>12. CASE ~reclaim
  <2> DEFINE n == IF f.will_max_out THEN MarkForDeletion(Release(heap[o]))
                                    ELSE Release(heap[o])
  <2>1. heap' = [heap EXCEPT ![o] = n] /\ UNCHANGED <<subs, free_sids>>
    BY <1>3, <1>8, <1>12
  <2>2. /\ n.timer = heap[o].timer /\ n.received = heap[o].received
        /\ n.max_wanted = heap[o].max_wanted /\ n.alive = heap[o].alive
        /\ n.subject = heap[o].subject
        /\ n.marked <=> heap[o].marked \/ f.will_max_out
    BY <1>1, <1>3 DEF MarkForDeletion, Release, SubRecord, FrameRecord
  <2> HIDE DEF n
  <2>3. heap'[o] = n /\ \A p \in Obj \ {o} : heap'[p] = heap[p]
    BY <1>1, <1>3, <2>1
  <2>4. \A p \in Obj :
          /\ heap'[p].timer = heap[p].timer /\ heap'[p].received = heap[p].received
          /\ heap'[p].max_wanted = heap[p].max_wanted /\ heap'[p].alive = heap[p].alive
          /\ heap'[p].subject = heap[p].subject
          /\ heap'[p].marked <=> heap[p].marked \/ (p = o /\ f.will_max_out)
    BY <2>2, <2>3
  <2>5. Live' = Live
    BY <2>4 DEF Live
  <2>6. \A i \in Frame : HoldsSub(i)' =>
          i # d /\ HoldsSub(i) /\ rx'[i] = rx[i] /\ rx[i].obj \in Obj
    BY <1>4, <1>5, HeldFacts
  <2>7. TimersFresh'
    BY <1>6, <2>4 DEF TimersFresh
  <2>8. RestoredOnReconnect'
    <3>1. Restorable' \subseteq Restorable
      <4>1. \A s \in Sid : subs[s] # NULL => subs[s] \in Obj
        BY DEF IInv, SlotsLive, Live
      <4> QED
        BY <2>1, <2>4, <4>1 DEF Restorable
    <3> QED
      BY <1>1, <3>1 DEF RestoredOnReconnect
  <2>9. ~UsesShutdown => SlotsAccounted'
    BY <1>1, <2>1 DEF SlotsAccounted
  <2>10. OneCallPerSub => MarkedForgotten' /\ ServerKnowsOnlyTaken'
    <3> SUFFICES ASSUME OneCallPerSub PROVE MarkedForgotten' /\ ServerKnowsOnlyTaken'
      OBVIOUS
    <3>1. ASSUME NEW i \in Frame, HoldsSub(i)', heap'[rx'[i].obj].marked
          PROVE  rx'[i].sid \notin srv'
      <4>1. i # d /\ HoldsSub(i) /\ rx'[i] = rx[i] /\ rx[i].obj \in Obj
        BY <2>6, <3>1
      <4>2. ~f.will_max_out
        <5>1. CASE MaxDepth = 1
          BY <1>1, <4>1, <5>1 DEF Frame
        <5>2. CASE Limits \subseteq {0}
          <6>1. heap[o].max_wanted = 0
            BY <1>3, <5>2 DEF LimitsGiven
          <6> QED
            BY <1>1, <1>2, <6>1 DEF LimitsGiven
        <5> QED
          BY <5>1, <5>2 DEF OneCallPerSub
      <4> QED
        BY <1>1, <2>4, <3>1, <4>1, <4>2 DEF MarkedForgotten
    <3>2. ServerKnowsOnlyTaken'
      BY <1>1, <2>1 DEF ServerKnowsOnlyTaken, Occupied
    <3> QED
      BY <3>1, <3>2 DEF MarkedForgotten
  <2>11. MaxDepth = 1 => LimitCounted'
    <3> SUFFICES ASSUME MaxDepth = 1 PROVE LimitCounted'
      OBVIOUS
    <3>1. Frame = {d}
      BY <1>1 DEF Frame
    <3>2. LastCallRuns(o) => f.will_max_out
      BY <1>1, <3>1 DEF LastCallRuns
    <3>3. ASSUME NEW p \in Live', heap'[p].max_wanted > 0
          PROVE  /\ heap'[p].received <= heap'[p].max_wanted
                 /\ heap'[p].received = heap'[p].max_wanted =>
                      heap'[p].marked \/ LastCallRuns(p)'
      <4>1. p \in Live /\ p \in Obj
        BY <2>5, <3>3 DEF Live
      <4> QED
        BY <1>10, <2>4, <3>2, <3>3, <4>1 DEF LimitCounted
    <3>4. \A i \in Frame : rx'[i].phase # "acquired"
      BY <1>4, <3>1
    <3> QED
      BY <3>3, <3>4 DEF LimitCounted
  <2>12. LimitsGiven'
    BY <2>4, <2>5, <2>6 DEF LimitsGiven, Live
  <2> QED
    BY <2>7, <2>8, <2>9, <2>10, <2>11, <2>12
<1> QED
  BY <1>11, <1>12

\* The time-out of a request passes.
LEMMA ExpireMore ==
  ASSUME IInv, MoreInv, NEW o \in Obj, Expire(o)
  PROVE  MoreInv'
<1> USE DEF MoreInv
<1>1. /\ heap[o].timer = "armed" /\ heap' = [heap EXCEPT ![o].timer = "expired"]
      /\ UNCHANGED <<subs, size, free_sids, rx, depth, tmo, conn, srv>>
      /\ heap \in [Obj -> SubRecord] /\ heap[o] \in SubRecord
  BY DEF Expire, IInv, TypeOK
<1>2. \A p \in Obj :
        /\ heap'[p].received = heap[p].received /\ heap'[p].marked = heap[p].marked
        /\ heap'[p].max_wanted = heap[p].max_wanted /\ heap'[p].alive = heap[p].alive
        /\ heap'[p].subject = heap[p].subject
        /\ heap'[p].timer # "none" => heap[p].timer # "none"
  BY <1>1 DEF SubRecord
<1>3. Live' = Live
  BY <1>2 DEF Live
<1>4. \A i \in Frame :
        /\ HoldsSub(i)' <=> HoldsSub(i)
        /\ HoldsSub(i) => rx[i].obj \in Obj
        /\ rx[i].phase = "acquired" => HoldsSub(i)
  BY <1>1, HeldFacts DEF HoldsSub
<1>5. \A p : Holders(p)' = Holders(p) /\ (LastCallRuns(p)' <=> LastCallRuns(p))
  BY <1>1 DEF Holders, LastCallRuns
<1>6. TimersFresh'
  BY <1>2, <1>5 DEF TimersFresh
<1>7. RestoredOnReconnect'
  <2>1. \A s \in Sid : subs[s] # NULL => subs[s] \in Obj
    BY DEF IInv, SlotsLive, Live
  <2>2. Restorable' = Restorable
    BY <1>1, <1>2, <2>1 DEF Restorable
  <2> QED
    BY <1>1, <2>2 DEF RestoredOnReconnect
<1>8. ~UsesShutdown => SlotsAccounted'
  BY <1>1 DEF SlotsAccounted
<1>9. OneCallPerSub => MarkedForgotten' /\ ServerKnowsOnlyTaken'
  BY <1>1, <1>2, <1>4 DEF MarkedForgotten, ServerKnowsOnlyTaken, Occupied
<1>10. MaxDepth = 1 => LimitCounted'
  <2> SUFFICES ASSUME MaxDepth = 1 PROVE LimitCounted'
    OBVIOUS
  <2>1. \A p \in Live' :
          heap'[p].max_wanted > 0 =>
            /\ heap'[p].received <= heap'[p].max_wanted
            /\ heap'[p].received = heap'[p].max_wanted =>
                 heap'[p].marked \/ LastCallRuns(p)'
    BY <1>2, <1>3, <1>5 DEF LimitCounted, Live
  <2>2. ASSUME NEW i \in Frame, rx[i].phase = "acquired"
        PROVE  /\ heap'[rx[i].obj].received = heap[rx[i].obj].received
               /\ heap'[rx[i].obj].max_wanted = heap[rx[i].obj].max_wanted
    BY <1>2, <1>4, <2>2
  <2> QED
    BY <1>1, <2>1, <2>2 DEF LimitCounted
<1>11. LimitsGiven'
  BY <1>1, <1>2, <1>3, <1>4 DEF LimitsGiven, Live
<1> QED
  BY <1>6, <1>7, <1>8, <1>9, <1>10, <1>11

\* Deleting everything while no callback runs.
LEMMA DeleteAllMore ==
  ASSUME IInv, MoreInv, \A o \in Obj : Holders(o) = {}, DeleteAll,
         UNCHANGED <<size, rx>>, srv' \subseteq srv \ Occupied,
         ~UsesShutdown => SlotsAccounted'
  PROVE  MoreInv'
<1> USE NullAssumption DEF MoreInv
<1>1. /\ subs' = [sid \in Sid |-> NULL]
      /\ heap' = [o \in Obj |->
                    IF \E sid \in Sid : subs[sid] = o THEN Freed ELSE heap[o]]
  BY DEF DeleteAll
<1>2. Live' = {}
  BY <1>1 DEF Live, IInv, EverySubInOneSlot, Freed
<1>3. \A i \in Frame : ~HoldsSub(i)
  BY HeldFacts
<1>4. \A i \in Frame : ~HoldsSub(i)' /\ rx'[i].phase # "acquired"
  BY <1>3 DEF HoldsSub
<1>5. TimersFresh'
  <2>1. \A o \in Obj : heap'[o] = Freed \/ heap'[o] = heap[o]
    BY <1>1
  <2>2. \A o : Holders(o)' = Holders(o)
    BY DEF Holders
  <2> QED
    BY <2>1, <2>2 DEF TimersFresh, Freed
<1>6. RestoredOnReconnect'
  BY <1>1 DEF RestoredOnReconnect, Restorable
<1>7. MarkedForgotten'
  BY <1>4 DEF MarkedForgotten
<1>8. OneCallPerSub => ServerKnowsOnlyTaken'
  BY DEF ServerKnowsOnlyTaken
<1>9. LimitCounted' /\ LimitsGiven'
  BY <1>2, <1>4 DEF LimitCounted, LimitsGiven
<1> QED
  BY <1>5, <1>6, <1>7, <1>8, <1>9

\* drain() gives the id of every slot it empties back.
LEMMA DrainMore ==
  ASSUME IInv, MoreInv, ~TeardownInCallback, Drain
  PROVE  MoreInv'
<1>1. /\ \A o \in Obj : Holders(o) = {}
      /\ DeleteAll /\ UNCHANGED <<size, rx>>
      /\ srv' = srv \ Occupied
  BY DEF Drain, Quiet
<1>2. PICK q \in [1 .. Cardinality(Occupied) -> Occupied] :
        /\ Ascending(q, Occupied)
        /\ free_sids' = free_sids \o q
  BY DEF Drain
<1>3. Cardinality(Occupied) \in Nat
  <2>1. IsFiniteSet(Sid) /\ Occupied \in SUBSET Sid
    BY FS_Interval, SizesAssumption DEF Sid, Occupied
  <2> QED
    BY <2>1, FS_Subset, FS_CardinalityType
<1>4. q \in Seq(Sid) /\ free_sids \in Seq(Sid)
  <2>1. Occupied \subseteq Sid
    BY DEF Occupied
  <2>2. q \in Seq(Sid)
    BY <1>2, <1>3, <2>1
  <2> QED
    BY <2>2 DEF IInv, TypeOK
<1>5. /\ Len(free_sids') = Len(free_sids) + Len(q)
      /\ \A i \in 1 .. Len(free_sids) + Len(q) :
           free_sids'[i] = IF i <= Len(free_sids) THEN free_sids[i]
                                                  ELSE q[i - Len(free_sids)]
      /\ free_sids' \in Seq(Sid)
  BY <1>2, <1>4, ConcatProperties
<1>6. /\ Len(free_sids) \in Nat /\ Len(q) \in Nat
      /\ DOMAIN free_sids = 1 .. Len(free_sids) /\ DOMAIN q = 1 .. Len(q)
      /\ DOMAIN free_sids' = 1 .. Len(free_sids) + Len(q)
  BY <1>4, <1>5, LenProperties
<1>7. \A i \in DOMAIN free_sids : i \in DOMAIN free_sids' /\ free_sids'[i] = free_sids[i]
  BY <1>5, <1>6
<1>8. ASSUME NEW s \in Occupied
      PROVE  \E i \in DOMAIN free_sids' : free_sids'[i] = s
  <2>1. PICK k \in DOMAIN q : q[k] = s
    BY <1>2 DEF Ascending
  <2>2. k + Len(free_sids) \in DOMAIN free_sids'
    BY <1>6, <2>1
  <2>3. free_sids'[k + Len(free_sids)] = q[k]
    BY <1>5, <1>6, <2>1
  <2> QED
    BY <2>1, <2>2, <2>3
<1>9. ~UsesShutdown => SlotsAccounted'
  <2> SUFFICES ASSUME SlotsAccounted, NEW s \in 0 .. size - 1
               PROVE  \E i \in DOMAIN free_sids' : free_sids'[i] = s
    BY <1>1 DEF SlotsAccounted, MoreInv
  <2>1. s \in Sid
    BY SizesAssumption DEF Sid, IInv, TypeOK
  <2>2. CASE subs[s] # NULL
    BY <1>8, <2>1, <2>2 DEF Occupied
  <2>3. CASE subs[s] = NULL
    BY <1>7, <2>3 DEF SlotsAccounted
  <2> QED
    BY <2>2, <2>3
<1> QED
  BY <1>1, <1>9, DeleteAllMore

LEMMA InitMore == Init => MoreInv
<1> SUFFICES ASSUME Init PROVE MoreInv
  OBVIOUS
<1>1. \A i \in Frame : ~HoldsSub(i) /\ rx[i].phase # "acquired"
  BY DEF Init, NoFrame, HoldsSub
<1>2. Live = {}
  BY DEF Init, Live, Freed
<1>3. TimersFresh /\ SlotsAccounted
  BY DEF Init, TimersFresh, SlotsAccounted, Freed
<1> QED
  BY <1>1, <1>2, <1>3 DEF MoreInv, Init, RestoredOnReconnect, MarkedForgotten,
     ServerKnowsOnlyTaken, LimitCounted, LimitsGiven

LEMMA NextMore ==
  ASSUME IInv, MoreInv, ~TeardownInCallback, [Next]_vars
  PROVE  MoreInv'
<1>1. CASE Application
  <2>1. CASE Subscribe
    BY <2>1, SubInternalMore DEF Subscribe
  <2>2. CASE RequestWithTimeout
    BY <2>2, SubInternalMore DEF RequestWithTimeout
  <2>3. CASE \E sid \in Sid : Unsubscribe(sid)
    BY <2>3, UnsubscribedMore DEF Unsubscribe
  <2>4. CASE Drain
    BY <2>4, DrainMore
  <2>5. CASE Shutdown
    BY <2>5, DeleteAllMore DEF Shutdown, Quiet
  <2> QED
    BY <1>1, <2>1, <2>2, <2>3, <2>4, <2>5 DEF Application
<1>2. CASE Receiver
  <2>1. ASSUME NEW sid \in Sid, RecvMsg(sid) PROVE MoreInv'
    <3>1. /\ depth + 1 \in Frame /\ rx \in [Frame -> FrameRecord]
          /\ rx' = [rx EXCEPT ![depth + 1] = [NoFrame EXCEPT !.phase = "checked",
                                                             !.sid = sid]]
          /\ UNCHANGED <<table, tmo, conn, srv>>
      BY <2>1, SizesAssumption DEF RecvMsg, IInv, TypeOK, Frame
    <3>2. rx[depth + 1].phase = "idle"
      BY <3>1 DEF IInv, FramesAbove, TypeOK, Frame
    <3>3. \A i \in Frame : HoldsSub(i) \/ HoldsSub(i)' => rx'[i] = rx[i]
      BY <3>1, <3>2 DEF HoldsSub, NoFrame
    <3> QED
      BY <3>1, <3>3, QuietMore DEF table
  <2>2. CASE RecvAbort
    <3>1. /\ depth \in Frame /\ rx \in [Frame -> FrameRecord]
          /\ rx[depth].phase = "checked" /\ rx' = [rx EXCEPT ![depth] = NoFrame]
          /\ UNCHANGED <<table, tmo, conn, srv>>
      BY <2>2, SizesAssumption DEF RecvAbort, IInv, TypeOK, Frame
    <3>2. \A i \in Frame : HoldsSub(i) \/ HoldsSub(i)' => rx'[i] = rx[i]
      BY <3>1 DEF HoldsSub, NoFrame
    <3> QED
      BY <3>1, <3>2, QuietMore DEF table
  <2>3. CASE Acquire
    BY <2>3, AcquireMore
  <2>4. CASE Call
    BY <2>4, CallMore
  <2>5. CASE Return
    BY <2>5, ReturnMore
  <2> QED
    BY <1>2, <2>1, <2>2, <2>3, <2>4, <2>5 DEF Receiver
<1>3. CASE Timeouts
  <2>1. CASE \E o \in Obj : Expire(o)
    BY <2>1, ExpireMore
  <2>2. CASE TimeoutCollect \/ TimeoutRecheck
    <3>1. UNCHANGED <<subs, size, free_sids, heap, rx, conn, srv>>
      BY <2>2 DEF TimeoutCollect, TimeoutRecheck, table
    <3> QED
      BY <3>1, QuietMore
  <2>3. CASE TimeoutFinish
    <3>1. tmo.sid \in Sid
      BY DEF IInv, TypeOK, ScanRecord
    <3>2. CASE subs[tmo.sid] # NULL
      BY <2>3, <3>1, <3>2, UnsubscribedMore DEF TimeoutFinish
    <3>3. CASE subs[tmo.sid] = NULL
      <4>1. UNCHANGED <<subs, size, free_sids, heap, rx, conn, srv>>
        BY <2>3, <3>3 DEF TimeoutFinish, table
      <4> QED
        BY <4>1, QuietMore
    <3> QED
      BY <3>2, <3>3
  <2> QED
    BY <1>3, <2>1, <2>2, <2>3 DEF Timeouts
<1>4. CASE Connection
  <2>1. /\ UNCHANGED <<subs, size, free_sids, heap, rx>>
        /\ srv' \subseteq srv \cup Restorable
        /\ conn' = "up" => Restorable \subseteq srv'
    BY <1>4 DEF Connection, Disconnect, HandshakeDone, RestoreSubscriptions, table
  <2> QED
    BY <2>1, QuietMore
<1>5. CASE UNCHANGED vars
  BY <1>5, QuietMore DEF vars
<1> QED
  BY <1>1, <1>2, <1>3, <1>4, <1>5 DEF Next

\* What is invariant as long as drain() and shutdown() stay outside callbacks.
LEMMA MoreAlways ==
  ASSUME ~TeardownInCallback
  PROVE  Spec => [](IInv /\ MoreInv)
<1>1. Init => IInv /\ MoreInv
  BY InitIInv, InitMore
<1>2. IInv /\ MoreInv /\ [Next]_vars => (IInv /\ MoreInv)'
  BY NextIInv, NextMore
<1> QED
  BY <1>1, <1>2, PTL DEF Spec

\* Every live Sub has its slot, every other id of the array waits to be reused.
LEMMA SlotsCounted ==
  ASSUME IInv, SlotsAccounted
  PROVE  NoSlotLost
<1> DEFINE F == {free_sids[i] : i \in DOMAIN free_sids}
           all == 0 .. size - 1
<1>1. /\ size \in Nat /\ size <= MaxSubs /\ MaxSubs \in Nat
      /\ free_sids \in Seq(Sid) /\ subs \in [Sid -> Obj \cup {NULL}]
  BY SizesAssumption DEF IInv, TypeOK
<1>2. Len(free_sids) \in Nat /\ DOMAIN free_sids = 1 .. Len(free_sids)
  BY <1>1, LenProperties
<1>3. IsFiniteSet(all) /\ Cardinality(all) = size /\ all \subseteq Sid
  <2>1. IsFiniteSet(all) /\ Cardinality(all) = IF 0 > size - 1 THEN 0 ELSE (size - 1) - 0 + 1
    BY <1>1, FS_Interval
  <2>2. all \subseteq Sid
    BY <1>1 DEF Sid
  <2> QED
    BY <1>1, <2>1, <2>2
<1>4. IsFiniteSet(F) /\ Cardinality(F) = Len(free_sids)
  <2>1. IsFiniteSet(1 .. Len(free_sids)) /\ Cardinality(1 .. Len(free_sids)) = Len(free_sids)
    <3>1. /\ IsFiniteSet(1 .. Len(free_sids))
          /\ Cardinality(1 .. Len(free_sids))
               = IF 1 > Len(free_sids) THEN 0 ELSE Len(free_sids) - 1 + 1
      BY <1>2, FS_Interval
    <3> QED
      BY <1>2, <3>1
  <2>2. free_sids \in [1 .. Len(free_sids) -> F]
    <3>1. free_sids = [i \in 1 .. Len(free_sids) |-> free_sids[i]]
      BY <1>1, <1>2
    <3> QED
      BY <1>2, <3>1
  <2>3. free_sids \in Bijection(1 .. Len(free_sids), F)
    BY <1>2, <2>2 DEF Bijection, Injection, Surjection, IsInjective, IInv, FreeSidsSound
  <2> QED
    BY <2>1, <2>3, FS_Bijection DEF ExistsBijection
<1>5. F \cap Occupied = {} /\ F \cup Occupied = all
  <2>1. \A s \in Occupied : s \in Sid /\ s < size /\ subs[s] # NULL
    BY DEF Occupied, IInv, SlotsLive
  <2>2. \A s \in F : s \in Sid /\ s < size /\ subs[s] = NULL
    <3>1. \A i \in DOMAIN free_sids : free_sids[i] \in Sid
      BY <1>1, <1>2, ElementOfSeq
    <3> QED
      BY <3>1 DEF IInv, FreeSidsSound
  <2>3. \A s \in Sid : s < size => s \in all
    BY <1>1 DEF Sid
  <2>4. \A s \in all : s \in F \/ s \in Occupied
    BY <1>3 DEF SlotsAccounted, Occupied
  <2> QED
    BY <2>1, <2>2, <2>3, <2>4
<1>6. IsFiniteSet(Occupied) /\ Cardinality(Occupied) \in Nat
  BY <1>3, <1>5, FS_Subset, FS_CardinalityType
<1>7. size = Len(free_sids) + Cardinality(Occupied)
  <2>1. Cardinality(F \cup Occupied)
          = Cardinality(F) + Cardinality(Occupied) - Cardinality(F \cap Occupied)
    BY <1>4, <1>6, FS_Union
  <2>2. Cardinality(F \cap Occupied) = 0
    BY <1>5, FS_EmptySet
  <2>3. Cardinality(F \cup Occupied) = size
    BY <1>3, <1>5
  <2> DEFINE a == Cardinality(F)
             b == Cardinality(Occupied)
             c == Cardinality(F \cap Occupied)
             u == Cardinality(F \cup Occupied)
             n == Len(free_sids)
  <2>4. u = a + b - c /\ c = 0 /\ u = size /\ a = n /\ n \in Nat /\ b \in Nat
    BY <1>2, <1>4, <1>6, <2>1, <2>2, <2>3
  <2> HIDE DEF a, b, c, u, n
  <2>5. size = n + b
    BY ONLY <2>4
  <2> QED
    BY <2>5 DEF n, b
<1>8. Cardinality(Live) = Cardinality(Occupied)
  <2> DEFINE f == [s \in Occupied |-> subs[s]]
  <2>1. \A s \in Occupied : s \in Sid /\ subs[s] \in Live
    BY DEF Occupied, IInv, SlotsLive
  <2>2. \A o \in Live : \E s \in Occupied : subs[s] = o
    <3>1. \A o \in Live : o # NULL
      BY NullAssumption DEF Live
    <3> QED
      BY <3>1 DEF Occupied, IInv, EverySubInOneSlot
  <2>3. \A s, t \in Occupied : subs[s] = subs[t] => s = t
    BY DEF Occupied, IInv, EverySubInOneSlot
  <2>4. f \in Bijection(Occupied, Live)
    BY <2>1, <2>2, <2>3 DEF Bijection, Injection, Surjection, IsInjective
  <2> QED
    BY <1>6, <2>4, FS_Bijection DEF ExistsBijection
<1> QED
  BY <1>2, <1>6, <1>7, <1>8 DEF NoSlotLost

\* No slot leaks: what the limit of sub_internal() counts is the number of live
\* subscriptions, whatever the interleaving.  shutdown(), which empties
\* free_sids and keeps the array, is the exception.
THEOREM NoSlotEverLost ==
  ASSUME ~TeardownInCallback, ~UsesShutdown
  PROVE  Spec => []NoSlotLost
<1>1. IInv /\ MoreInv => NoSlotLost
  BY SlotsCounted DEF MoreInv
<1> QED
  BY <1>1, MoreAlways, PTL

\* A reconnect gives the server every persistent subscription, for any
\* interleaving of subscribing and unsubscribing with the restore.
THEOREM RestoredAlways ==
  ASSUME ~TeardownInCallback
  PROVE  Spec => []RestoredOnReconnect
<1>1. MoreInv => RestoredOnReconnect
  BY DEF MoreInv
<1> QED
  BY <1>1, MoreAlways, PTL

\* The server never keeps an id that the client considers free.  The condition
\* is needed: below another callback on the same Sub, the one that reaches the
\* limit marks it without an UNSUB, and the return of the outer one deletes it.
THEOREM ServerNeverBehind ==
  ASSUME ~TeardownInCallback, MaxDepth = 1 \/ Limits \subseteq {0}
  PROVE  Spec => []ServerKnowsOnlyTaken
<1>1. MoreInv => ServerKnowsOnlyTaken
  BY DEF MoreInv, OneCallPerSub
<1> QED
  BY <1>1, MoreAlways, PTL

\* max_wanted is never exceeded while no callback receives on its own.
THEOREM LimitAlwaysRespected ==
  ASSUME ~TeardownInCallback, MaxDepth = 1
  PROVE  Spec => []LimitRespected
<1>1. MoreInv => LimitRespected
  BY DEF MoreInv, LimitCounted, LimitRespected
<1> QED
  BY <1>1, MoreAlways, PTL

-----------------------------------------------------------------------------
(* The callbacks a scan of process() has collected                         *)

\* A Sub whose on_timeout was collected is deleted, or still in its slot.
CollectedOwn ==
  \A e \in tmo.todo : heap[e.obj].alive => subs[e.sid] = e.obj

\* Steps that delete no Sub without emptying its slot, and fill no slot that is
\* taken, leave what was collected as it was.
LEMMA CollectedKept ==
  ASSUME CollectedOwn, tmo'.todo \subseteq tmo.todo,
         \A e \in tmo.todo : heap'[e.obj].alive =>
           heap[e.obj].alive
             /\ (subs[e.sid] = e.obj => subs'[e.sid] = e.obj)
  PROVE  CollectedOwn'
BY DEF CollectedOwn

\* What the elements of the scan are.
LEMMA CollectedFacts ==
  ASSUME IInv, NEW e \in tmo.todo
  PROVE  /\ e.sid \in Sid /\ e.obj \in Obj /\ e.obj # NULL
         /\ e.obj \in Referenced
BY NullAssumption DEF IInv, TypeOK, ScanRecord, Collected, Referenced

LEMMA SubInternalCollected ==
  ASSUME IInv, CollectedOwn, NEW o \in Obj, NEW max \in Limits,
         NEW stored \in BOOLEAN, NEW timed \in BOOLEAN,
         SubInternal(o, max, stored, timed)
  PROVE  CollectedOwn'
<1>1. /\ o \notin Referenced /\ HasRoom /\ tmo' = tmo
      /\ heap' = [heap EXCEPT ![o] = NewSub(max, stored, timed)]
  BY DEF SubInternal
<1>2. PICK sid \in Sid : AllocSid(sid) /\ subs' = [subs EXCEPT ![sid] = o]
  BY DEF SubInternal
<1>3. subs[sid] = NULL
  BY <1>1, <1>2, AllocSidStep
<1>4. subs \in [Sid -> Obj \cup {NULL}] /\ heap \in [Obj -> SubRecord]
  BY DEF IInv, TypeOK
<1>5. ASSUME NEW e \in tmo.todo
      PROVE  /\ heap'[e.obj] = heap[e.obj]
             /\ subs[e.sid] = e.obj => subs'[e.sid] = e.obj
  <2>1. e.sid \in Sid /\ e.obj \in Obj /\ e.obj # NULL /\ e.obj # o
    BY <1>1, CollectedFacts
  <2> QED
    BY <1>1, <1>2, <1>3, <1>4, <2>1
<1> QED
  BY <1>1, <1>5, CollectedKept

\* A slot is emptied together with the deletion of the Sub in it.
LEMMA FreedCollected ==
  ASSUME IInv, CollectedOwn, NEW sid \in Sid, subs[sid] \in Obj,
         subs' = [subs EXCEPT ![sid] = NULL],
         heap' = [heap EXCEPT ![subs[sid]] = Freed],
         tmo'.todo \subseteq tmo.todo
  PROVE  CollectedOwn'
<1>1. subs \in [Sid -> Obj \cup {NULL}] /\ heap \in [Obj -> SubRecord]
  BY DEF IInv, TypeOK
<1>2. ASSUME NEW e \in tmo.todo, heap'[e.obj].alive
      PROVE  /\ heap[e.obj].alive
             /\ subs[e.sid] = e.obj => subs'[e.sid] = e.obj
  <2>1. e.sid \in Sid /\ e.obj \in Obj
    BY CollectedFacts
  <2>2. ~Freed.alive
    BY DEF Freed
  <2>3. e.obj # subs[sid]
    BY <1>1, <1>2, <2>1, <2>2
  <2> QED
    BY <1>1, <1>2, <2>1, <2>3
<1> QED
  BY <1>2, CollectedKept

\* Steps that keep the slots and the lives of the objects.
LEMMA SameLives ==
  ASSUME IInv, CollectedOwn, subs' = subs, tmo'.todo \subseteq tmo.todo,
         \A p \in Obj : heap'[p].alive = heap[p].alive
  PROVE  CollectedOwn'
<1>1. \A e \in tmo.todo : e.obj \in Obj
  BY CollectedFacts
<1> QED
  BY <1>1, CollectedKept

LEMMA UnsubscribedCollected ==
  ASSUME IInv, CollectedOwn, NEW sid \in Sid, subs[sid] # NULL,
         Unsubscribed(sid), tmo'.todo \subseteq tmo.todo
  PROVE  CollectedOwn'
<1> DEFINE o == subs[sid]
<1>1. o \in Obj /\ heap \in [Obj -> SubRecord]
  BY DEF IInv, TypeOK
<1>2. CASE NoCallbackRuns(o)
  BY <1>1, <1>2, FreedCollected DEF Unsubscribed, FreeSlot
<1>3. CASE ~NoCallbackRuns(o)
  <2>1. heap' = [heap EXCEPT ![o] = MarkForDeletion(@)] /\ subs' = subs
    BY <1>3 DEF Unsubscribed
  <2>2. MarkForDeletion(heap[o]).alive = heap[o].alive
    BY <1>1, SubMethods
  <2>3. \A p \in Obj : heap'[p].alive = heap[p].alive
    BY <1>1, <2>1, <2>2
  <2> QED
    BY <2>1, <2>3, SameLives
<1> QED
  BY <1>2, <1>3

LEMMA ReceiverCollected ==
  ASSUME IInv, CollectedOwn, Receiver
  PROVE  CollectedOwn'
<1>1. heap \in [Obj -> SubRecord] /\ subs \in [Sid -> Obj \cup {NULL}]
      /\ rx \in [Frame -> FrameRecord]
  BY DEF IInv, TypeOK
<1>2. CASE (\E sid \in Sid : RecvMsg(sid)) \/ RecvAbort
  BY <1>2, SameLives DEF RecvMsg, RecvAbort, table
<1>3. CASE Acquire
  <2> DEFINE o == subs[rx[depth].sid]
  <2>1. subs' = subs /\ tmo' = tmo
    BY <1>3 DEF Acquire
  <2>2. heap' = heap \/ heap' = [heap EXCEPT ![o] = ClearTimeout(AddRef(@))]
    BY <1>3 DEF Acquire
  <2>3. \A p \in Obj : ClearTimeout(AddRef(heap[p])).alive = heap[p].alive
    BY <1>1 DEF ClearTimeout, AddRef, SubRecord
  <2>4. \A p \in Obj : heap'[p].alive = heap[p].alive
    BY <1>1, <2>2, <2>3
  <2> QED
    BY <2>1, <2>4, SameLives
<1>4. CASE Call
  <2> DEFINE o == rx[depth].obj
  <2>1. subs' = subs /\ tmo' = tmo /\ heap' = [heap EXCEPT ![o] = CountCall(@)]
    BY <1>4 DEF Call
  <2>2. \A p \in Obj : CountCall(heap[p]).alive = heap[p].alive
    BY <1>1 DEF CountCall, SubRecord
  <2>3. \A p \in Obj : heap'[p].alive = heap[p].alive
    BY <1>1, <2>1, <2>2
  <2> QED
    BY <2>1, <2>3, SameLives
<1>5. CASE Return
  <2> DEFINE f == rx[depth]
             o == f.obj
  <2>1. depth \in Frame /\ f.phase = "callback" /\ tmo' = tmo
    BY <1>5 DEF Return, IInv, TypeOK, Frame
  <2>2. o \in Obj /\ heap[o].alive /\ subs[f.sid] = o /\ f.sid \in Sid
    BY <1>1, <2>1 DEF IInv, NoUseAfterFree, Live, FrameRecord
  <2>3. PICK reclaim \in Reclaims(o) :
          IF reclaim
            THEN FreeSlot(f.sid) /\ heap' = [heap EXCEPT ![o] = Freed]
            ELSE /\ heap' = [heap EXCEPT ![o] =
                              IF ~@.alive THEN @
                              ELSE IF f.will_max_out
                                THEN MarkForDeletion(Release(@))
                                ELSE Release(@)]
                 /\ UNCHANGED <<subs, free_sids>>
    BY <1>5 DEF Return
  <2>4. CASE reclaim
    BY <2>1, <2>2, <2>3, <2>4, FreedCollected DEF FreeSlot
  <2>5. CASE ~reclaim
    <3>1. \A p \in Obj : /\ Release(heap[p]).alive = heap[p].alive
                         /\ MarkForDeletion(Release(heap[p])).alive = heap[p].alive
      BY <1>1 DEF Release, MarkForDeletion, SubRecord
    <3>2. \A p \in Obj : heap'[p].alive = heap[p].alive
      BY <1>1, <2>2, <2>3, <2>5, <3>1
    <3> QED
      BY <2>1, <2>3, <2>5, <3>2, SameLives
  <2> QED
    BY <2>4, <2>5
<1> QED
  BY <1>2, <1>3, <1>4, <1>5 DEF Receiver

LEMMA DeleteAllCollected ==
  ASSUME IInv, CollectedOwn, DeleteAll, tmo' = tmo
  PROVE  CollectedOwn'
<1>1. ASSUME NEW e \in tmo.todo
      PROVE  ~heap'[e.obj].alive
  <2>1. e.obj \in Obj /\ e.sid \in Sid
    BY CollectedFacts
  <2>2. heap[e.obj].alive => subs[e.sid] = e.obj
    BY DEF CollectedOwn
  <2> QED
    BY <2>1, <2>2 DEF DeleteAll, Freed
<1> QED
  BY <1>1, CollectedKept

LEMMA TimeoutsCollected ==
  ASSUME IInv, CollectedOwn, Timeouts
  PROVE  CollectedOwn'
<1>1. CASE \E o \in Obj : Expire(o)
  <2>1. PICK o \in Obj : Expire(o)
    BY <1>1
  <2>2. subs' = subs /\ tmo' = tmo /\ heap' = [heap EXCEPT ![o].timer = "expired"]
    BY <2>1 DEF Expire
  <2>3. \A p \in Obj : heap'[p].alive = heap[p].alive
    BY <2>2 DEF IInv, TypeOK, SubRecord
  <2> QED
    BY <2>2, <2>3, SameLives
<1>2. CASE TimeoutCollect
  BY <1>2 DEF TimeoutCollect, ScanOf, CollectedOwn, table
<1>3. CASE TimeoutRecheck
  <2>1. UNCHANGED <<subs, heap>> /\ tmo'.todo \subseteq tmo.todo
    BY <1>3 DEF TimeoutRecheck, CallbackOf, ScanOf, table
  <2> QED
    BY <2>1, SameLives
<1>4. CASE TimeoutFinish
  <2>1. tmo'.todo \subseteq tmo.todo /\ tmo.sid \in Sid
    BY <1>4 DEF TimeoutFinish, ScanOf, IInv, TypeOK, ScanRecord
  <2>2. CASE subs[tmo.sid] # NULL
    BY <1>4, <2>1, <2>2, UnsubscribedCollected DEF TimeoutFinish
  <2>3. CASE subs[tmo.sid] = NULL
    BY <1>4, <2>1, <2>3, SameLives DEF TimeoutFinish, table
  <2> QED
    BY <2>2, <2>3
<1> QED
  BY <1>1, <1>2, <1>3, <1>4 DEF Timeouts

LEMMA NextCollected ==
  ASSUME IInv, CollectedOwn, [Next]_vars
  PROVE  CollectedOwn'
<1>1. CASE Application
  <2>1. CASE Subscribe \/ RequestWithTimeout
    BY <2>1, SubInternalCollected DEF Subscribe, RequestWithTimeout
  <2>2. CASE \E sid \in Sid : Unsubscribe(sid)
    BY <2>2, UnsubscribedCollected DEF Unsubscribe
  <2>3. CASE Drain \/ Shutdown
    BY <2>3, DeleteAllCollected DEF Drain, Shutdown
  <2> QED
    BY <1>1, <2>1, <2>2, <2>3 DEF Application
<1>2. CASE Receiver
  BY <1>2, ReceiverCollected
<1>3. CASE Timeouts
  BY <1>3, TimeoutsCollected
<1>4. CASE Connection \/ UNCHANGED vars
  <2>1. UNCHANGED <<subs, heap, tmo>>
    BY <1>4 DEF Connection, Disconnect, HandshakeDone, RestoreSubscriptions, table, vars
  <2> QED
    BY <2>1, SameLives
<1> QED
  BY <1>1, <1>2, <1>3, <1>4 DEF Next

\* An on_timeout starts only while the request in the slot is unanswered, and it
\* is that request's, unless the request it was collected from has been deleted.
THEOREM TimeoutNeverAfterResponse ==
  ASSUME ~TeardownInCallback
  PROVE  Spec => TimeoutOnlyWithoutResponse
<1> DEFINE Right == LET now == subs[tmo'.sid]
                    IN /\ heap[now].received = 0 /\ Holders(now) = {}
                       /\ heap[tmo'.obj].alive => tmo'.obj = now
<1>1. ASSUME IInv, MoreInv, CollectedOwn, [Next]_vars,
             tmo.phase = "scan", tmo'.phase = "callback"
      PROVE  Right
  <2>1. TimeoutRecheck
    BY <1>1 DEF Next, vars, Application, Receiver, Timeouts, Connection, Subscribe,
       RequestWithTimeout, SubInternal, Unsubscribe, Drain, Shutdown, RecvMsg,
       RecvAbort, Acquire, Call, Return, Expire, TimeoutCollect, TimeoutFinish,
       Disconnect, HandshakeDone, RestoreSubscriptions
  <2>2. PICK e \in tmo.todo :
          tmo' = IF TimedOut(e.sid) THEN CallbackOf(e) ELSE ScanOf(tmo.todo \ {e})
    BY <2>1 DEF TimeoutRecheck
  <2>3. TimedOut(e.sid) /\ tmo'.sid = e.sid /\ tmo'.obj = e.obj
    BY <1>1, <2>2 DEF ScanOf, CallbackOf
  <2>4. /\ e.sid \in Sid /\ subs[e.sid] \in Obj
        /\ heap[subs[e.sid]].timer = "expired"
    BY <1>1, <2>3, CollectedFacts DEF TimedOut, Expired, IInv, TypeOK
  <2>5. heap[subs[e.sid]].received = 0 /\ Holders(subs[e.sid]) = {}
    BY <1>1, <2>3, <2>4 DEF MoreInv, TimersFresh, TimedOut, Expired, IInv, SlotsLive, Live
  <2>6. heap[e.obj].alive => e.obj = subs[e.sid]
    BY <1>1 DEF CollectedOwn
  <2> QED
    BY <2>3, <2>5, <2>6
<1>2. Init => CollectedOwn
  BY DEF Init, NoScan, CollectedOwn
<1>3. IInv /\ MoreInv /\ CollectedOwn /\ [Next]_vars => CollectedOwn'
  BY NextCollected
<1>4. IInv /\ MoreInv /\ CollectedOwn /\ [Next]_vars =>
        (tmo.phase = "scan" /\ tmo'.phase = "callback" => Right)
  BY <1>1
<1>5. Spec => [](IInv /\ MoreInv)
  BY MoreAlways
<1> QED
  BY <1>2, <1>3, <1>4, <1>5, PTL DEF Spec, TimeoutOnlyWithoutResponse

=============================================================================
