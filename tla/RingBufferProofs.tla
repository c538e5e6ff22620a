-------------------------- MODULE RingBufferProofs --------------------------
(***************************************************************************)
(* The ring buffer implements the queue of LossyFifo, for every capacity:  *)
(* the indices stay in the buffer, and each step of write() and read()     *)
(* does to the bytes between tail and head what a step of the queue does.  *)
(***************************************************************************)
EXTENDS RingBuffer, SequenceTheorems, TLAPS

Byte0 == Byte \cup {0}

\* Contents for any buffer and any two indices.
Used(h, t) == IF h >= t THEN h - t ELSE Capacity - t + h
SlotAt(t, k) == IF t + k - 1 < Capacity THEN t + k - 1 ELSE t + k - 1 - Capacity
Stored(s, h, t) == [k \in 1 .. Used(h, t) |-> s[SlotAt(t, k)]]

LEMMA ContentsStored == Contents = Stored(slots, head, tail)
BY DEF Contents, Stored, Available, Used, Slot, SlotAt

LEMMA ContentsStoredNext == Contents' = Stored(slots', head', tail')
BY DEF Contents, Stored, Available, Used, Slot, SlotAt

-----------------------------------------------------------------------------
(* Indices                                                                 *)

\* The index wraps around at the end of the buffer.
LEMMA SuccFacts ==
  ASSUME NEW i \in Index
  PROVE  /\ Succ(i) = IF i = Capacity - 1 THEN 0 ELSE i + 1
         /\ Succ(i) \in Index
<1>1. CASE i = Capacity - 1
  <2>1. Succ(i) = Capacity % Capacity
    BY <1>1, CapacityAssumption DEF Succ, Index
  <2>2. Capacity % Capacity = 0
    BY CapacityAssumption
  <2> QED BY <1>1, <2>1, <2>2, CapacityAssumption DEF Index
<1>2. CASE i # Capacity - 1
  <2>1. i + 1 \in Nat /\ i + 1 < Capacity
    BY <1>2, CapacityAssumption DEF Index
  <2>2. (i + 1) % Capacity = i + 1
    BY <2>1, CapacityAssumption
  <2> QED BY <1>2, <2>1, <2>2, CapacityAssumption DEF Succ, Index
<1> QED BY <1>1, <1>2

LEMMA UsedFacts ==
  ASSUME NEW h \in Index, NEW t \in Index
  PROVE  /\ Used(h, t) \in 0 .. Capacity - 1
         /\ Used(h, t) = 0 <=> h = t
         /\ \A k \in 1 .. Used(h, t) : SlotAt(t, k) \in Index
BY CapacityAssumption DEF Used, SlotAt, Index

LEMMA StoredFacts ==
  ASSUME NEW s \in [Index -> Byte0], NEW h \in Index, NEW t \in Index
  PROVE  /\ Stored(s, h, t) \in Seq(Byte0)
         /\ Len(Stored(s, h, t)) = Used(h, t)
         /\ \A k \in 1 .. Used(h, t) : Stored(s, h, t)[k] = s[SlotAt(t, k)]
<1>1. Used(h, t) \in Nat
  BY UsedFacts, CapacityAssumption
<1>2. \A k \in 1 .. Used(h, t) : s[SlotAt(t, k)] \in Byte0
  BY UsedFacts
<1>3. Stored(s, h, t) \in [1 .. Used(h, t) -> Byte0]
  BY <1>2 DEF Stored
<1>4. Stored(s, h, t) \in Seq(Byte0)
  BY <1>1, <1>3
<1>5. Len(Stored(s, h, t)) = Used(h, t)
  BY <1>1, <1>3, <1>4, LenProperties
<1> QED BY <1>4, <1>5 DEF Stored

-----------------------------------------------------------------------------
(* What the moves of head and tail do to the bytes in between              *)

\* A byte stored at head, where there is room, is the newest one.
LEMMA PutFacts ==
  ASSUME NEW s \in [Index -> Byte0], NEW h \in Index, NEW t \in Index,
         NEW b \in Byte0, Succ(h) # t
  PROVE  /\ Used(h, t) < Capacity - 1
         /\ Stored([s EXCEPT ![h] = b], Succ(h), t) = Append(Stored(s, h, t), b)
<1> DEFINE r == [s EXCEPT ![h] = b]
<1>1. Used(Succ(h), t) = Used(h, t) + 1 /\ Used(h, t) < Capacity - 1
  <2>1. Succ(h) = IF h = Capacity - 1 THEN 0 ELSE h + 1
    BY SuccFacts
  <2> QED BY <2>1, CapacityAssumption DEF Used, Index
<1>2. r \in [Index -> Byte0] /\ Succ(h) \in Index
  BY SuccFacts
<1>3. \A k \in 1 .. Used(h, t) : SlotAt(t, k) # h /\ SlotAt(t, k) \in Index
  BY CapacityAssumption DEF Used, SlotAt, Index
<1>4. SlotAt(t, Used(h, t) + 1) = h
  BY CapacityAssumption DEF Used, SlotAt, Index
<1>5. r[h] = b /\ \A i \in Index : i # h => r[i] = s[i]
  OBVIOUS
<1> DEFINE old == Stored(s, h, t)
           new == Stored(r, Succ(h), t)
<1>6. /\ new \in Seq(Byte0) /\ Len(new) = Used(h, t) + 1
      /\ \A k \in 1 .. Used(h, t) + 1 : new[k] = r[SlotAt(t, k)]
  <2> HIDE DEF r
  <2> DEFINE g == Succ(h)
  <2>1. g \in Index
    BY <1>2
  <2> HIDE DEF g
  <2>2. /\ Stored(r, g, t) \in Seq(Byte0) /\ Len(Stored(r, g, t)) = Used(g, t)
        /\ \A k \in 1 .. Used(g, t) : Stored(r, g, t)[k] = r[SlotAt(t, k)]
    BY <1>2, <2>1, StoredFacts
  <2> QED BY <1>1, <2>2 DEF g
<1>7. /\ old \in Seq(Byte0) /\ Len(old) = Used(h, t)
      /\ \A k \in 1 .. Used(h, t) : old[k] = s[SlotAt(t, k)]
  BY StoredFacts
<1>8. Used(h, t) \in Nat
  BY UsedFacts, CapacityAssumption
<1> HIDE DEF r, old, new
<1>9. \A k \in 1 .. Used(h, t) : new[k] = old[k]
  BY <1>3, <1>5, <1>6, <1>7, <1>8
<1>10. new[Used(h, t) + 1] = b
  BY <1>4, <1>5, <1>6, <1>8
<1>11. new = Append(old, b)
  <2>1. /\ Append(old, b) \in Seq(Byte0) /\ Len(Append(old, b)) = Len(new)
        /\ \A k \in 1 .. Used(h, t) : Append(old, b)[k] = old[k]
        /\ Append(old, b)[Used(h, t) + 1] = b
    BY <1>6, <1>7, AppendProperties
  <2>2. \A k \in 1 .. Len(new) : new[k] = Append(old, b)[k]
    BY <1>6, <1>8, <1>9, <1>10, <2>1
  <2> QED BY <1>6, <2>1, <2>2, SeqEqual
<1> QED BY <1>1, <1>11 DEF r, old, new

\* A byte taken at tail is the oldest one.
LEMMA TakeFacts ==
  ASSUME NEW s \in [Index -> Byte0], NEW h \in Index, NEW t \in Index, t # h
  PROVE  /\ Stored(s, h, t) # <<>>
         /\ Head(Stored(s, h, t)) = s[t]
         /\ Stored(s, h, Succ(t)) = Tail(Stored(s, h, t))
<1>0. Succ(t) = IF t = Capacity - 1 THEN 0 ELSE t + 1
  BY SuccFacts
<1>1. Used(h, Succ(t)) = Used(h, t) - 1 /\ Used(h, t) \in Nat \ {0}
  BY <1>0, CapacityAssumption DEF Used, Index
<1>2. Succ(t) \in Index
  BY SuccFacts
<1>3. \A k \in 1 .. Used(h, t) - 1 : SlotAt(Succ(t), k) = SlotAt(t, k + 1)
  BY <1>0, CapacityAssumption DEF Used, SlotAt, Index
<1>4. SlotAt(t, 1) = t
  BY CapacityAssumption DEF SlotAt, Index
<1> DEFINE old == Stored(s, h, t)
           new == Stored(s, h, Succ(t))
<1>5. /\ new \in Seq(Byte0) /\ Len(new) = Used(h, t) - 1
      /\ \A k \in 1 .. Used(h, t) - 1 : new[k] = s[SlotAt(Succ(t), k)]
  BY <1>1, <1>2, StoredFacts
<1>6. /\ old \in Seq(Byte0) /\ Len(old) = Used(h, t)
      /\ \A k \in 1 .. Used(h, t) : old[k] = s[SlotAt(t, k)]
  BY StoredFacts
<1> HIDE DEF old, new
<1>7. old # <<>> /\ Head(old) = s[t]
  BY <1>1, <1>4, <1>6, EmptySeq
<1>8. new = Tail(old)
  <2>1. /\ Tail(old) \in Seq(Byte0) /\ Len(Tail(old)) = Len(new)
        /\ \A k \in 1 .. Len(Tail(old)) : Tail(old)[k] = old[k + 1]
    BY <1>5, <1>6, <1>7, HeadTailProperties
  <2>2. \A k \in 1 .. Len(new) : new[k] = Tail(old)[k]
    BY <1>1, <1>3, <1>5, <1>6, <2>1
  <2> QED BY <1>5, <2>1, <2>2, SeqEqual
<1> QED BY <1>7, <1>8 DEF old, new

LEMMA FullFacts ==
  ASSUME NEW h \in Index, NEW t \in Index, Succ(h) = t
  PROVE  Used(h, t) = Capacity - 1 /\ t # h
BY SuccFacts, CapacityAssumption DEF Used, Index

LEMMA EmptyFacts ==
  ASSUME NEW s PROVE Stored(s, 0, 0) = <<>>
<1>1. Used(0, 0) = 0
  BY DEF Used
<1>2. 1 .. 0 = {}
  OBVIOUS
<1> QED BY <1>1, <1>2 DEF Stored

-----------------------------------------------------------------------------
(* Types, and the refinement                                               *)

LEMMA RingTypes ==
  ASSUME RingTypeOK, RingStep PROVE RingTypeOK'
<1>1. CASE Construct
  <2>1. 0 \in Index /\ 0 \in Nat
    BY CapacityAssumption DEF Index
  <2>2. <<>> \in Seq(Byte) /\ <<>> \in Seq(Byte \cup {0})
    BY EmptySeq
  <2> QED BY <1>1, <2>1, <2>2 DEF Construct, RingTypeOK
<1>2. CASE \E bytes \in Seq(Byte) : WriteBegin(bytes)
  BY <1>2 DEF WriteBegin, RingTypeOK
<1>3. CASE DropOldest
  BY <1>3, SuccFacts DEF DropOldest, RingTypeOK
<1>4. CASE Store
  <2>1. data \in Seq(Byte) /\ data # <<>>
    BY <1>4 DEF Store, RingTypeOK
  <2>2. Head(data) \in Byte /\ Tail(data) \in Seq(Byte)
    BY <2>1, HeadTailProperties
  <2>3. slots' \in [Index -> Byte \cup {0}]
    BY <1>4, <2>2 DEF Store, RingTypeOK
  <2> QED BY <1>4, <2>2, <2>3, SuccFacts DEF Store, RingTypeOK
<1>5. CASE WriteEnd
  BY <1>5 DEF WriteEnd, RingTypeOK
<1>6. CASE Signal
  BY <1>6 DEF Signal, RingTypeOK
<1>7. CASE \E n \in Nat : ReadBegin(n)
  BY <1>7 DEF ReadBegin, RingTypeOK
<1>8. CASE Copy
  <2>1. slots[tail] \in Byte \cup {0} /\ Succ(tail) \in Index /\ want - 1 \in Nat
    BY <1>8, SuccFacts DEF Copy, RingTypeOK
  <2>2. Append(read, slots[tail]) \in Seq(Byte \cup {0})
    BY <2>1, AppendProperties DEF RingTypeOK
  <2> QED BY <1>8, <2>1, <2>2 DEF Copy, RingTypeOK
<1>9. CASE ReadEnd
  BY <1>9 DEF ReadEnd, RingTypeOK
<1>10. CASE TakeToken
  BY <1>10 DEF TakeToken, RingTypeOK
<1> QED BY <1>1, <1>2, <1>3, <1>4, <1>5, <1>6, <1>7, <1>8, <1>9, <1>10 DEF RingStep

\* The steps that leave the bytes and what has been read alone.
LEMMA RingStutters ==
  ASSUME UNCHANGED <<slots, head, tail, read>> PROVE UNCHANGED <<Contents, read>>
BY DEF Contents, Available, Slot

\* Each step of the ring buffer is a step of the queue, or none.
LEMMA RingImplements ==
  ASSUME RingTypeOK, RingStep PROVE [Fifo!Step]_(Fifo!fifo)
<1>1. CASE Construct
  <2>1. Contents' = <<>>
    BY <1>1, ContentsStoredNext, EmptyFacts DEF Construct
  <2> QED BY <1>1, <2>1 DEF Construct, Fifo!Step, Fifo!Reset
<1>2. CASE DropOldest
  <2>1. /\ slots \in [Index -> Byte0] /\ head \in Index /\ tail \in Index
        /\ Succ(head) = tail /\ slots' = slots /\ head' = head
        /\ tail' = Succ(tail) /\ read' = read
    BY <1>2 DEF DropOldest, RingTypeOK, Byte0
  <2>2. Used(head, tail) = Capacity - 1 /\ tail # head
    BY <2>1, FullFacts
  <2>3. Len(Contents) = Capacity - 1
    BY <2>1, <2>2, ContentsStored, StoredFacts
  <2>4. Contents' = Tail(Contents)
    BY <2>1, <2>2, ContentsStored, ContentsStoredNext, TakeFacts
  <2> QED BY <2>1, <2>3, <2>4 DEF Fifo!Step, Fifo!Lose
<1>3. CASE Store
  <2>1. /\ slots \in [Index -> Byte0] /\ head \in Index /\ tail \in Index
        /\ Succ(head) # tail /\ slots' = [slots EXCEPT ![head] = Head(data)]
        /\ head' = Succ(head) /\ tail' = tail /\ read' = read
    BY <1>3 DEF Store, RingTypeOK, Byte0
  <2>2. Head(data) \in Byte
    BY <1>3, HeadTailProperties DEF Store, RingTypeOK
  <2>3. Head(data) \in Byte0
    BY <2>2 DEF Byte0
  <2>4. /\ Used(head, tail) < Capacity - 1
        /\ Contents' = Append(Contents, Head(data))
    BY <2>1, <2>3, ContentsStored, ContentsStoredNext, PutFacts
  <2>5. Len(Contents) < Capacity - 1
    BY <2>1, <2>4, ContentsStored, StoredFacts
  <2> QED BY <2>1, <2>2, <2>4, <2>5 DEF Fifo!Step, Fifo!Put
<1>4. CASE \E n \in Nat : ReadBegin(n)
  <2>1. UNCHANGED <<slots, head, tail>> /\ read' = <<>>
    BY <1>4 DEF ReadBegin
  <2>2. Contents' = Contents
    BY <2>1, ContentsStored, ContentsStoredNext
  <2> QED BY <2>1, <2>2 DEF Fifo!Step, Fifo!Begin
<1>5. CASE Copy
  <2>1. /\ slots \in [Index -> Byte0] /\ head \in Index /\ tail \in Index
        /\ tail # head /\ slots' = slots /\ head' = head
        /\ tail' = Succ(tail) /\ read' = Append(read, slots[tail])
    BY <1>5 DEF Copy, RingTypeOK, Byte0
  <2>2. /\ Contents # <<>> /\ Head(Contents) = slots[tail]
        /\ Contents' = Tail(Contents)
    BY <2>1, ContentsStored, ContentsStoredNext, TakeFacts
  <2> QED BY <2>1, <2>2 DEF Fifo!Step, Fifo!Take
<1>6. CASE \/ \E bytes \in Seq(Byte) : WriteBegin(bytes)
           \/ WriteEnd \/ Signal \/ ReadEnd \/ TakeToken
  <2>1. UNCHANGED <<slots, head, tail, read>>
    BY <1>6 DEF WriteBegin, WriteEnd, Signal, ReadEnd, TakeToken
  <2> QED BY <2>1, RingStutters DEF Fifo!fifo
<1> QED BY <1>1, <1>2, <1>3, <1>4, <1>5, <1>6 DEF RingStep
=============================================================================
