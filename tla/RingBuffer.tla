----------------------------- MODULE RingBuffer -----------------------------
(***************************************************************************)
(* NATSUtil::RingBuffer (util.h), with the steps of write() and read()     *)
(* between which another task may look: the mutex, the move of tail that   *)
(* drops the oldest byte, the store, the copy, the signal.  available()    *)
(* looks without the mutex.  One task writes and one reads.                *)
(***************************************************************************)
EXTENDS Integers, Sequences

CONSTANTS
  Byte,            \* the bytes the server sends
  Capacity         \* capacity: one slot more than the buffer can hold

ASSUME CapacityAssumption == Capacity \in Nat /\ Capacity > 1

VARIABLES
  slots,           \* buffer
  head,            \* where the next byte goes
  tail,            \* where the oldest byte is
  holder,          \* who holds mutex
  data,            \* what write() has still to store
  want,            \* how many bytes read() may still copy
  read,            \* what read() has copied
  token            \* data_available, a binary semaphore

ring == <<slots, head, tail, holder, data, want, read, token>>

Index == 0 .. Capacity - 1

SuccUnwrapped(i) == i + 1                \* mutant

\* (i + 1) % capacity
Succ(i) == (i + 1) % Capacity

RingTypeOK ==
  /\ slots \in [Index -> Byte \cup {0}]
  /\ head \in Index /\ tail \in Index
  /\ holder \in {"none", "writer", "reader"}
  /\ data \in Seq(Byte) /\ read \in Seq(Byte \cup {0})
  /\ want \in Nat /\ token \in BOOLEAN

Available == IF head >= tail THEN head - tail ELSE Capacity - tail + head

\* available() > 0 as a task sees it that does not hold mutex: head and tail
\* are each read twice, so while write() moves both it may also see none.
Sees(some) ==
  \/ some = (Available > 0)
  \/ some = FALSE /\ holder = "writer"

-----------------------------------------------------------------------------
(* the constructor, write() and read()                                     *)

\* malloc() leaves the slots as they are.
Construct ==
  /\ head' = 0 /\ tail' = 0
  /\ holder' = "none"
  /\ data' = <<>> /\ want' = 0 /\ read' = <<>>
  /\ token' = FALSE
  /\ UNCHANGED slots

WriteBegin(bytes) ==
  /\ holder = "none"
  /\ holder' = "writer"
  /\ data' = bytes
  /\ UNCHANGED <<slots, head, tail, want, read, token>>

\* The buffer is full: the oldest byte goes.
DropOldest ==
  /\ holder = "writer" /\ data # <<>>
  /\ Succ(head) = tail
  /\ tail' = Succ(tail)
  /\ UNCHANGED <<slots, head, holder, data, want, read, token>>

StoreOverTail ==                         \* mutant: no room is made
  /\ holder = "writer" /\ data # <<>>
  /\ slots' = [slots EXCEPT ![head] = Head(data)]
  /\ head' = Succ(head)
  /\ data' = Tail(data)
  /\ UNCHANGED <<tail, holder, want, read, token>>

Store ==
  /\ holder = "writer" /\ data # <<>>
  /\ Succ(head) # tail
  /\ slots' = [slots EXCEPT ![head] = Head(data)]
  /\ head' = Succ(head)
  /\ data' = Tail(data)
  /\ UNCHANGED <<tail, holder, want, read, token>>

WriteEnd ==
  /\ holder = "writer" /\ data = <<>>
  /\ holder' = "none"
  /\ UNCHANGED <<slots, head, tail, data, want, read, token>>

\* xSemaphoreGive(data_available), after mutex has been given back.
Signal ==
  /\ token' = TRUE
  /\ UNCHANGED <<slots, head, tail, holder, data, want, read>>

ReadBegin(n) ==
  /\ holder = "none"
  /\ holder' = "reader"
  /\ want' = n
  /\ read' = <<>>
  /\ UNCHANGED <<slots, head, tail, data, token>>

Copy ==
  /\ holder = "reader"
  /\ want > 0 /\ tail # head
  /\ read' = Append(read, slots[tail])
  /\ tail' = Succ(tail)
  /\ want' = want - 1
  /\ UNCHANGED <<slots, head, holder, data, token>>

ReadEnd ==
  /\ holder = "reader"
  /\ want = 0 \/ tail = head
  /\ holder' = "none"
  /\ UNCHANGED <<slots, head, tail, data, want, read, token>>

\* wait_for_data(): takes the signal, or finds data without it.
TakeToken ==
  /\ token
  /\ token' = FALSE
  /\ UNCHANGED <<slots, head, tail, holder, data, want, read>>

-----------------------------------------------------------------------------
(* what it implements                                                      *)

\* The slot of the k-th oldest byte.
Slot(k) == IF tail + k - 1 < Capacity THEN tail + k - 1
                                      ELSE tail + k - 1 - Capacity

Contents == [k \in 1 .. Available |-> slots[Slot(k)]]

Fifo == INSTANCE LossyFifo WITH Max <- Capacity - 1, held <- Contents

RingStep ==
  \/ Construct
  \/ \E bytes \in Seq(Byte) : WriteBegin(bytes)
  \/ DropOldest \/ Store \/ WriteEnd \/ Signal
  \/ \E n \in Nat : ReadBegin(n)
  \/ Copy \/ ReadEnd \/ TakeToken
=============================================================================
