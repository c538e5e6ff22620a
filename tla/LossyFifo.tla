----------------------------- MODULE LossyFifo ------------------------------
(***************************************************************************)
(* What the client may expect of the buffer between the task of the        *)
(* WebSocket and itself: a queue of at most Max bytes.  Bytes leave it in  *)
(* the order in which they came; a byte is lost only when the queue is     *)
(* full, and then it is the oldest one.  RingBuffer implements it.         *)
(***************************************************************************)
EXTENDS Integers, Sequences

CONSTANTS
  Byte,            \* what the queue carries
  Max              \* how much of it

VARIABLES
  held,            \* the bytes in the queue, the oldest first
  read             \* what the read in progress has been given so far

fifo == <<held, read>>

Empty == held = <<>> /\ read = <<>>

Put(b) ==
  /\ Len(held) < Max
  /\ held' = Append(held, b)
  /\ UNCHANGED read

Lose ==
  /\ Len(held) = Max
  /\ held' = Tail(held)
  /\ UNCHANGED read

Take ==
  /\ held # <<>>
  /\ read' = Append(read, Head(held))
  /\ held' = Tail(held)

\* A read begins, and has been given nothing yet.
Begin == read' = <<>> /\ UNCHANGED held

\* A new connection: whatever the queue held is gone.
Reset == held' = <<>> /\ read' = <<>>

Step ==
  \/ \E b \in Byte : Put(b)
  \/ Lose
  \/ Take
  \/ Begin
  \/ Reset

FifoSpec == Empty /\ [][Step]_fifo
=============================================================================
