-------------------------------- MODULE Fifo --------------------------------
(***************************************************************************)
(* What the Queue of googletest/gtest/sample3-inl.h promises: a sequence   *)
(* that grows at its end and shrinks at its front, and a Dequeue that      *)
(* returns what it removed, or nothing when the queue is empty.            *)
(***************************************************************************)
EXTENDS Sequences, Naturals

CONSTANTS
  Elements,     \* what is queued
  MaxSize       \* bound: elements in the queue

VARIABLES
  fifo,         \* the elements, oldest first
  out           \* what the last Dequeue returned, << >> for NULL

fifoVars == <<fifo, out>>

Put(e) == Len(fifo) < MaxSize /\ fifo' = Append(fifo, e) /\ UNCHANGED out
Take ==
  \/ fifo = << >> /\ out' = << >> /\ UNCHANGED fifo
  \/ fifo # << >> /\ out' = <<Head(fifo)>> /\ fifo' = Tail(fifo)
Empty == fifo' = << >> /\ UNCHANGED out

FifoInit == fifo = << >> /\ out = << >>
FifoNext == (\E e \in Elements : Put(e)) \/ Take \/ Empty
FifoSpec == FifoInit /\ [][FifoNext]_fifoVars
=============================================================================
