----------------------------- MODULE FifoQueue -----------------------------
(***************************************************************************)
(* What ts_queue (include/ts_queue.hpp of the server) promises its users:  *)
(* every operation takes effect at one instant on one FIFO sequence, an    *)
(* answer about emptiness is true at that instant, and a pop that gives up *)
(* has seen the queue empty.                                               *)
(***************************************************************************)
EXTENDS Sequences

CONSTANTS Consumers, Value,
          Nothing,    \* empty() returned true, or a pop gave up
          Something   \* empty() returned false, or a pop found data

VARIABLES queue,  \* the values pushed and not yet popped, oldest first
          out     \* the last answer each consumer got

fifoVars == <<queue, out>>

FifoInit == queue = <<>> /\ out = [c \in Consumers |-> Nothing]

Push(v) == queue' = Append(queue, v) /\ UNCHANGED out

SeeEmpty(c) ==
  queue = <<>> /\ out' = [out EXCEPT ![c] = Nothing] /\ UNCHANGED queue

SeeData(c) ==
  queue # <<>> /\ out' = [out EXCEPT ![c] = Something] /\ UNCHANGED queue

Pop(c) ==
  /\ queue # <<>>
  /\ out' = [out EXCEPT ![c] = Head(queue)]
  /\ queue' = Tail(queue)

FifoNext ==
  \/ \E v \in Value : Push(v)
  \/ \E c \in Consumers : SeeEmpty(c) \/ SeeData(c) \/ Pop(c)

FifoSpec == FifoInit /\ [][FifoNext]_fifoVars
============================================================================
