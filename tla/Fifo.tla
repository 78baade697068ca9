-------------------------------- MODULE Fifo --------------------------------
(***************************************************************************)
(* What rticx-spsc promises its two endpoints: a bounded first-in          *)
(* first-out queue whose operations take effect at once.                   *)
(***************************************************************************)
EXTENDS Naturals, Sequences

CONSTANTS
  Values,    \* what the queue carries
  None,      \* the answer of dequeue on an empty queue
  Capacity   \* how many elements it holds

VARIABLES
  q,    \* the elements inside, oldest first
  put,  \* the answer to the last enqueue
  got   \* the answer to the last dequeue

vars == <<q, put, got>>

Init == q = <<>> /\ put = "none" /\ got = None

Enqueue(v) ==
  /\ Len(q) < Capacity
  /\ q' = Append(q, v)
  /\ put' = "ok"
  /\ UNCHANGED got

EnqueueFull ==
  /\ Len(q) = Capacity
  /\ put' = "full"
  /\ UNCHANGED <<q, got>>

Dequeue ==
  /\ q # <<>>
  /\ got' = Head(q)
  /\ q' = Tail(q)
  /\ UNCHANGED put

DequeueEmpty ==
  /\ q = <<>>
  /\ got' = None
  /\ UNCHANGED <<q, put>>

Next ==
  \/ \E v \in Values : Enqueue(v)
  \/ EnqueueFull
  \/ Dequeue
  \/ DequeueEmpty

Spec == Init /\ [][Next]_vars
=============================================================================
