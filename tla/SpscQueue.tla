----------------------------- MODULE SpscQueue -----------------------------
(***************************************************************************)
(* The single-producer single-consumer ring buffer (rticx-spsc/src/lib.rs) *)
(* used through split(): the producer and the consumer run concurrently,   *)
(* one a preempting interrupt of the other or on two cores, on plain       *)
(* fields without atomics.  A step is one access to a field the other side *)
(* writes.  The indices are never reduced: they count modulo 2^w, the      *)
(* width of usize, as the release build computes them.                     *)
(***************************************************************************)
EXTENDS Naturals, Sequences

CONSTANTS
  Values,    \* what the queue carries
  None,      \* Option::None, and the bytes of a slot never written
  DEPTH,     \* slots of the buffer
  IndexMod   \* 2^w

ASSUME SpscAssumption ==
  /\ DEPTH \in Nat \ {0}
  /\ IndexMod \in Nat
  /\ IndexMod > DEPTH
  /\ None \notin Values

VARIABLES
  buffer,     \* slot -> value
  read_idx,
  write_idx,
  ppc,        \* the producer is outside, before "write" or before "publish"
  item,       \* its argument `data`
  put,        \* the answer to the last enqueue
  cpc,        \* the consumer is outside, at "take", or half way through it
  data,       \* its local `data`
  got         \* the answer to the last dequeue

vars == <<buffer, read_idx, write_idx, ppc, item, put, cpc, data, got>>

Index == 0 .. IndexMod - 1

TypeOK ==
  /\ buffer \in [0 .. DEPTH - 1 -> Values \cup {None}]
  /\ read_idx \in Index /\ write_idx \in Index
  /\ ppc \in {"out", "write", "publish"}
  /\ item \in Values \cup {None}
  /\ put \in {"none", "ok", "full"}
  /\ cpc \in {"out", "take", "advance", "read"}
  /\ data \in Values \cup {None}
  /\ got \in Values \cup {None}

(* new *)
Init ==
  /\ buffer = [s \in 0 .. DEPTH - 1 |-> None]
  /\ read_idx = 0 /\ write_idx = 0
  /\ ppc = "out" /\ item = None /\ put = "none"
  /\ cpc = "out" /\ data = None /\ got = None

(* Mutant: the index is wider than usize.                                  *)
SuccWide(index) == index + 1

(* += 1 in usize.                                                          *)
Succ(index) == (index + 1) % IndexMod
Count == (write_idx + IndexMod - read_idx) % IndexMod

-----------------------------------------------------------------------------
(* The producer.                                                           *)

(* Mutant: the last free slot is used too.                                 *)
HasRoomToTheLast == Count < DEPTH

(* The test of enqueue, on the one field the consumer writes.              *)
HasRoom == Succ(write_idx) % DEPTH # read_idx % DEPTH

EnqueueCheck(v) ==
  /\ ppc = "out"
  /\ IF HasRoom
     THEN ppc' = "write" /\ item' = v /\ UNCHANGED put
     ELSE put' = "full" /\ UNCHANGED <<ppc, item>>
  /\ UNCHANGED <<buffer, read_idx, write_idx, cpc, data, got>>

(* enqueue_unchecked, called as its Safety section asks: not when full.    *)
EnqueueUnchecked(v) ==
  /\ ppc = "out"
  /\ Count < DEPTH - 1
  /\ ppc' = "write" /\ item' = v
  /\ UNCHANGED <<buffer, read_idx, write_idx, put, cpc, data, got>>

EnqueueWrite ==
  /\ ppc = "write"
  /\ buffer' = [buffer EXCEPT ![write_idx % DEPTH] = item]
  /\ ppc' = "publish"
  /\ UNCHANGED <<read_idx, write_idx, item, put, cpc, data, got>>

EnqueuePublish ==
  /\ ppc = "publish"
  /\ write_idx' = Succ(write_idx)
  /\ ppc' = "out" /\ item' = None /\ put' = "ok"
  /\ UNCHANGED <<buffer, read_idx, cpc, data, got>>

-----------------------------------------------------------------------------
(* The consumer.  Nothing orders its read of the slot and its write of     *)
(* read_idx for the other side, so the model takes them in either order.   *)

(* Mutant: the queue is not tested for emptiness.                          *)
DequeueBlind ==
  /\ cpc = "out"
  /\ cpc' = "take"
  /\ UNCHANGED <<buffer, read_idx, write_idx, ppc, item, put, data, got>>

DequeueCheck ==
  /\ cpc = "out"
  /\ IF read_idx % DEPTH = write_idx % DEPTH
     THEN got' = None /\ UNCHANGED cpc
     ELSE cpc' = "take" /\ UNCHANGED got
  /\ UNCHANGED <<buffer, read_idx, write_idx, ppc, item, put, data>>

(* dequeue_unchecked, called as its Safety section asks: not when empty.   *)
DequeueUnchecked ==
  /\ cpc = "out"
  /\ Count > 0
  /\ cpc' = "take"
  /\ UNCHANGED <<buffer, read_idx, write_idx, ppc, item, put, data, got>>

ReadSlot ==
  /\ cpc = "take"
  /\ data' = buffer[read_idx % DEPTH]
  /\ cpc' = "advance"
  /\ UNCHANGED <<buffer, read_idx, write_idx, ppc, item, put, got>>

Advance ==
  /\ cpc = "advance"
  /\ read_idx' = Succ(read_idx)
  /\ got' = data /\ data' = None
  /\ cpc' = "out"
  /\ UNCHANGED <<buffer, write_idx, ppc, item, put>>

AdvanceEarly ==
  /\ cpc = "take"
  /\ read_idx' = Succ(read_idx)
  /\ cpc' = "read"
  /\ UNCHANGED <<buffer, write_idx, ppc, item, put, data, got>>

(* The slot of the element read_idx has just moved past.                   *)
PassedSlot == ((read_idx + IndexMod - 1) % IndexMod) % DEPTH

ReadLate ==
  /\ cpc = "read"
  /\ got' = buffer[PassedSlot]
  /\ cpc' = "out"
  /\ UNCHANGED <<buffer, read_idx, write_idx, ppc, item, put, data>>

-----------------------------------------------------------------------------
Next ==
  \/ \E v \in Values : EnqueueCheck(v) \/ EnqueueUnchecked(v)
  \/ EnqueueWrite \/ EnqueuePublish
  \/ DequeueCheck \/ DequeueUnchecked
  \/ ReadSlot \/ Advance \/ AdvanceEarly \/ ReadLate

Spec == Init /\ [][Next]_vars

-----------------------------------------------------------------------------
(* lib.rs:137, 162 "one element is always unused": whatever both sides do  *)
(* and however often the indices go round, the queue never accepts an      *)
(* element into its last free slot.                                        *)
OneAlwaysUnused == Count <= DEPTH - 1

(* The producer never writes the slot the consumer is reading, not even    *)
(* when the consumer gave it up before reading it: the unused slot is what *)
(* makes split() (comment at lib.rs:76-77) safe.                           *)
SlotExclusive ==
  ppc = "write" =>
    /\ cpc = "take" => write_idx % DEPTH # read_idx % DEPTH
    /\ cpc = "read" => write_idx % DEPTH # PassedSlot

(* The queue implements the bounded FIFO: an element is accepted at        *)
(* EnqueuePublish and leaves when read_idx moves past it, and what dequeue *)
(* returns is the oldest one, never a value overwritten or read twice.     *)
Elements ==
  [i \in 1 .. Count |-> buffer[((read_idx + i - 1) % IndexMod) % DEPTH]]

(* The answer to the last dequeue that took effect.                        *)
Answer == IF cpc = "read" THEN buffer[PassedSlot] ELSE got

Abstract == INSTANCE Fifo WITH q <- Elements, got <- Answer, Capacity <- DEPTH - 1

ImplementsFifo == Abstract!Spec
=============================================================================
