----------------------------- MODULE SpscProofs -----------------------------
(***************************************************************************)
(* SpscQueue for every number of slots that divides the number of values   *)
(* of usize, and every value carried: the contract of the unchecked        *)
(* operations, and that the ring is a bounded first-in first-out queue.    *)
(***************************************************************************)
EXTENDS SpscQueue, Integers, SequenceTheorems, TLAPS

(* The index wraps where the ring does, as with 2^n slots.                 *)
WrapsTogether == \E k \in Nat : IndexMod = DEPTH * k

(* Count, of any two indices.                                              *)
Distance(r, w) == (w + IndexMod - r) % IndexMod

-----------------------------------------------------------------------------
(* Division.                                                               *)

LEMMA Division ==
  ASSUME NEW d \in Nat \ {0}, NEW x \in Nat
  PROVE  \E q \in Nat, r \in 0 .. d - 1 : x = d * q + r /\ x % d = r
<1>1. /\ x % d \in 0 .. d - 1
      /\ x \div d \in Nat
      /\ x = d * (x \div d) + (x % d)
  BY Z3
<1>2. QED
  BY <1>1, Zenon

(* Numbers less than d apart are different modulo d.                       *)
LEMMA ModApart ==
  ASSUME NEW d \in Nat \ {0}, NEW x \in Nat, NEW n \in 1 .. d - 1
  PROVE  (x + n) % d # x % d
<1>1. x + n \in Nat
  OBVIOUS
<1>2. PICK p \in Nat, s \in 0 .. d - 1 : x + n = d * p + s /\ (x + n) % d = s
  BY <1>1, Division, Zenon
<1>3. PICK q \in Nat, r \in 0 .. d - 1 : x = d * q + r /\ x % d = r
  BY Division, Zenon
<1>4. SUFFICES ASSUME s = r
               PROVE  FALSE
  BY <1>2, <1>3, Zenon
<1>5. d * p + 0 = d * q + n
  <2>1. d * p \in Int /\ d * q \in Int
    OBVIOUS
  <2>2. x + n = d * p + r /\ x = d * q + r
    BY <1>2, <1>3, <1>4
  <2>3. d * p = d * q + n
    BY <2>1, <2>2
  <2>4. QED
    BY <2>1, <2>3
<1>6. n \in 0 .. d - 1 /\ 0 \in 0 .. d - 1 /\ p \in Int /\ q \in Int
  OBVIOUS
<1>7. p = q /\ 0 = n
  BY <1>5, <1>6, Z3
<1>8. QED
  BY <1>7

(* Whole turns do not matter.                                              *)
LEMMA ModTurns ==
  ASSUME NEW d \in Nat \ {0}, NEW x \in Nat, NEW k \in Nat
  PROVE  (x + d * k) % d = x % d
<1>1. x + d * k \in Nat
  OBVIOUS
<1>2. PICK p \in Nat, s \in 0 .. d - 1 :
        x + d * k = d * p + s /\ (x + d * k) % d = s
  BY <1>1, Division, Zenon
<1>3. PICK q \in Nat, r \in 0 .. d - 1 : x = d * q + r /\ x % d = r
  BY Division, Zenon
<1>4. d * p + s = d * (q + k) + r
  <2>1. x + d * k = d * p + s /\ x = d * q + r
    BY <1>2, <1>3, Zenon
  <2>2. QED
    BY <2>1
<1>5. p \in Int /\ q + k \in Int
  OBVIOUS
<1>6. p = q + k /\ s = r
  BY <1>4, <1>5, Z3
<1>7. QED
  BY <1>2, <1>3, <1>6, Zenon

-----------------------------------------------------------------------------
(* Indices and slots.                                                      *)

LEMMA SlotTurns ==
  ASSUME WrapsTogether, NEW x \in Nat
  PROVE  (x + IndexMod) % DEPTH = x % DEPTH
  BY ModTurns, SpscAssumption DEF WrapsTogether

LEMMA SlotRange ==
  ASSUME NEW x \in Nat
  PROVE  x % DEPTH \in 0 .. DEPTH - 1
<1>1. PICK q \in Nat, r \in 0 .. DEPTH - 1 : x = DEPTH * q + r /\ x % DEPTH = r
  BY Division, SpscAssumption, Zenon
<1>2. QED
  BY <1>1, Zenon

LEMMA SuccFacts ==
  ASSUME NEW x \in Index
  PROVE  /\ Succ(x) \in Index
         /\ Succ(x) = IF x + 1 < IndexMod THEN x + 1 ELSE 0
<1>1. IndexMod \in Nat \ {0} /\ x + 1 \in 0 .. 2 * IndexMod - 1
  BY SpscAssumption DEF Index
<1>2. /\ x + 1 < IndexMod => Succ(x) = x + 1
      /\ ~ (x + 1 < IndexMod) => Succ(x) = x + 1 - IndexMod
  BY <1>1, Z3 DEF Succ, Index
<1>3. QED
  BY <1>1, <1>2 DEF Index

(* What is n behind r is found by adding, modulo the wrap.                 *)
LEMMA DistanceFacts ==
  ASSUME NEW r \in Index, NEW w \in Index
  PROVE  /\ Distance(r, w) \in Index
         /\ Distance(r, w) = IF r <= w THEN w - r ELSE w + IndexMod - r
<1>1. IndexMod \in Nat \ {0} /\ w + IndexMod - r \in 0 .. 2 * IndexMod - 1
  BY SpscAssumption DEF Index
<1>2. /\ w + IndexMod - r < IndexMod => Distance(r, w) = w + IndexMod - r
      /\ ~ (w + IndexMod - r < IndexMod) =>
           Distance(r, w) = w + IndexMod - r - IndexMod
  BY <1>1, Z3 DEF Distance, Index
<1>3. QED
  BY <1>1, <1>2 DEF Index

LEMMA DistanceSteps ==
  ASSUME NEW r \in Index, NEW w \in Index
  PROVE  /\ Distance(r, w) < IndexMod - 1 =>
              Distance(r, Succ(w)) = Distance(r, w) + 1
         /\ Distance(r, w) > 0 => Distance(Succ(r), w) = Distance(r, w) - 1
<1>1. /\ Distance(r, w) = IF r <= w THEN w - r ELSE w + IndexMod - r
      /\ Succ(r) \in Index /\ Succ(w) \in Index
  BY DistanceFacts, SuccFacts
<1>2. Distance(r, Succ(w)) =
        IF r <= Succ(w) THEN Succ(w) - r ELSE Succ(w) + IndexMod - r
  BY <1>1, DistanceFacts
<1>3. Distance(Succ(r), w) =
        IF Succ(r) <= w THEN w - Succ(r) ELSE w + IndexMod - Succ(r)
  BY <1>1, DistanceFacts
<1>4. IndexMod \in Nat
  BY SpscAssumption
<1>5. QED
  BY <1>1, <1>2, <1>3, <1>4, SuccFacts DEF Index

(* The slot of the i-th index from r on, and the one of r's predecessor.   *)
LEMMA SlotAfter ==
  ASSUME WrapsTogether, NEW r \in Index, NEW i \in 0 .. IndexMod - 1
  PROVE  ((r + i) % IndexMod) % DEPTH = (r + i) % DEPTH
<1>1. /\ IndexMod \in Nat \ {0} /\ r + i \in 0 .. 2 * IndexMod - 1
      /\ r + i \in Nat
  BY SpscAssumption DEF Index
<1>2. CASE r + i < IndexMod
  BY <1>1, <1>2, Z3 DEF Index
<1>3. CASE ~ (r + i < IndexMod)
  <2>1. (r + i) % IndexMod = r + i - IndexMod
    BY <1>1, <1>3, Z3 DEF Index
  <2>2. r + i - IndexMod \in Nat
    BY <1>1, <1>3 DEF Index
  <2>3. (r + i - IndexMod + IndexMod) % DEPTH = (r + i - IndexMod) % DEPTH
    BY <2>2, SlotTurns, Zenon
  <2>4. r + i - IndexMod + IndexMod = r + i
    BY <1>1 DEF Index
  <2>5. QED
    BY <2>1, <2>3, <2>4, Zenon
<1>4. QED
  BY <1>2, <1>3

(* The slot of the writer, counted from the reader.                        *)
LEMMA SlotOfWriter ==
  ASSUME WrapsTogether, NEW r \in Index, NEW w \in Index
  PROVE  w % DEPTH = (r + Distance(r, w)) % DEPTH
<1>1. IndexMod \in Nat /\ r \in Nat /\ w \in Nat
  BY SpscAssumption DEF Index
<1>2. r + Distance(r, w) = w \/ r + Distance(r, w) = w + IndexMod
  BY <1>1, DistanceFacts
<1>3. QED
  BY <1>1, <1>2, SlotTurns

(* The writer is not at the i-th element from the oldest, nor at the slot  *)
(* that was left last, unless the queue is too full for it to be there.    *)
LEMMA WriterApart ==
  ASSUME WrapsTogether, NEW r \in Index, NEW w \in Index, NEW i \in Nat,
         Distance(r, w) \in 0 .. DEPTH - 1, i < Distance(r, w)
  PROVE  w % DEPTH # (r + i) % DEPTH
<1>1. PICK n : n = Distance(r, w) - i
  OBVIOUS
<1>2. DEPTH \in Nat \ {0} /\ r + i \in Nat /\ n \in 1 .. DEPTH - 1
  BY <1>1, SpscAssumption DEF Index
<1>3. (r + i + n) % DEPTH # (r + i) % DEPTH
  BY <1>2, ModApart, Zenon
<1>4. r + Distance(r, w) = r + i + n
  BY <1>1, SpscAssumption DEF Index
<1>5. QED
  BY <1>3, <1>4, SlotOfWriter, Zenon

LEMMA PassedFacts ==
  ASSUME NEW r \in Index
  PROVE  /\ (r + IndexMod - 1) % IndexMod \in Index
         /\ (r + IndexMod - 1) % IndexMod
              = IF r = 0 THEN IndexMod - 1 ELSE r - 1
<1>1. IndexMod \in Nat \ {0} /\ r + IndexMod - 1 \in 0 .. 2 * IndexMod - 1
  BY SpscAssumption DEF Index
<1>2. /\ r = 0 => (r + IndexMod - 1) % IndexMod = IndexMod - 1
      /\ r # 0 => (r + IndexMod - 1) % IndexMod = r - 1
  BY <1>1, Z3 DEF Index
<1>3. QED
  BY <1>1, <1>2 DEF Index

LEMMA PassedApart ==
  ASSUME WrapsTogether, NEW r \in Index, NEW w \in Index,
         Distance(r, w) \in 0 .. DEPTH - 2
  PROVE  w % DEPTH # ((r + IndexMod - 1) % IndexMod) % DEPTH
<1>1. PICK p : p = (r + IndexMod - 1) % IndexMod
  OBVIOUS
<1>2. PICK n : n = Distance(r, w) + 1
  OBVIOUS
<1>3. p \in Index /\ p = IF r = 0 THEN IndexMod - 1 ELSE r - 1
  BY <1>1, PassedFacts
<1>4. /\ DEPTH \in Nat \ {0} /\ p \in Nat /\ n \in 1 .. DEPTH - 1
      /\ IndexMod \in Nat /\ r + Distance(r, w) \in Nat /\ p + n \in Nat
  BY <1>2, <1>3, SpscAssumption DEF Index
<1>5. (p + n) % DEPTH # p % DEPTH
  BY <1>4, ModApart, Zenon
<1>6. p + n = r + Distance(r, w) \/ p + n = r + Distance(r, w) + IndexMod
  BY <1>2, <1>3, SpscAssumption DEF Index
<1>7. (r + Distance(r, w) + IndexMod) % DEPTH = (r + Distance(r, w)) % DEPTH
  BY <1>4, SlotTurns, Zenon
<1>8. (p + n) % DEPTH = w % DEPTH
  BY <1>6, <1>7, SlotOfWriter, Zenon
<1>9. QED
  BY <1>1, <1>5, <1>8, Zenon

(* The tests of enqueue and dequeue, which compare slots, tell a full and  *)
(* an empty queue as long as it is never filled to the last slot.          *)
LEMMA RoomTest ==
  ASSUME WrapsTogether, NEW r \in Index, NEW w \in Index,
         Distance(r, w) \in 0 .. DEPTH - 1
  PROVE  Succ(w) % DEPTH = r % DEPTH <=> Distance(r, w) = DEPTH - 1
<1>1. PICK n : n = Distance(r, w) + 1
  OBVIOUS
<1>2. /\ DEPTH \in Nat \ {0} /\ IndexMod \in Nat /\ r \in Nat
      /\ Distance(r, w) < IndexMod - 1 /\ n \in 1 .. DEPTH
  BY <1>1, SpscAssumption DEF Index
<1>3. Succ(w) % DEPTH = (r + n) % DEPTH
  <2>1. Succ(w) \in Index /\ Distance(r, Succ(w)) = n
    BY <1>1, <1>2, SuccFacts, DistanceSteps
  <2>2. QED
    BY <2>1, SlotOfWriter, Zenon
<1>4. CASE n = DEPTH
  <2>1. (r + DEPTH * 1) % DEPTH = r % DEPTH
    BY <1>2, ModTurns
  <2>2. DEPTH * 1 = DEPTH
    BY <1>2
  <2>3. QED
    BY <1>1, <1>2, <1>3, <1>4, <2>1, <2>2
<1>5. CASE n # DEPTH
  <2>1. n \in 1 .. DEPTH - 1
    BY <1>2, <1>5
  <2>2. (r + n) % DEPTH # r % DEPTH
    BY <1>2, <2>1, ModApart, Zenon
  <2>3. Distance(r, w) # DEPTH - 1
    BY <1>1, <1>2, <1>5
  <2>4. QED
    BY <1>3, <2>2, <2>3, Zenon
<1>6. QED
  BY <1>4, <1>5

LEMMA EmptyTest ==
  ASSUME WrapsTogether, NEW r \in Index, NEW w \in Index,
         Distance(r, w) \in 0 .. DEPTH - 1
  PROVE  r % DEPTH = w % DEPTH <=> Distance(r, w) = 0
<1>1. r \in Nat /\ r + 0 = r
  BY SpscAssumption DEF Index
<1>2. CASE Distance(r, w) = 0
  BY <1>1, <1>2, SlotOfWriter, Zenon
<1>3. CASE Distance(r, w) # 0
  <2>1. 0 \in Nat /\ 0 < Distance(r, w)
    BY <1>3, SpscAssumption
  <2>2. w % DEPTH # (r + 0) % DEPTH
    BY <2>1, WriterApart, Zenon
  <2>3. QED
    BY <1>1, <1>3, <2>2, Zenon
<1>4. QED
  BY <1>2, <1>3

-----------------------------------------------------------------------------
(* The inductive invariant.                                                *)

(* A producer that has passed its test leaves the last slot unused; a      *)
(* consumer that has passed its test has an element to read.               *)
Admitted ==
  /\ Count <= DEPTH - 1
  /\ ppc # "out" => Count <= DEPTH - 2 /\ item \in Values
  /\ cpc \in {"take", "advance"} => Count >= 1

(* What the two have done so far to the slots they are at.                 *)
HalfWay ==
  /\ ppc = "publish" => buffer[write_idx % DEPTH] = item
  /\ cpc = "advance" => data = buffer[read_idx % DEPTH]

IInv == TypeOK /\ Admitted /\ HalfWay

LEMMA CountFacts ==
  ASSUME TypeOK
  PROVE  /\ Count = Distance(read_idx, write_idx)
         /\ Count \in Index /\ IndexMod \in Nat /\ DEPTH \in Nat \ {0}
         /\ Count <= DEPTH - 1 => Count \in 0 .. DEPTH - 1
<1>1. read_idx \in Index /\ write_idx \in Index
  BY DEF TypeOK
<1>2. Count = Distance(read_idx, write_idx)
  BY DEF Count, Distance
<1>3. Count \in Index
  BY <1>1, <1>2, DistanceFacts
<1>4. QED
  BY <1>2, <1>3, SpscAssumption DEF Index

LEMMA SlotFacts ==
  ASSUME TypeOK
  PROVE  /\ write_idx % DEPTH \in 0 .. DEPTH - 1
         /\ read_idx % DEPTH \in 0 .. DEPTH - 1
         /\ PassedSlot \in 0 .. DEPTH - 1
<1>1. \A x \in Index : x \in Nat
  BY SpscAssumption DEF Index
<1>2. \A x \in Index : x % DEPTH \in 0 .. DEPTH - 1
  BY <1>1, SlotRange, Zenon
<1>3. /\ write_idx \in Index /\ read_idx \in Index
      /\ (read_idx + IndexMod - 1) % IndexMod \in Index
  BY PassedFacts DEF TypeOK
<1>4. QED
  BY <1>2, <1>3, Zenon DEF PassedSlot

LEMMA InitIInv == Init => IInv
<1> SUFFICES ASSUME Init PROVE IInv
  OBVIOUS
<1>1. TypeOK
  BY SpscAssumption DEF Init, TypeOK, Index
<1>2. Count = 0
  BY <1>1, CountFacts, DistanceFacts, SpscAssumption DEF Init, TypeOK
<1>3. QED
  BY <1>1, <1>2, SpscAssumption DEF Init, IInv, Admitted, HalfWay

(* The producer's steps.                                                   *)
LEMMA ProducerTypes ==
  ASSUME TypeOK, NEW v \in Values,
         \/ EnqueueCheck(v) \/ EnqueueUnchecked(v)
         \/ EnqueueWrite \/ EnqueuePublish
  PROVE  TypeOK'
<1>1. CASE EnqueueCheck(v) \/ EnqueueUnchecked(v)
  BY <1>1 DEF EnqueueCheck, EnqueueUnchecked, TypeOK
<1>2. CASE EnqueueWrite
  BY <1>2 DEF EnqueueWrite, TypeOK
<1>3. CASE EnqueuePublish
  BY <1>3, SuccFacts DEF EnqueuePublish, TypeOK
<1>4. QED
  BY <1>1, <1>2, <1>3

LEMMA ConsumerTypes ==
  ASSUME TypeOK,
         \/ DequeueCheck \/ DequeueUnchecked
         \/ ReadSlot \/ Advance \/ AdvanceEarly \/ ReadLate
  PROVE  TypeOK'
<1>1. CASE DequeueCheck \/ DequeueUnchecked
  BY <1>1 DEF DequeueCheck, DequeueUnchecked, TypeOK
<1>2. CASE ReadSlot
  <2>1. read_idx % DEPTH \in 0 .. DEPTH - 1
    BY SlotFacts
  <2>2. QED
    BY <1>2, <2>1 DEF ReadSlot, TypeOK
<1>3. CASE Advance \/ AdvanceEarly
  BY <1>3, SuccFacts DEF Advance, AdvanceEarly, TypeOK
<1>4. CASE ReadLate
  <2>1. PassedSlot \in 0 .. DEPTH - 1
    BY SlotFacts
  <2>2. QED
    BY <1>4, <2>1 DEF ReadLate, TypeOK
<1>5. QED
  BY <1>1, <1>2, <1>3, <1>4

LEMMA CountKept ==
  ASSUME UNCHANGED <<read_idx, write_idx>>
  PROVE  Count' = Count
  BY DEF Count

(* enqueue admits the producer only if two slots are free.                 *)
LEMMA EnqueueAdmits ==
  ASSUME WrapsTogether, IInv, HasRoom
  PROVE  Count <= DEPTH - 2
<1>1. Distance(read_idx, write_idx) # DEPTH - 1
  BY RoomTest, CountFacts DEF HasRoom, IInv, Admitted, TypeOK
<1>2. QED
  BY <1>1, CountFacts DEF IInv, Admitted, Index

LEMMA EnqueueStep ==
  ASSUME WrapsTogether, IInv, NEW v \in Values,
         EnqueueCheck(v) \/ EnqueueUnchecked(v)
  PROVE  IInv'
<1>1. TypeOK' /\ Count' = Count
  BY ProducerTypes, CountKept DEF IInv, EnqueueCheck, EnqueueUnchecked
<1>2. Admitted'
  <2>1. ppc' # "out" => Count <= DEPTH - 2 /\ item' \in Values
    BY EnqueueAdmits, CountFacts
       DEF IInv, EnqueueCheck, EnqueueUnchecked, Index
  <2>2. cpc' = cpc
    BY DEF EnqueueCheck, EnqueueUnchecked
  <2>3. QED
    BY <1>1, <2>1, <2>2 DEF IInv, Admitted
<1>3. HalfWay'
  BY DEF IInv, HalfWay, EnqueueCheck, EnqueueUnchecked
<1>4. QED
  BY <1>1, <1>2, <1>3 DEF IInv

LEMMA EnqueueWriteStep ==
  ASSUME WrapsTogether, IInv, EnqueueWrite
  PROVE  IInv'
<1>1. Count' = Count /\ UNCHANGED <<read_idx, write_idx, item, cpc, data>>
  BY CountKept DEF EnqueueWrite
<1>2. TypeOK'
  BY DEF IInv, EnqueueWrite, TypeOK
<1>3. Admitted'
  BY <1>1 DEF IInv, Admitted, EnqueueWrite
<1>4. HalfWay'
  <2>1. write_idx % DEPTH \in 0 .. DEPTH - 1
    BY SlotFacts DEF IInv
  <2>2. buffer'[write_idx % DEPTH] = item
    BY <2>1 DEF IInv, TypeOK, EnqueueWrite
  <2>3. ASSUME cpc = "advance"
        PROVE  buffer'[read_idx % DEPTH] = buffer[read_idx % DEPTH]
    <3>1. read_idx % DEPTH \in 0 .. DEPTH - 1
      BY SlotFacts DEF IInv
    <3>2. ~ (read_idx % DEPTH = write_idx % DEPTH)
      BY <2>3, EmptyTest, CountFacts DEF IInv, Admitted, TypeOK
    <3>3. QED
      BY <3>1, <3>2 DEF IInv, TypeOK, EnqueueWrite
  <2>4. QED
    BY <1>1, <2>2, <2>3 DEF IInv, HalfWay
<1>5. QED
  BY <1>2, <1>3, <1>4 DEF IInv

LEMMA PublishCounts ==
  ASSUME IInv, EnqueuePublish
  PROVE  Count' = Count + 1 /\ Count <= DEPTH - 2
<1>1. Count <= DEPTH - 2 /\ Count < IndexMod - 1
  BY CountFacts, SpscAssumption DEF IInv, Admitted, EnqueuePublish, Index
<1>2. Count' = Distance(read_idx, Succ(write_idx))
  BY DEF Count, Distance, EnqueuePublish
<1>3. QED
  BY <1>1, <1>2, DistanceSteps, CountFacts DEF IInv, TypeOK

LEMMA EnqueuePublishStep ==
  ASSUME IInv, EnqueuePublish
  PROVE  IInv'
<1>1. TypeOK'
  BY SuccFacts DEF IInv, EnqueuePublish, TypeOK
<1>2. Admitted'
  BY PublishCounts, CountFacts DEF IInv, Admitted, EnqueuePublish, Index
<1>3. HalfWay'
  BY DEF IInv, HalfWay, EnqueuePublish
<1>4. QED
  BY <1>1, <1>2, <1>3 DEF IInv

(* The consumer's steps.                                                   *)
LEMMA DequeueStep ==
  ASSUME WrapsTogether, IInv, DequeueCheck \/ DequeueUnchecked
  PROVE  IInv'
<1>1. TypeOK' /\ Count' = Count
  BY ConsumerTypes, CountKept DEF IInv, DequeueCheck, DequeueUnchecked
<1>2. Admitted'
  <2>1. cpc' = "out" \/ Count >= 1
    BY EmptyTest, CountFacts
       DEF IInv, Admitted, TypeOK, DequeueCheck, DequeueUnchecked, Index
  <2>2. ppc' = ppc /\ item' = item
    BY DEF DequeueCheck, DequeueUnchecked
  <2>3. QED
    BY <1>1, <2>1, <2>2 DEF IInv, Admitted
<1>3. HalfWay'
  BY DEF IInv, HalfWay, DequeueCheck, DequeueUnchecked
<1>4. QED
  BY <1>1, <1>2, <1>3 DEF IInv

LEMMA ReadStep ==
  ASSUME IInv, ReadSlot \/ ReadLate
  PROVE  IInv'
<1>1. TypeOK' /\ Count' = Count
  BY ConsumerTypes, CountKept DEF IInv, ReadSlot, ReadLate
<1>2. Admitted'
  BY <1>1 DEF IInv, Admitted, ReadSlot, ReadLate
<1>3. HalfWay'
  BY DEF IInv, HalfWay, ReadSlot, ReadLate
<1>4. QED
  BY <1>1, <1>2, <1>3 DEF IInv

LEMMA AdvanceCounts ==
  ASSUME IInv, Advance \/ AdvanceEarly
  PROVE  Count' = Count - 1 /\ Count >= 1
<1>1. Count >= 1
  BY DEF IInv, Admitted, Advance, AdvanceEarly
<1>2. Count' = Distance(Succ(read_idx), write_idx)
  BY DEF Count, Distance, Advance, AdvanceEarly
<1>3. QED
  BY <1>1, <1>2, DistanceSteps, CountFacts DEF IInv, TypeOK, Index

LEMMA AdvanceStep ==
  ASSUME IInv, Advance \/ AdvanceEarly
  PROVE  IInv'
<1>1. TypeOK'
  BY ConsumerTypes DEF IInv
<1>2. Admitted'
  BY AdvanceCounts, CountFacts
     DEF IInv, Admitted, Advance, AdvanceEarly, Index
<1>3. HalfWay'
  BY DEF IInv, HalfWay, Advance, AdvanceEarly
<1>4. QED
  BY <1>1, <1>2, <1>3 DEF IInv

LEMMA StutterStep ==
  ASSUME IInv, UNCHANGED vars
  PROVE  IInv'
  BY DEF IInv, TypeOK, Admitted, HalfWay, Count, vars

-----------------------------------------------------------------------------
(* For every ring: the invariant that the theorems below follow from.      *)
THEOREM IInvAlways ==
  ASSUME WrapsTogether
  PROVE  Spec => []IInv
<1>1. IInv /\ [Next]_vars => IInv'
  <2> SUFFICES ASSUME IInv, [Next]_vars PROVE IInv'
    OBVIOUS
  <2>1. ASSUME NEW v \in Values, EnqueueCheck(v) \/ EnqueueUnchecked(v)
        PROVE  IInv'
    BY <2>1, EnqueueStep
  <2>2. CASE EnqueueWrite
    BY <2>2, EnqueueWriteStep
  <2>3. CASE EnqueuePublish
    BY <2>3, EnqueuePublishStep
  <2>4. CASE DequeueCheck \/ DequeueUnchecked
    BY <2>4, DequeueStep
  <2>5. CASE ReadSlot \/ ReadLate
    BY <2>5, ReadStep
  <2>6. CASE Advance \/ AdvanceEarly
    BY <2>6, AdvanceStep
  <2>7. CASE UNCHANGED vars
    BY <2>7, StutterStep
  <2>8. QED
    BY <2>1, <2>2, <2>3, <2>4, <2>5, <2>6, <2>7 DEF Next
<1>2. QED
  BY <1>1, InitIInv, PTL DEF Spec

(* For every ring: the fields of the queue keep their types; above all,    *)
(* both indices stay in the range of usize.                                *)
THEOREM TypeCorrect ==
  ASSUME WrapsTogether
  PROVE  Spec => []TypeOK
<1>1. IInv => TypeOK
  BY DEF IInv
<1>2. QED
  BY <1>1, IInvAlways, PTL

(* For every ring: no element is ever accepted into the last free slot,    *)
(* however often the indices have gone round (lib.rs:137).                 *)
THEOREM LastSlotUnused ==
  ASSUME WrapsTogether
  PROVE  Spec => []OneAlwaysUnused
<1>1. IInv => OneAlwaysUnused
  BY DEF IInv, Admitted, OneAlwaysUnused
<1>2. QED
  BY <1>1, IInvAlways, PTL

(* For every ring: the producer never writes the slot the consumer is      *)
(* reading, in either order of the consumer's two accesses.                *)
THEOREM SlotsNotShared ==
  ASSUME WrapsTogether
  PROVE  Spec => []SlotExclusive
<1>1. IInv => SlotExclusive
  <2> SUFFICES ASSUME IInv, ppc = "write" PROVE SlotExclusive
    BY DEF SlotExclusive
  <2>1. /\ Distance(read_idx, write_idx) \in 0 .. DEPTH - 1
        /\ Distance(read_idx, write_idx) \in 0 .. DEPTH - 2
        /\ read_idx \in Index /\ write_idx \in Index
    BY CountFacts DEF IInv, Admitted, TypeOK, Index
  <2>2. cpc = "take" => write_idx % DEPTH # read_idx % DEPTH
    BY <2>1, EmptyTest, CountFacts DEF IInv, Admitted
  <2>3. cpc = "read" => write_idx % DEPTH # PassedSlot
    BY <2>1, PassedApart DEF PassedSlot
  <2>4. QED
    BY <2>2, <2>3 DEF SlotExclusive
<1>2. QED
  BY <1>1, IInvAlways, PTL

-----------------------------------------------------------------------------
(* The refinement.                                                         *)

(* The n elements from index r on.                                         *)
Contents(b, r, n) ==
  [i \in 1 .. n |-> b[((r + i - 1) % IndexMod) % DEPTH]]

LEMMA ContentsAt ==
  ASSUME WrapsTogether, NEW b \in [0 .. DEPTH - 1 -> Values \cup {None}],
         NEW r \in Index, NEW n \in 0 .. IndexMod, NEW i \in 1 .. n
  PROVE  /\ Contents(b, r, n)[i] = b[(r + (i - 1)) % DEPTH]
         /\ (r + (i - 1)) % DEPTH \in 0 .. DEPTH - 1
<1>1. /\ i - 1 \in 0 .. IndexMod - 1
      /\ r + (i - 1) = r + i - 1 /\ r + (i - 1) \in Nat
  BY SpscAssumption DEF Index
<1>2. ((r + (i - 1)) % IndexMod) % DEPTH = (r + (i - 1)) % DEPTH
  BY <1>1, SlotAfter, Zenon
<1>3. Contents(b, r, n)[i] = b[((r + i - 1) % IndexMod) % DEPTH]
  BY DEF Contents
<1>4. QED
  BY <1>1, <1>2, <1>3, SlotRange, Zenon

LEMMA ContentsSeq ==
  ASSUME WrapsTogether, NEW b \in [0 .. DEPTH - 1 -> Values \cup {None}],
         NEW r \in Index, NEW n \in 0 .. IndexMod
  PROVE  /\ Contents(b, r, n) \in Seq(Values \cup {None})
         /\ Len(Contents(b, r, n)) = n
<1>1. n \in Nat
  BY SpscAssumption
<1>2. ASSUME NEW i \in 1 .. n
      PROVE  Contents(b, r, n)[i] \in Values \cup {None}
  <2>1. PICK k \in 0 .. DEPTH - 1 : Contents(b, r, n)[i] = b[k]
    BY ContentsAt, Zenon
  <2>2. QED
    BY <2>1
<1>3. Contents(b, r, n) \in [1 .. n -> Values \cup {None}]
  BY <1>2 DEF Contents
<1>4. QED
  BY <1>1, <1>3

(* The producer writes none of the elements that are inside.               *)
LEMMA WriteKeeps ==
  ASSUME WrapsTogether, NEW b \in [0 .. DEPTH - 1 -> Values \cup {None}],
         NEW r \in Index, NEW w \in Index, NEW v,
         Distance(r, w) \in 0 .. DEPTH - 1
  PROVE  Contents([b EXCEPT ![w % DEPTH] = v], r, Distance(r, w))
           = Contents(b, r, Distance(r, w))
<1>1. PICK n : n = Distance(r, w)
  OBVIOUS
<1>2. n \in Nat /\ n \in 0 .. DEPTH - 1 /\ IndexMod \in Nat
  BY <1>1, SpscAssumption
<1>3. ASSUME NEW i \in 1 .. n
      PROVE  [b EXCEPT ![w % DEPTH] = v][((r + i - 1) % IndexMod) % DEPTH]
               = b[((r + i - 1) % IndexMod) % DEPTH]
  <2>1. PICK j : j = i - 1
    OBVIOUS
  <2>2. /\ j \in Nat /\ j < n /\ j \in 0 .. IndexMod - 1
        /\ r + j = r + i - 1 /\ r + j \in Nat
    BY <1>2, <2>1, SpscAssumption DEF Index
  <2>3. w % DEPTH # (r + j) % DEPTH
    BY <1>1, <2>2, WriterApart, Zenon
  <2>4. ((r + j) % IndexMod) % DEPTH = (r + j) % DEPTH
    BY <2>2, SlotAfter, Zenon
  <2>5. (r + j) % DEPTH \in 0 .. DEPTH - 1
    BY <2>2, SlotRange, Zenon
  <2>6. QED
    BY <2>2, <2>3, <2>4, <2>5
<1>4. QED
  BY <1>1, <1>3, Zenon DEF Contents

(* Publishing appends what is in the writer's slot.                        *)
LEMMA PublishAppends ==
  ASSUME WrapsTogether, NEW b \in [0 .. DEPTH - 1 -> Values \cup {None}],
         NEW r \in Index, NEW w \in Index,
         Distance(r, w) \in 0 .. DEPTH - 1
  PROVE  Contents(b, r, Distance(r, w) + 1)
           = Append(Contents(b, r, Distance(r, w)), b[w % DEPTH])
<1>1. PICK n : n = Distance(r, w)
  OBVIOUS
<1>2. n \in Nat /\ n \in 0 .. IndexMod /\ n + 1 \in 0 .. IndexMod
  BY <1>1, SpscAssumption
<1>3. w % DEPTH = (r + n) % DEPTH
  BY <1>1, SlotOfWriter, Zenon
<1>4. Contents(b, r, n + 1)[n + 1] = b[w % DEPTH]
  <2>1. PICK m : m = n + 1
    OBVIOUS
  <2>2. m \in 0 .. IndexMod /\ m \in 1 .. m /\ m - 1 = n
    BY <1>2, <2>1
  <2>3. Contents(b, r, m)[m] = b[(r + (m - 1)) % DEPTH]
    BY <2>2, ContentsAt, Zenon
  <2>4. QED
    BY <1>3, <2>1, <2>2, <2>3, Zenon
<1>5. \A i \in 1 .. n : Contents(b, r, n + 1)[i] = Contents(b, r, n)[i]
  BY <1>2 DEF Contents
<1>6. /\ Contents(b, r, n) \in Seq(Values \cup {None})
      /\ Len(Contents(b, r, n)) = n
      /\ Contents(b, r, n + 1) \in Seq(Values \cup {None})
      /\ Len(Contents(b, r, n + 1)) = n + 1
  BY <1>2, ContentsSeq
<1>7. b[w % DEPTH] \in Values \cup {None}
  <2>1. w \in Nat
    BY SpscAssumption DEF Index
  <2>2. w % DEPTH \in 0 .. DEPTH - 1
    BY <2>1, SlotRange, Zenon
  <2>3. QED
    BY <2>2
<1>8. PICK s, t : s = Contents(b, r, n) /\ t = Contents(b, r, n + 1)
  OBVIOUS
<1>9. t = Append(s, b[w % DEPTH])
  BY <1>2, <1>4, <1>5, <1>6, <1>7, <1>8
<1>10. QED
  BY <1>1, <1>8, <1>9, Zenon

(* Advancing takes the oldest element away.                                *)
LEMMA AdvanceTails ==
  ASSUME WrapsTogether, NEW b \in [0 .. DEPTH - 1 -> Values \cup {None}],
         NEW r \in Index, NEW n \in 1 .. IndexMod
  PROVE  /\ Contents(b, r, n) # << >>
         /\ Head(Contents(b, r, n)) = b[r % DEPTH]
         /\ Contents(b, Succ(r), n - 1) = Tail(Contents(b, r, n))
<1>1. /\ n \in 0 .. IndexMod /\ n - 1 \in 0 .. IndexMod /\ n - 1 \in Nat
      /\ Succ(r) \in Index
  BY SuccFacts, SpscAssumption
<1>2. ASSUME NEW i \in 1 .. n - 1
      PROVE  Contents(b, Succ(r), n - 1)[i] = Contents(b, r, n)[i + 1]
  <2>1. PICK j, u : j = i + 1 /\ u = Succ(r)
    OBVIOUS
  <2>2. j \in 1 .. n /\ j - 1 = i /\ i \in Nat /\ r \in Nat /\ IndexMod \in Nat
    BY <1>1, <2>1, SpscAssumption DEF Index
  <2>3. u \in Index /\ u \in Nat /\ u = IF r + 1 < IndexMod THEN r + 1 ELSE 0
    BY <2>1, SuccFacts, SpscAssumption DEF Index
  <2>4. Contents(b, u, n - 1)[i] = b[(u + (i - 1)) % DEPTH]
    BY <1>1, <2>3, ContentsAt, Zenon
  <2>5. Contents(b, r, n)[j] = b[(r + (j - 1)) % DEPTH]
    BY <1>1, <2>2, ContentsAt, Zenon
  <2>6. /\ u + (i - 1) \in Nat
        /\ r + i = u + (i - 1) \/ r + i = u + (i - 1) + IndexMod
    BY <2>2, <2>3 DEF Index
  <2>7. (u + (i - 1) + IndexMod) % DEPTH = (u + (i - 1)) % DEPTH
    BY <2>6, SlotTurns, Zenon
  <2>8. QED
    BY <2>1, <2>2, <2>4, <2>5, <2>6, <2>7, Zenon
<1>3. Contents(b, r, n)[1] = b[r % DEPTH]
  <2>1. 1 \in 1 .. n /\ r + (1 - 1) = r
    BY SpscAssumption DEF Index
  <2>2. Contents(b, r, n)[1] = b[(r + (1 - 1)) % DEPTH]
    BY <1>1, <2>1, ContentsAt, Zenon
  <2>3. QED
    BY <2>1, <2>2, Zenon
<1>4. PICK s, t : s = Contents(b, r, n) /\ t = Contents(b, Succ(r), n - 1)
  OBVIOUS
<1>5. /\ s \in Seq(Values \cup {None}) /\ Len(s) = n
      /\ t \in Seq(Values \cup {None}) /\ Len(t) = n - 1
  BY <1>1, <1>4, ContentsSeq
<1>6. s # << >> /\ Head(s) = s[1]
  BY <1>5
<1>7. t = Tail(s)
  BY <1>2, <1>4, <1>5
<1>8. QED
  BY <1>3, <1>4, <1>6, <1>7, Zenon

LEMMA ElementsContents ==
  /\ Elements = Contents(buffer, read_idx, Count)
  /\ Elements' = Contents(buffer', read_idx', Count')
  BY DEF Elements, Contents

LEMMA ElementsFacts ==
  ASSUME WrapsTogether, IInv
  PROVE  /\ buffer \in [0 .. DEPTH - 1 -> Values \cup {None}]
         /\ read_idx \in Index /\ write_idx \in Index
         /\ Count = Distance(read_idx, write_idx)
         /\ Distance(read_idx, write_idx) \in 0 .. DEPTH - 1
         /\ Len(Elements) = Count
<1>1. /\ buffer \in [0 .. DEPTH - 1 -> Values \cup {None}]
      /\ read_idx \in Index /\ write_idx \in Index
      /\ Count = Distance(read_idx, write_idx) /\ Count \in 0 .. DEPTH - 1
  BY CountFacts DEF IInv, TypeOK, Admitted
<1>2. Count \in 0 .. IndexMod
  BY <1>1, SpscAssumption
<1>3. Len(Elements) = Count
  BY <1>1, <1>2, ElementsContents, ContentsSeq, Zenon
<1>4. QED
  BY <1>1, <1>3

LEMMA AbstractInit == Init => Abstract!Init
<1> SUFFICES ASSUME Init PROVE Abstract!Init
  OBVIOUS
<1>1. Count = 0
  <2>1. TypeOK /\ read_idx = 0 /\ write_idx = 0
    BY InitIInv DEF IInv, Init
  <2>2. QED
    BY <2>1, CountFacts, DistanceFacts, SpscAssumption DEF TypeOK
<1>2. Elements = << >>
  BY <1>1 DEF Elements
<1>3. QED
  BY <1>2 DEF Init, Abstract!Init, Answer

(* enqueue answers at its test, if the queue is full.                      *)
LEMMA EnqueueMaps ==
  ASSUME WrapsTogether, IInv, NEW v \in Values,
         EnqueueCheck(v) \/ EnqueueUnchecked(v)
  PROVE  Abstract!EnqueueFull \/ UNCHANGED Abstract!vars
<1>1. Elements' = Elements /\ Answer' = Answer
  BY DEF EnqueueCheck, EnqueueUnchecked, Elements, Answer, PassedSlot, Count
<1>2. CASE put' = put
  BY <1>1, <1>2 DEF Abstract!vars
<1>3. CASE put' # put
  <2>1. ~ HasRoom /\ put' = "full"
    BY <1>3 DEF EnqueueCheck, EnqueueUnchecked
  <2>2. Distance(read_idx, write_idx) = DEPTH - 1
    BY <2>1, ElementsFacts, RoomTest, Zenon DEF HasRoom
  <2>3. Len(Elements) = DEPTH - 1
    BY <2>2, ElementsFacts
  <2>4. QED
    BY <1>1, <2>1, <2>3 DEF Abstract!EnqueueFull
<1>4. QED
  BY <1>2, <1>3

(* The write of the slot is not seen.                                      *)
LEMMA EnqueueWriteMaps ==
  ASSUME WrapsTogether, IInv, EnqueueWrite
  PROVE  UNCHANGED Abstract!vars
<1>1. /\ buffer' = [buffer EXCEPT ![write_idx % DEPTH] = item]
      /\ UNCHANGED <<read_idx, write_idx, put, cpc, got>> /\ Count' = Count
  BY CountKept DEF EnqueueWrite
<1>2. Elements' = Elements
  <2>1. Contents([buffer EXCEPT ![write_idx % DEPTH] = item], read_idx,
                 Distance(read_idx, write_idx))
          = Contents(buffer, read_idx, Distance(read_idx, write_idx))
    <3>1. /\ buffer \in [0 .. DEPTH - 1 -> Values \cup {None}]
          /\ read_idx \in Index /\ write_idx \in Index
          /\ Distance(read_idx, write_idx) \in 0 .. DEPTH - 1
      BY ElementsFacts
    <3>2. QED
      BY <3>1, WriteKeeps
  <2>2. QED
    BY <1>1, <2>1, ElementsFacts, ElementsContents, Zenon
<1>3. Answer' = Answer
  <2>1. CASE cpc = "read"
    <3>1. write_idx % DEPTH # PassedSlot
      <4>1. Distance(read_idx, write_idx) \in 0 .. DEPTH - 2
        BY ElementsFacts, SpscAssumption DEF IInv, Admitted, EnqueueWrite
      <4>2. QED
        BY <4>1, ElementsFacts, PassedApart, Zenon DEF PassedSlot
    <3>2. PassedSlot' = PassedSlot /\ PassedSlot \in 0 .. DEPTH - 1
      BY <1>1, SlotFacts DEF PassedSlot, IInv
    <3>3. buffer'[PassedSlot] = buffer[PassedSlot]
      BY <1>1, <3>1, <3>2, ElementsFacts
    <3>4. QED
      BY <1>1, <2>1, <3>2, <3>3 DEF Answer
  <2>2. CASE cpc # "read"
    BY <1>1, <2>2 DEF Answer
  <2>3. QED
    BY <2>1, <2>2
<1>4. QED
  BY <1>1, <1>2, <1>3 DEF Abstract!vars

(* The element is in the queue when the index moves past it.               *)
LEMMA EnqueuePublishMaps ==
  ASSUME WrapsTogether, IInv, EnqueuePublish
  PROVE  Abstract!Enqueue(item) /\ item \in Values
<1>1. /\ item \in Values /\ buffer[write_idx % DEPTH] = item
      /\ Count' = Count + 1 /\ Count <= DEPTH - 2
  BY PublishCounts DEF IInv, Admitted, HalfWay, EnqueuePublish
<1>2. UNCHANGED <<buffer, read_idx, cpc, got>> /\ put' = "ok"
  BY DEF EnqueuePublish
<1>3. Elements' = Append(Elements, item)
  <2>1. Contents(buffer, read_idx, Count + 1)
          = Append(Contents(buffer, read_idx, Count),
                   buffer[write_idx % DEPTH])
    BY ElementsFacts, PublishAppends, Zenon
  <2>2. QED
    BY <1>1, <1>2, <2>1, ElementsContents, Zenon
<1>4. Answer' = Answer
  BY <1>2 DEF Answer, PassedSlot
<1>5. Len(Elements) < DEPTH - 1
  BY <1>1, ElementsFacts, SpscAssumption
<1>6. QED
  BY <1>1, <1>2, <1>3, <1>4, <1>5 DEF Abstract!Enqueue

(* dequeue answers at its test, if the queue is empty.                     *)
LEMMA DequeueMaps ==
  ASSUME WrapsTogether, IInv, DequeueCheck \/ DequeueUnchecked
  PROVE  Abstract!DequeueEmpty \/ UNCHANGED Abstract!vars
<1>1. Elements' = Elements /\ put' = put
  BY DEF DequeueCheck, DequeueUnchecked, Elements, Count
<1>2. Answer' = got' /\ Answer = got
  BY DEF DequeueCheck, DequeueUnchecked, Answer
<1>3. CASE got' = got
  BY <1>1, <1>2, <1>3 DEF Abstract!vars
<1>4. CASE got' # got
  <2>1. got' = None /\ read_idx % DEPTH = write_idx % DEPTH
    BY <1>4 DEF DequeueCheck, DequeueUnchecked
  <2>2. Distance(read_idx, write_idx) = 0
    BY <2>1, ElementsFacts, EmptyTest, Zenon
  <2>3. Elements = << >>
    BY <2>2, ElementsFacts DEF Elements
  <2>4. QED
    BY <1>1, <1>2, <2>1, <2>3 DEF Abstract!DequeueEmpty
<1>5. QED
  BY <1>3, <1>4

(* The element leaves when read_idx moves past it, read or not.            *)
LEMMA AdvanceMaps ==
  ASSUME WrapsTogether, IInv, Advance \/ AdvanceEarly
  PROVE  Abstract!Dequeue
<1>1. /\ read_idx' = Succ(read_idx) /\ UNCHANGED <<buffer, put>>
      /\ Count' = Count - 1 /\ Count \in 1 .. IndexMod
  <2>1. read_idx' = Succ(read_idx) /\ UNCHANGED <<buffer, put>>
    BY DEF Advance, AdvanceEarly
  <2>2. QED
    BY <2>1, AdvanceCounts, ElementsFacts, SpscAssumption
<1>2. /\ Elements # << >> /\ Head(Elements) = buffer[read_idx % DEPTH]
      /\ Elements' = Tail(Elements)
  BY <1>1, ElementsFacts, ElementsContents, AdvanceTails, Zenon
<1>3. Answer' = buffer[read_idx % DEPTH]
  <2>1. CASE Advance
    BY <2>1 DEF Advance, Answer, IInv, HalfWay
  <2>2. CASE AdvanceEarly
    <3>1. ((Succ(read_idx) + IndexMod - 1) % IndexMod) = read_idx
      <4>1. Succ(read_idx) \in Index /\ read_idx \in Index
        BY ElementsFacts, SuccFacts
      <4>2. (Succ(read_idx) + IndexMod - 1) % IndexMod
              = IF Succ(read_idx) = 0 THEN IndexMod - 1 ELSE Succ(read_idx) - 1
        BY <4>1, PassedFacts
      <4>3. QED
        BY <4>1, <4>2, SuccFacts, SpscAssumption DEF Index
    <3>2. PassedSlot' = read_idx % DEPTH
      BY <1>1, <3>1 DEF PassedSlot
    <3>3. QED
      BY <2>2, <3>2 DEF AdvanceEarly, Answer
  <2>3. QED
    BY <2>1, <2>2
<1>4. QED
  BY <1>1, <1>2, <1>3 DEF Abstract!Dequeue

(* When the slot itself is read does not matter.                           *)
LEMMA ReadMaps ==
  ASSUME IInv, ReadSlot \/ ReadLate
  PROVE  UNCHANGED Abstract!vars
<1>1. Elements' = Elements /\ put' = put
  BY DEF ReadSlot, ReadLate, Elements, Count
<1>2. Answer' = Answer
  BY DEF ReadSlot, ReadLate, Answer
<1>3. QED
  BY <1>1, <1>2 DEF Abstract!vars

(* For every ring: whatever the two sides interleave, the queue is the     *)
(* bounded first-in first-out queue of its documentation, with one slot    *)
(* less than the buffer has.                                               *)
THEOREM QueueIsFifo ==
  ASSUME WrapsTogether
  PROVE  Spec => ImplementsFifo
<1>1. IInv /\ [Next]_vars => [Abstract!Next]_(Abstract!vars)
  <2> SUFFICES ASSUME IInv, [Next]_vars
               PROVE  Abstract!Next \/ UNCHANGED Abstract!vars
    OBVIOUS
  <2>1. ASSUME NEW v \in Values, EnqueueCheck(v) \/ EnqueueUnchecked(v)
        PROVE  Abstract!Next \/ UNCHANGED Abstract!vars
    BY <2>1, EnqueueMaps DEF Abstract!Next
  <2>2. CASE EnqueueWrite
    BY <2>2, EnqueueWriteMaps
  <2>3. CASE EnqueuePublish
    BY <2>3, EnqueuePublishMaps DEF Abstract!Next
  <2>4. CASE DequeueCheck \/ DequeueUnchecked
    BY <2>4, DequeueMaps DEF Abstract!Next
  <2>5. CASE ReadSlot \/ ReadLate
    BY <2>5, ReadMaps
  <2>6. CASE Advance \/ AdvanceEarly
    BY <2>6, AdvanceMaps DEF Abstract!Next
  <2>7. CASE UNCHANGED vars
    BY <2>7 DEF vars, Abstract!vars, Elements, Answer, PassedSlot, Count
  <2>8. QED
    BY <2>1, <2>2, <2>3, <2>4, <2>5, <2>6, <2>7 DEF Next
<1>2. Spec => Abstract!Spec
  BY <1>1, AbstractInit, IInvAlways, PTL DEF Spec, Abstract!Spec
<1>3. QED
  BY <1>2 DEF ImplementsFifo
=============================================================================
