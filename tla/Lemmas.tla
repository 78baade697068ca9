------------------------------- MODULE Lemmas -------------------------------
(***************************************************************************)
(* What the proofs of several components need of numbers and sequences:    *)
(* maxima, sequences without repetitions, counting in a queue, and the     *)
(* room in a queue whose size is the sum of its users' capacities.         *)
(***************************************************************************)
EXTENDS Integers, Sequences, FiniteSets, SequenceTheorems, FiniteSetTheorems,
        WellFoundedInduction, TLAPS

Members(q) == {q[i] : i \in 1 .. Len(q)}

NoRepeats(q) == \A i, j \in 1 .. Len(q) : q[i] = q[j] => i = j

(* How often t is among the first m of a queue, and in all of it.          *)
Among(q, m, t) == {i \in 1 .. m : q[i] = t}
Count(q, t) == Cardinality(Among(q, Len(q), t))

One(b) == IF b THEN 1 ELSE 0

(* A place for every unit of capacity.                                     *)
PlacesOf(T, capacity) == UNION {{t} \X (1 .. capacity[t]) : t \in T}

(* Nobody is in q more often than its capacity, and u less often.          *)
RoomIn(q, T, capacity, u) ==
  /\ q \in Seq(T) /\ u \in T
  /\ \A t \in T : capacity[t] \in Nat /\ Count(q, t) <= capacity[t]
  /\ Count(q, u) < capacity[u]

-----------------------------------------------------------------------------
(* Numbers.                                                                *)

(* Every nonempty set of naturals has a least element.                     *)
LEMMA LeastNat ==
  ASSUME NEW T \in SUBSET Nat, T # {}
  PROVE  \E x \in T : \A y \in T : x <= y
<1>1. PICK x \in T : \A y \in T : ~ (<<y, x>> \in OpToRel(<, Nat))
  BY WFMin, NatLessThanWellFounded
<1>2. \A y \in T : y < x => <<y, x>> \in OpToRel(<, Nat)
  BY DEF OpToRel
<1>3. \A y \in T : ~ (y < x)
  BY <1>1, <1>2, Zenon
<1>4. \A y \in T : x <= y
  BY <1>3
<1>5. QED
  BY <1>4

(* The maximum of bounded numbers, or 0 if there are none.                 *)
LEMMA Maximum ==
  ASSUME NEW T, NEW n \in Nat, NEW p \in [T -> 1 .. n]
  PROVE  \E c \in 0 .. n : /\ \A t \in T : p[t] <= c
                          /\ (c = 0 \/ \E t \in T : p[t] = c)
<1> DEFINE Bounds == {m \in Nat : \A t \in T : p[t] <= m}
<1>1. n \in Bounds
  OBVIOUS
<1>2. PICK c \in Bounds : \A m \in Bounds : c <= m
  BY <1>1, LeastNat
<1>3. c \in 0 .. n
  BY <1>1, <1>2
<1>4. c = 0 \/ \E t \in T : p[t] = c
  <2>1. SUFFICES ASSUME c # 0, \A t \in T : p[t] # c
                 PROVE  FALSE
    OBVIOUS
  <2>2. ASSUME NEW t \in T
        PROVE  p[t] <= c - 1
    BY <1>2, <2>1
  <2>3. c - 1 \in Bounds
    BY <1>3, <2>1, <2>2
  <2>4. QED
    BY <1>2, <1>3, <2>3
<1>5. QED
  BY <1>2, <1>3, <1>4

-----------------------------------------------------------------------------
(* Sequences without repetitions.                                          *)

LEMMA AppendFacts ==
  ASSUME NEW S, NEW q \in Seq(S), NEW x \in S
  PROVE  /\ Append(q, x) \in Seq(S) /\ Len(Append(q, x)) = Len(q) + 1
         /\ \A i \in 1 .. Len(q) : Append(q, x)[i] = q[i]
         /\ Append(q, x)[Len(q) + 1] = x
         /\ Members(Append(q, x)) = Members(q) \cup {x}
         /\ NoRepeats(q) /\ x \notin Members(q) => NoRepeats(Append(q, x))
<1>1. /\ Append(q, x) \in Seq(S) /\ Len(Append(q, x)) = Len(q) + 1
      /\ \A i \in 1 .. Len(q) : Append(q, x)[i] = q[i]
      /\ Append(q, x)[Len(q) + 1] = x
      /\ Len(q) \in Nat
  OBVIOUS
<1>2. Members(Append(q, x)) = Members(q) \cup {x}
  BY <1>1 DEF Members
<1>3. ASSUME NoRepeats(q), x \notin Members(q)
      PROVE  NoRepeats(Append(q, x))
  BY <1>1, <1>3 DEF NoRepeats, Members
<1>4. QED
  BY <1>1, <1>2, <1>3

LEMMA TailFacts ==
  ASSUME NEW S, NEW q \in Seq(S), q # <<>>, NoRepeats(q)
  PROVE  /\ Tail(q) \in Seq(S) /\ Len(Tail(q)) = Len(q) - 1
         /\ \A i \in 1 .. Len(q) - 1 : Tail(q)[i] = q[i + 1]
         /\ Head(q) = q[1] /\ Head(q) \in Members(q) /\ Head(q) \in S
         /\ Members(Tail(q)) = Members(q) \ {Head(q)}
         /\ NoRepeats(Tail(q))
<1>1. /\ Tail(q) \in Seq(S) /\ Len(Tail(q)) = Len(q) - 1
      /\ \A i \in 1 .. Len(q) - 1 : Tail(q)[i] = q[i + 1]
      /\ Head(q) = q[1] /\ Head(q) \in S
      /\ Len(q) \in Nat \ {0}
  BY HeadTailProperties, EmptySeq
<1>2. Head(q) \in Members(q)
  BY <1>1 DEF Members
<1>3. NoRepeats(Tail(q))
  BY <1>1 DEF NoRepeats
<1>4. Members(Tail(q)) = Members(q) \ {Head(q)}
  <2>1. ASSUME NEW x \in Members(Tail(q))
        PROVE  x \in Members(q) /\ x # Head(q)
    <3>1. PICK i \in 1 .. Len(q) - 1 : x = q[i + 1]
      BY <1>1, <2>1 DEF Members
    <3>2. i + 1 \in 1 .. Len(q) /\ 1 \in 1 .. Len(q) /\ i + 1 # 1
      BY <1>1
    <3>3. QED
      BY <1>1, <3>1, <3>2 DEF Members, NoRepeats
  <2>2. ASSUME NEW x \in Members(q), x # Head(q)
        PROVE  x \in Members(Tail(q))
    <3>1. PICK i \in 1 .. Len(q) : x = q[i]
      BY <2>2 DEF Members
    <3>2. i - 1 \in 1 .. Len(q) - 1 /\ (i - 1) + 1 = i
      BY <1>1, <2>2, <3>1
    <3>3. x = Tail(q)[i - 1]
      BY <1>1, <3>1, <3>2
    <3>4. QED
      BY <1>1, <3>2, <3>3 DEF Members
  <2>3. QED
    BY <2>1, <2>2
<1>5. QED
  BY <1>1, <1>2, <1>3, <1>4

LEMMA CutFacts ==
  ASSUME NEW S, NEW q \in Seq(S), NEW m \in Int, NEW n \in Int,
         \A i \in m .. n : q[i] \in S
  PROVE  /\ SubSeq(q, m, n) \in Seq(S)
         /\ Len(SubSeq(q, m, n)) = IF m <= n THEN n - m + 1 ELSE 0
         /\ \A i \in 1 .. n - m + 1 : SubSeq(q, m, n)[i] = q[m + i - 1]
<1>1. SubSeq(q, m, n) \in Seq(S)
  OBVIOUS
<1>2. Len(SubSeq(q, m, n)) = IF m <= n THEN n - m + 1 ELSE 0
  OBVIOUS
<1>3. \A i \in 1 .. n - m + 1 : SubSeq(q, m, n)[i] = q[m + i - 1]
  OBVIOUS
<1>4. QED
  BY <1>1, <1>2, <1>3

LEMMA FrontFacts ==
  ASSUME NEW S, NEW q \in Seq(S), q # <<>>, NoRepeats(q)
  PROVE  LET front == SubSeq(q, 1, Len(q) - 1)
         IN  /\ front \in Seq(S) /\ Len(front) = Len(q) - 1
             /\ \A i \in 1 .. Len(q) - 1 : front[i] = q[i]
             /\ q[Len(q)] \in Members(q) /\ q[Len(q)] \in S
             /\ Members(front) = Members(q) \ {q[Len(q)]}
             /\ NoRepeats(front)
<1> DEFINE front == SubSeq(q, 1, Len(q) - 1)
<1>1. Len(q) \in Nat \ {0} /\ \A i \in 1 .. Len(q) : q[i] \in S
  BY EmptySeq, ElementOfSeq
<1>2. /\ front \in Seq(S) /\ Len(front) = Len(q) - 1
      /\ \A i \in 1 .. Len(q) - 1 : front[i] = q[i]
  <2>1. PICK n \in Int, m \in Int : n = Len(q) - 1 /\ m = 1
    BY <1>1
  <2>2. \A i \in m .. n : q[i] \in S
    BY <1>1, <2>1
  <2>3. /\ SubSeq(q, m, n) \in Seq(S)
        /\ Len(SubSeq(q, m, n)) = IF m <= n THEN n - m + 1 ELSE 0
        /\ \A i \in 1 .. n - m + 1 : SubSeq(q, m, n)[i] = q[m + i - 1]
    BY <2>2, CutFacts, Zenon
  <2>4. QED
    BY <1>1, <2>1, <2>3
<1> HIDE DEF front
<1>3. q[Len(q)] \in Members(q) /\ q[Len(q)] \in S
  BY <1>1 DEF Members
<1>4. NoRepeats(front)
  BY <1>1, <1>2 DEF NoRepeats
<1>5. Members(front) = Members(q) \ {q[Len(q)]}
  BY <1>1, <1>2 DEF Members, NoRepeats
<1>6. QED
  BY <1>2, <1>3, <1>4, <1>5 DEF front

(* Taking out the one in place k.                                          *)
LEMMA LeaveFacts ==
  ASSUME NEW S, NEW q \in Seq(S), NoRepeats(q), NEW k \in 1 .. Len(q)
  PROVE  LET rest == SubSeq(q, 1, k - 1) \o SubSeq(q, k + 1, Len(q))
         IN  /\ rest \in Seq(S) /\ Len(rest) = Len(q) - 1
             /\ \A i \in 1 .. k - 1 : rest[i] = q[i]
             /\ \A i \in k .. Len(q) - 1 : rest[i] = q[i + 1]
             /\ Members(rest) = Members(q) \ {q[k]}
             /\ NoRepeats(rest)
<1> DEFINE before == SubSeq(q, 1, k - 1)
           after == SubSeq(q, k + 1, Len(q))
           rest == before \o after
<1>1. Len(q) \in Nat /\ k \in Nat /\ \A i \in 1 .. Len(q) : q[i] \in S
  BY LenProperties, ElementOfSeq
<1>2. /\ before \in Seq(S) /\ Len(before) = k - 1
      /\ \A i \in 1 .. k - 1 : before[i] = q[i]
  <2>1. PICK n \in Int, m \in Int : n = k - 1 /\ m = 1
    BY <1>1
  <2>2. \A i \in m .. n : q[i] \in S
    BY <1>1, <2>1
  <2>3. /\ SubSeq(q, m, n) \in Seq(S)
        /\ Len(SubSeq(q, m, n)) = IF m <= n THEN n - m + 1 ELSE 0
        /\ \A i \in 1 .. n - m + 1 : SubSeq(q, m, n)[i] = q[m + i - 1]
    BY <2>2, CutFacts, Zenon
  <2>4. QED
    BY <1>1, <2>1, <2>3
<1>3. /\ after \in Seq(S) /\ Len(after) = Len(q) - k
      /\ \A i \in 1 .. Len(q) - k : after[i] = q[k + i]
  <2>1. PICK m \in Int : m = k + 1
    BY <1>1
  <2>2. Len(q) \in Int /\ \A i \in m .. Len(q) : q[i] \in S
    BY <1>1, <2>1
  <2>3. /\ SubSeq(q, m, Len(q)) \in Seq(S)
        /\ Len(SubSeq(q, m, Len(q))) =
             IF m <= Len(q) THEN Len(q) - m + 1 ELSE 0
        /\ \A i \in 1 .. Len(q) - m + 1 :
             SubSeq(q, m, Len(q))[i] = q[m + i - 1]
    BY <2>2, CutFacts, Zenon
  <2>4. QED
    BY <1>1, <2>1, <2>3
<1> HIDE DEF before, after
<1>4. /\ rest \in Seq(S) /\ Len(rest) = Len(q) - 1
      /\ \A i \in 1 .. k - 1 : rest[i] = q[i]
      /\ \A i \in k .. Len(q) - 1 : rest[i] = q[i + 1]
  <2>0. /\ rest \in Seq(S) /\ Len(rest) = Len(before) + Len(after)
        /\ \A i \in 1 .. Len(before) + Len(after) :
             rest[i] = IF i <= Len(before) THEN before[i]
                       ELSE after[i - Len(before)]
    <3>1. before \in Seq(S) /\ after \in Seq(S)
      BY <1>2, <1>3
    <3>2. QED
      BY <3>1
  <2>1. /\ rest \in Seq(S) /\ Len(rest) = (k - 1) + (Len(q) - k)
        /\ \A i \in 1 .. (k - 1) + (Len(q) - k) :
             rest[i] = IF i <= k - 1 THEN before[i] ELSE after[i - (k - 1)]
    BY <1>2, <1>3, <2>0, Zenon
  <2>2. ASSUME NEW i \in k .. Len(q) - 1
        PROVE  rest[i] = q[i + 1]
    <3>1. PICK m \in Int : m = i - (k - 1)
      BY <1>1
    <3>2. m \in 1 .. Len(q) - k /\ k + m = i + 1
          /\ i \in 1 .. (k - 1) + (Len(q) - k) /\ ~ (i <= k - 1)
      BY <1>1, <3>1
    <3>3. QED
      BY <1>3, <2>1, <3>1, <3>2
  <2>3. QED
    BY <1>1, <1>2, <2>1, <2>2
<1> HIDE DEF rest
<1>5. NoRepeats(rest)
  <2>1. ASSUME NEW i \in 1 .. Len(rest)
        PROVE  \E m \in 1 .. Len(q) :
                 /\ m = (IF i < k THEN i ELSE i + 1)
                 /\ rest[i] = q[m]
    <3>1. CASE i < k
      <4>1. i \in 1 .. k - 1 /\ i \in 1 .. Len(q)
        BY <1>1, <1>4, <3>1
      <4>2. QED
        BY <1>4, <3>1, <4>1
    <3>2. CASE ~ (i < k)
      <4>1. i \in k .. Len(q) - 1 /\ i + 1 \in 1 .. Len(q)
        BY <1>1, <1>4, <3>2
      <4>2. rest[i] = q[i + 1]
        BY <1>4, <4>1
      <4>3. QED
        BY <3>2, <4>1, <4>2
    <3>3. QED
      BY <3>1, <3>2
  <2>2. ASSUME NEW i \in 1 .. Len(rest), NEW j \in 1 .. Len(rest),
               rest[i] = rest[j]
        PROVE  i = j
    <3>1. PICK m \in 1 .. Len(q) : m = (IF i < k THEN i ELSE i + 1)
                                   /\ rest[i] = q[m]
      BY <2>1
    <3>2. PICK n \in 1 .. Len(q) : n = (IF j < k THEN j ELSE j + 1)
                                   /\ rest[j] = q[n]
      BY <2>1
    <3>3. m = n
      BY <2>2, <3>1, <3>2 DEF NoRepeats
    <3>4. QED
      BY <1>1, <1>4, <3>1, <3>2, <3>3
  <2>3. QED
    BY <2>2 DEF NoRepeats
<1>6. Members(rest) = Members(q) \ {q[k]}
  <2>1. ASSUME NEW x \in Members(rest)
        PROVE  x \in Members(q) /\ x # q[k]
    <3>1. PICK i \in 1 .. Len(q) - 1 : x = rest[i]
      BY <1>4, <2>1 DEF Members
    <3>2. PICK m \in 1 .. Len(q) : m # k /\ x = q[m]
      BY <1>1, <1>4, <3>1
    <3>3. QED
      BY <3>2 DEF Members, NoRepeats
  <2>2. ASSUME NEW x \in Members(q), x # q[k]
        PROVE  x \in Members(rest)
    <3>1. PICK m \in 1 .. Len(q) : x = q[m] /\ m # k
      BY <2>2 DEF Members
    <3>2. PICK i \in Int : i = (IF m < k THEN m ELSE m - 1)
      BY <1>1
    <3>3. i \in 1 .. Len(rest) /\ rest[i] = q[m]
      BY <1>1, <1>4, <3>1, <3>2
    <3>4. QED
      BY <3>1, <3>3 DEF Members
  <2>3. QED
    BY <2>1, <2>2
<1>7. QED
  BY <1>4, <1>5, <1>6 DEF rest, before, after
-----------------------------------------------------------------------------
(* Counting in queues.                                                     *)

LEMMA AmongFinite ==
  ASSUME NEW q, NEW m \in Nat, NEW t
  PROVE  IsFiniteSet(Among(q, m, t)) /\ Cardinality(Among(q, m, t)) \in Nat
<1>1. IsFiniteSet(1 .. m)
  BY FS_Interval
<1>2. IsFiniteSet(Among(q, m, t))
  BY <1>1, FS_Subset DEF Among
<1>3. QED
  BY <1>2, FS_CardinalityType

LEMMA AmongNone ==
  ASSUME NEW q, NEW t
  PROVE  Cardinality(Among(q, 0, t)) = 0
<1>1. Among(q, 0, t) = {}
  BY DEF Among
<1>2. QED
  BY <1>1, FS_EmptySet

LEMMA AmongNext ==
  ASSUME NEW q, NEW m \in Nat, NEW t
  PROVE  Cardinality(Among(q, m + 1, t)) =
           Cardinality(Among(q, m, t)) + IF q[m + 1] = t THEN 1 ELSE 0
<1>1. IsFiniteSet(Among(q, m, t)) /\ Cardinality(Among(q, m, t)) \in Nat
  BY AmongFinite
<1>2. CASE q[m + 1] = t
  <2>1. Among(q, m + 1, t) = Among(q, m, t) \cup {m + 1}
    BY <1>2 DEF Among
  <2>2. m + 1 \notin Among(q, m, t)
    BY DEF Among
  <2>3. QED
    BY <1>1, <1>2, <2>1, <2>2, FS_AddElement
<1>3. CASE q[m + 1] # t
  <2>1. Among(q, m + 1, t) = Among(q, m, t)
    BY <1>3 DEF Among
  <2>2. QED
    BY <1>1, <1>3, <2>1
<1>4. QED
  BY <1>2, <1>3

(* Counting goes up along a queue.                                         *)
LEMMA AmongGrows ==
  ASSUME NEW q, NEW m \in Nat, NEW n \in Nat, NEW t, m < n, q[n] = t
  PROVE  Cardinality(Among(q, m, t)) < Cardinality(Among(q, n, t))
<1>1. IsFiniteSet(Among(q, n, t)) /\ Cardinality(Among(q, n, t)) \in Nat
  BY AmongFinite
<1>2. /\ Among(q, m, t) \subseteq Among(q, n, t) \ {n}
      /\ n \in Among(q, n, t)
  BY DEF Among
<1>3. /\ IsFiniteSet(Among(q, n, t) \ {n})
      /\ Cardinality(Among(q, n, t) \ {n}) = Cardinality(Among(q, n, t)) - 1
  BY <1>1, <1>2, FS_RemoveElement
<1>4. Cardinality(Among(q, m, t)) <= Cardinality(Among(q, n, t) \ {n})
  BY <1>2, <1>3, FS_Subset
<1>5. Cardinality(Among(q, m, t)) \in Nat
  BY AmongFinite
<1>6. QED
  BY <1>1, <1>3, <1>4, <1>5

LEMMA AmongMonotone ==
  ASSUME NEW q, NEW m \in Nat, NEW n \in Nat, NEW t, m <= n
  PROVE  Cardinality(Among(q, m, t)) <= Cardinality(Among(q, n, t))
<1>1. IsFiniteSet(Among(q, n, t))
  BY AmongFinite
<1>2. Among(q, m, t) \subseteq Among(q, n, t)
  BY DEF Among
<1>3. QED
  BY <1>1, <1>2, FS_Subset

(* Taking the head off, everything moves one place to the front.           *)
LEMMA AmongTail ==
  ASSUME NEW S, NEW q \in Seq(S), q # <<>>, NEW m \in 0 .. Len(q) - 1, NEW t
  PROVE  Cardinality(Among(q, m + 1, t)) =
           Cardinality(Among(Tail(q), m, t)) + IF Head(q) = t THEN 1 ELSE 0
<1>1. /\ m \in Nat /\ Len(q) \in Nat \ {0} /\ Head(q) = q[1]
      /\ \A i \in 1 .. m : Tail(q)[i] = q[i + 1]
  BY HeadTailProperties, EmptySeq
<1> DEFINE rest == Among(q, m + 1, t) \ {1}
           f == [i \in Among(Tail(q), m, t) |-> i + 1]
<1>2. IsFiniteSet(Among(Tail(q), m, t)) /\ IsFiniteSet(Among(q, m + 1, t))
  BY <1>1, AmongFinite
<1>3. f \in Bijection(Among(Tail(q), m, t), rest)
  <2>1. ASSUME NEW i \in Among(Tail(q), m, t)
        PROVE  i + 1 \in rest /\ i \in Nat
    BY <1>1, <2>1 DEF Among
  <2>2. ASSUME NEW j \in rest
        PROVE  j - 1 \in Among(Tail(q), m, t) /\ f[j - 1] = j
    <3>1. j \in 1 .. m + 1 /\ j # 1 /\ q[j] = t
      BY DEF Among
    <3>2. j - 1 \in 1 .. m /\ (j - 1) + 1 = j
      BY <1>1, <3>1
    <3>3. Tail(q)[j - 1] = t
      BY <1>1, <3>1, <3>2
    <3>4. QED
      BY <3>2, <3>3 DEF Among
  <2>3. f \in Surjection(Among(Tail(q), m, t), rest)
    BY <2>1, <2>2 DEF Surjection
  <2>4. f \in Injection(Among(Tail(q), m, t), rest)
    BY <2>1 DEF Injection, IsInjective
  <2>5. QED
    BY <2>3, <2>4 DEF Bijection
<1>4. Cardinality(rest) = Cardinality(Among(Tail(q), m, t))
  BY <1>2, <1>3, FS_Bijection DEF ExistsBijection
<1>5. 1 \in Among(q, m + 1, t) <=> Head(q) = t
  BY <1>1 DEF Among
<1>6. /\ Cardinality(Among(q, m + 1, t)) \in Nat
      /\ Cardinality(rest) = IF 1 \in Among(q, m + 1, t)
                             THEN Cardinality(Among(q, m + 1, t)) - 1
                             ELSE Cardinality(Among(q, m + 1, t))
  BY <1>2, FS_RemoveElement, FS_CardinalityType
<1>7. QED
  BY <1>4, <1>5, <1>6

LEMMA CountFacts ==
  ASSUME NEW S, NEW q \in Seq(S), NEW t
  PROVE  /\ Count(q, t) \in Nat
         /\ q = <<>> => Count(q, t) = 0
         /\ \A x \in S : Count(Append(q, x), t) =
                           Count(q, t) + IF x = t THEN 1 ELSE 0
         /\ q # <<>> => Count(q, t) =
                          Count(Tail(q), t) + IF Head(q) = t THEN 1 ELSE 0
<1>1. Len(q) \in Nat
  OBVIOUS
<1>2. Count(q, t) \in Nat
  BY <1>1, AmongFinite DEF Count
<1>3. q = <<>> => Count(q, t) = 0
  BY AmongNone DEF Count
<1>4. ASSUME NEW x \in S
      PROVE  Count(Append(q, x), t) = Count(q, t) + IF x = t THEN 1 ELSE 0
  <2>1. /\ Len(Append(q, x)) = Len(q) + 1
        /\ Append(q, x)[Len(q) + 1] = x
        /\ \A i \in 1 .. Len(q) : Append(q, x)[i] = q[i]
    OBVIOUS
  <2>2. Among(Append(q, x), Len(q), t) = Among(q, Len(q), t)
    BY <2>1 DEF Among
  <2>3. Cardinality(Among(Append(q, x), Len(q) + 1, t)) =
          Cardinality(Among(Append(q, x), Len(q), t))
            + IF Append(q, x)[Len(q) + 1] = t THEN 1 ELSE 0
    BY <1>1, AmongNext
  <2>4. Count(Append(q, x), t)
          = Cardinality(Among(Append(q, x), Len(q) + 1, t))
    BY <2>1 DEF Count
  <2>5. QED
    BY <2>1, <2>2, <2>3, <2>4 DEF Count
<1>5. ASSUME q # <<>>
      PROVE  Count(q, t) =
               Count(Tail(q), t) + IF Head(q) = t THEN 1 ELSE 0
  <2>1. PICK m : m = Len(q) - 1
    OBVIOUS
  <2>2. m \in 0 .. Len(q) - 1 /\ m + 1 = Len(q) /\ Len(Tail(q)) = m
    BY <1>1, <1>5, <2>1, HeadTailProperties, EmptySeq
  <2>3. QED
    BY <1>5, <2>2, AmongTail DEF Count
<1>6. QED
  BY <1>2, <1>3, <1>4, <1>5

-----------------------------------------------------------------------------
(* Room in queues.                                                         *)

LEMMA PlacesFinite ==
  ASSUME NEW T, IsFiniteSet(T), NEW capacity,
         \A t \in T : capacity[t] \in Nat
  PROVE  /\ IsFiniteSet(PlacesOf(T, capacity))
         /\ Cardinality(PlacesOf(T, capacity)) \in Nat
<1> DEFINE Place(t) == {t} \X (1 .. capacity[t])
           f == [t \in T |-> Place(t)]
           Parts == {Place(t) : t \in T}
<1>1. f \in Surjection(T, Parts)
  BY DEF Surjection
<1>2. IsFiniteSet(Parts)
  BY <1>1, FS_Surjection
<1>3. ASSUME NEW t \in T
      PROVE  IsFiniteSet(Place(t))
  <2>1. capacity[t] \in Int /\ 1 \in Int
    OBVIOUS
  <2>2. IsFiniteSet(1 .. capacity[t]) /\ IsFiniteSet({t})
    BY <2>1, FS_Interval, FS_Singleton, Zenon
  <2>3. QED
    BY <2>2, FS_Product
<1>4. IsFiniteSet(UNION Parts)
  BY <1>2, <1>3, FS_UNION
<1>5. IsFiniteSet(PlacesOf(T, capacity))
  BY <1>4 DEF PlacesOf
<1>6. QED
  BY <1>5, FS_CardinalityType

(* Everyone who is in the queue has a place of its own, and u one that it  *)
(* does not occupy.                                                        *)
LEMMA RoomLeft ==
  ASSUME NEW T, IsFiniteSet(T), NEW capacity, NEW q, NEW u,
         RoomIn(q, T, capacity, u)
  PROVE  Len(q) < Cardinality(PlacesOf(T, capacity))
<1>1. /\ q \in Seq(T) /\ Len(q) \in Nat /\ u \in T
      /\ \A t \in T : capacity[t] \in Nat /\ Count(q, t) <= capacity[t]
      /\ Count(q, u) < capacity[u] /\ Count(q, u) \in Nat
  BY CountFacts DEF RoomIn
<1>2. PICK n : n = Len(q)
  OBVIOUS
<1> DEFINE rank(i) == Cardinality(Among(q, i, q[i]))
           last == <<u, capacity[u]>>
           rest == PlacesOf(T, capacity) \ {last}
           f == [i \in 1 .. n |-> <<q[i], rank(i)>>]
<1>3. ASSUME NEW i \in 1 .. n
      PROVE  /\ q[i] \in T /\ rank(i) \in 1 .. capacity[q[i]]
             /\ q[i] = u => rank(i) < capacity[u]
  <2>1. PICK t : t = q[i]
    OBVIOUS
  <2>2. t \in T /\ i \in Nat /\ i - 1 \in Nat /\ i - 1 < i /\ i <= n
    BY <1>1, <1>2, <2>1, ElementOfSeq
  <2>3. Cardinality(Among(q, i - 1, t)) < Cardinality(Among(q, i, t))
    BY <2>1, <2>2, AmongGrows
  <2>4. /\ Cardinality(Among(q, i - 1, t)) \in Nat
        /\ Cardinality(Among(q, i, t)) \in Nat /\ Count(q, t) \in Nat
    BY <1>1, <2>2, AmongFinite, CountFacts
  <2>5. Cardinality(Among(q, i, t)) <= Count(q, t)
    BY <1>1, <1>2, <2>2, AmongMonotone DEF Count
  <2>6. QED
    BY <1>1, <2>1, <2>2, <2>3, <2>4, <2>5
<1>4. f \in Injection(1 .. n, rest)
  <2>1. ASSUME NEW i \in 1 .. n
        PROVE  f[i] \in rest
    <3>1. f[i] \in PlacesOf(T, capacity)
      BY <1>3 DEF PlacesOf
    <3>2. f[i] # last
      <4>1. SUFFICES ASSUME q[i] = u, rank(i) = capacity[u] PROVE FALSE
        OBVIOUS
      <4>2. rank(i) < capacity[u] /\ capacity[u] \in Nat
        BY <1>1, <1>3, <4>1
      <4>3. QED
        BY <4>1, <4>2
    <3>3. QED
      BY <3>1, <3>2
  <2>2. ASSUME NEW i \in 1 .. n, NEW j \in 1 .. n, i < j, q[i] = q[j]
        PROVE  rank(i) # rank(j)
    <3>1. i \in Nat /\ j \in Nat
      BY <1>1, <1>2
    <3>2. rank(i) < rank(j)
      BY <2>2, <3>1, AmongGrows
    <3>3. rank(i) \in Nat /\ rank(j) \in Nat
      BY <3>1, AmongFinite
    <3>4. QED
      BY <3>2, <3>3
  <2>3. ASSUME NEW i \in 1 .. n, NEW j \in 1 .. n, f[i] = f[j]
        PROVE  i = j
    <3>1. q[i] = q[j] /\ rank(i) = rank(j)
      BY <2>3
    <3>2. i \in Nat /\ j \in Nat
      BY <1>1, <1>2
    <3>3. i < j \/ j < i \/ i = j
      BY <3>2
    <3>4. ~ (i < j) /\ ~ (j < i)
      BY <2>2, <3>1, Zenon
    <3>5. QED
      BY <3>3, <3>4
  <2>4. f \in [1 .. n -> rest]
    BY <2>1
  <2>5. QED
    BY <2>3, <2>4, Zenon DEF Injection, IsInjective
<1> HIDE DEF f
<1>5. last \in PlacesOf(T, capacity)
  <2>1. capacity[u] \in 1 .. capacity[u]
    BY <1>1
  <2>2. QED
    BY <1>1, <2>1 DEF PlacesOf
<1>6. /\ IsFiniteSet(PlacesOf(T, capacity))
      /\ Cardinality(PlacesOf(T, capacity)) \in Nat
  <2>1. \A t \in T : capacity[t] \in Nat
    BY <1>1
  <2>2. QED
    BY <2>1, PlacesFinite
<1>7. /\ IsFiniteSet(rest)
      /\ Cardinality(rest) = Cardinality(PlacesOf(T, capacity)) - 1
  BY <1>5, <1>6, FS_RemoveElement
<1>8. Cardinality(1 .. n) <= Cardinality(rest)
  BY <1>4, <1>7, FS_Injection
<1>9. Cardinality(1 .. n) = n
  <2>1. n \in Int /\ 1 \in Int /\ n \in Nat
    BY <1>1, <1>2
  <2>2. Cardinality(1 .. n) = IF 1 > n THEN 0 ELSE n - 1 + 1
    BY <2>1, FS_Interval, Zenon
  <2>3. QED
    BY <2>1, <2>2
<1>10. QED
  BY <1>1, <1>2, <1>6, <1>7, <1>8, <1>9
=============================================================================
