-------------------------- MODULE SourceMaskProofs --------------------------
(***************************************************************************)
(* Which applications source masking is sound for, and that it is: mutual  *)
(* exclusion and exact masks for all of them, whatever their tasks,        *)
(* resources and nesting depth.                                            *)
(***************************************************************************)
EXTENDS SourceMaskLock, Lemmas

(* a locks r by disabling interrupts.                                      *)
Masks(a, r) == CorePriority(a) < Ceiling[r] /\ Ceiling[r] < 4

(* An exception has no bit to disable.  One that may preempt a closure     *)
(* must not use the resource, and what it locks itself must lie above the  *)
(* levels that the closure has disabled.                                   *)
ExceptionsApart ==
  \A e \in Exceptions, a \in Actors : \A r \in Uses[a] :
    Masks(a, r) /\ CorePriority(a) < CorePriority(e) =>
      Ceiling[r] <= CorePriority(e) /\ r \notin Uses[e]

(* Unlocking enables what it disabled, also when an outer lock had         *)
(* disabled it before: a nested lock must not disable anything.            *)
MasksNotNested ==
  \A a \in Actors : \A r, q \in Uses[a] : <<r, q>> \in Nests => ~ Masks(a, q)

(* The applications that lock protects on a device with 4 levels.          *)
Suits ==
  /\ NvicPrioBits = 2
  /\ WellPrioritised
  /\ CorePriority(Idle) = 0
  /\ ExceptionsApart
  /\ MasksNotNested

Calls(a) == 1 .. Len(locks[a])
ResAt(a, i) == locks[a][i].res
HowAt(a, i) == locks[a][i].how
MaskAt(a, i) == locks[a][i].mask
SavedAt(a, i) == locks[a][i].saved

-----------------------------------------------------------------------------
(* The inductive invariant.                                                *)

(* How a closure was entered, and what it has disabled, is decided by the  *)
(* static priorities; only the outermost one has disabled anything.        *)
CallsOK ==
  \A a \in Actors : \A i \in Calls(a) :
    /\ Active(a)
    /\ ResAt(a, i) \in Uses[a]
    /\ HowAt(a, i) = "none" => Ceiling[ResAt(a, i)] <= CorePriority(a)
    /\ HowAt(a, i) = "mask" =>
         /\ Masks(a, ResAt(a, i)) /\ i = 1
         /\ MaskAt(a, i) = compute_mask(CorePriority(a), Ceiling[ResAt(a, i)])
    /\ HowAt(a, i) # "mask" => MaskAt(a, i) = {}

(* No two active actors have the same priority.                            *)
Nested ==
  \A a, b \in Actors : Active(a) /\ Active(b) /\ a # b =>
    ExecPriority[a] # ExecPriority[b]

(* Who preempted an actor inside closures uses none of their resources,    *)
(* found PRIMASK clear, and is not below a ceiling that was masked.        *)
AboveCalls ==
  \A a, b \in Actors : Active(a) /\ ExecPriority[a] < ExecPriority[b] =>
    \A i \in Calls(b) :
      /\ ResAt(b, i) \notin Uses[a]
      /\ HowAt(b, i) # "free"
      /\ HowAt(b, i) = "mask" => Ceiling[ResAt(b, i)] <= CorePriority(a)

(* PRIMASK is set while a closure runs in interrupt::free, and what such a *)
(* closure will restore is whether there is another one around it.         *)
PrimaskOK ==
  /\ primask = 1 <=> \E a \in Actors : \E i \in Calls(a) : HowAt(a, i) = "free"
  /\ \A a \in Actors : \A i \in Calls(a) : HowAt(a, i) = "free" =>
       (SavedAt(a, i) = 1
          <=> \E j \in Calls(a) : j < i /\ HowAt(a, j) = "free")

(* MaskExact, bit by bit.                                                  *)
BitsExact ==
  \A t \in Interrupts :
    t \in enabled
      <=> \A a \in Actors : \A i \in Calls(a) : t \notin MaskAt(a, i)

IInv ==
  /\ TypeOK
  /\ CallsOK
  /\ Nested
  /\ AboveCalls
  /\ PrimaskOK
  /\ BitsExact

-----------------------------------------------------------------------------
(* Facts about the constants.                                              *)

LEMMA FourLevels ==
  ASSUME NvicPrioBits = 2
  PROVE  /\ Levels = 4
         /\ \A k \in 1 .. 4 : cortex_logical2hw(k) = (4 - k) * 64
<1>1. Levels = 4 /\ Shift = 64
  BY DEF Levels, Shift, Pow2
<1>2. QED
  BY <1>1 DEF cortex_logical2hw

(* The ceiling is in the range of the device, and at least the priority of *)
(* every task that uses the resource.                                      *)
LEMMA CeilingFacts ==
  ASSUME NvicPrioBits = 2, WellPrioritised, NEW r \in Resources
  PROVE  /\ Ceiling[r] \in 0 .. 4
         /\ \A t \in Tasks : r \in Uses[t] => CorePriority(t) <= Ceiling[r]
<1> DEFINE Users == {t \in Tasks : r \in Uses[t]}
           IsMax(c) ==
             /\ \A t \in Tasks : r \in Uses[t] => CorePriority(t) <= c
             /\ \/ c = 0
                \/ \E t \in Tasks : r \in Uses[t] /\ CorePriority(t) = c
<1>1. \A t \in Tasks : CorePriority(t) \in 1 .. 4
  BY FourLevels DEF WellPrioritised
<1>2. PICK c :
        /\ c \in 0 .. 4
        /\ \A u \in Users : CorePriority(u) <= c
        /\ (c = 0 \/ \E u \in Users : CorePriority(u) = c)
  <2>1. PICK p : /\ p \in [Users -> 1 .. 4]
                 /\ \A u \in Users : p[u] = CorePriority(u)
    <3>1. [u \in Users |-> CorePriority(u)] \in [Users -> 1 .. 4]
      BY <1>1
    <3>2. \A u \in Users : [v \in Users |-> CorePriority(v)][u] = CorePriority(u)
      OBVIOUS
    <3>3. QED
      BY <3>1, <3>2, Zenon
  <2>2. 4 \in Nat
    OBVIOUS
  <2>3. PICK d \in 0 .. 4 :
          /\ \A u \in Users : p[u] <= d
          /\ (d = 0 \/ \E u \in Users : p[u] = d)
    <3> HIDE DEF Users
    <3>1. QED
      BY <2>1, <2>2, Maximum
  <2>4. \A u \in Users : CorePriority(u) <= d
    <3>1. ASSUME NEW u \in Users
          PROVE  CorePriority(u) <= d
      <4>1. p[u] = CorePriority(u) /\ p[u] <= d
        BY <2>1, <2>3, Zenon
      <4>2. QED
        BY <4>1
    <3>2. QED
      BY <3>1
  <2>5. ASSUME NEW u \in Users, p[u] = d
        PROVE  CorePriority(u) = d
    BY <2>1, <2>5, Zenon
  <2>6. QED
    BY <2>3, <2>4, <2>5, Zenon
<1>3. c \in 0 .. MaxU16
  BY <1>2, SMT DEF MaxU16
<1>4. IsMax(c)
  BY <1>2
<1>5. c \in 0 .. MaxU16 /\ IsMax(c)
  BY <1>3, <1>4, Zenon
<1>6. Ceiling[r] = CHOOSE d \in 0 .. MaxU16 : IsMax(d)
  BY DEF Ceiling
<1>7. Ceiling[r] \in 0 .. MaxU16 /\ IsMax(Ceiling[r])
  BY <1>5, <1>6, Zenon
<1>8. Ceiling[r] \in 0 .. 4
  <2>1. CASE Ceiling[r] = 0
    BY <2>1
  <2>2. CASE \E t \in Tasks : r \in Uses[t] /\ CorePriority(t) = Ceiling[r]
    BY <1>1, <2>2
  <2>3. QED
    BY <1>7, <2>1, <2>2
<1>9. QED
  BY <1>7, <1>8

LEMMA Priorities ==
  ASSUME Suits
  PROVE  /\ \A t \in Tasks : /\ CorePriority(t) \in 1 .. 4
                             /\ IrqPriority(t) = CorePriority(t)
         /\ \A a \in Actors : CorePriority(a) \in 0 .. 4
         /\ \A a, b \in Actors :
              ExecPriority[a] < ExecPriority[b]
                <=> CorePriority(b) < CorePriority(a)
         /\ \A a \in Actors : ExecPriority[a] \in 0 .. 256
         /\ \A r \in Resources : Ceiling[r] \in 0 .. 4
         /\ \A t \in Tasks : \A r \in Uses[t] : CorePriority(t) <= Ceiling[r]
<1>1. NvicPrioBits = 2 /\ Levels = 4
  BY FourLevels DEF Suits
<1>2. \A t \in Tasks : /\ CorePriority(t) \in 1 .. 4
                       /\ IrqPriority(t) = CorePriority(t)
  BY <1>1 DEF Suits, WellPrioritised
<1>3. CorePriority(Idle) = 0
  BY DEF Suits
<1>4. \A a \in Actors : CorePriority(a) \in 0 .. 4
  BY <1>2, <1>3 DEF Actors
<1>5. \A k \in 1 .. 4 : cortex_logical2hw(k) = (4 - k) * 64
  BY <1>1, FourLevels
<1>6. \A a \in Actors : ExecPriority[a] = (4 - CorePriority(a)) * 64
  <2>1. ExecPriority[Idle] = 256
    BY DEF ExecPriority, Actors, ThreadMode
  <2>2. ASSUME NEW t \in Tasks
        PROVE  ExecPriority[t] = cortex_logical2hw(CorePriority(t))
    BY <1>2, CoreAssumption DEF ExecPriority, Actors
  <2>3. QED
    BY <1>2, <1>3, <1>5, <2>1, <2>2 DEF Actors
<1>7. Suits => WellPrioritised
  BY DEF Suits
<1>8. \A r \in Resources : Ceiling[r] \in 0 .. 4
  BY <1>1, <1>7, CeilingFacts, Zenon
<1>9. \A t \in Tasks : \A r \in Uses[t] : CorePriority(t) <= Ceiling[r]
  <2>1. \A t \in Tasks : Uses[t] \subseteq Resources
    BY CoreAssumption DEF Actors
  <2>2. QED
    BY <1>1, <1>7, <2>1, CeilingFacts
<1>10. QED
  BY <1>2, <1>4, <1>6, <1>8, <1>9

(* A mask is the interrupts above the task, up to the ceiling.             *)
LEMMA MaskIs ==
  ASSUME Suits, NEW from \in 0 .. 4, NEW to \in 0 .. 3
  PROVE  compute_mask(from, to) =
           {t \in Interrupts : from < CorePriority(t) /\ CorePriority(t) <= to}
<1>1. \A t \in Interrupts : /\ CorePriority(t) \in 1 .. 4
                            /\ IrqPriority(t) = CorePriority(t)
  BY Priorities DEF Interrupts
<1>2. \A level \in (from + 1) .. to :
        MASKS[level] = {t \in Interrupts : CorePriority(t) = level}
  BY <1>1 DEF MASKS
<1>3. ASSUME NEW t
      PROVE  t \in compute_mask(from, to)
               <=> \E level \in (from + 1) .. to : t \in MASKS[level]
  BY Zenon DEF compute_mask
<1>4. ASSUME NEW t
      PROVE  (\E level \in (from + 1) .. to : t \in MASKS[level])
               <=> /\ t \in Interrupts
                   /\ from < CorePriority(t) /\ CorePriority(t) <= to
  BY <1>1, <1>2
<1>5. QED
  BY <1>3, <1>4

-----------------------------------------------------------------------------
(* A call is entered at the end of an actor's calls and left from there.   *)

LEMMA CallTypes ==
  ASSUME TypeOK, NEW a \in Actors
  PROVE  /\ locks[a] \in Seq(LockCall)
         /\ Len(locks[a]) \in Nat
         /\ \A i \in Calls(a) : locks[a][i] \in LockCall
  BY DEF TypeOK, Calls

LEMMA ButLastFacts ==
  ASSUME NEW S, NEW s \in Seq(S), s # <<>>
  PROVE  /\ ButLast(s) \in Seq(S)
         /\ Len(ButLast(s)) = Len(s) - 1
         /\ \A i \in 1 .. Len(s) - 1 : ButLast(s)[i] = s[i]
<1>1. Len(s) \in Nat \ {0} /\ \A i \in 1 .. Len(s) : s[i] \in S
  OBVIOUS
<1>2. ButLast(s) \in Seq(S) /\ ButLast(s) = SubSeq(s, 1, Len(s) - 1)
  BY <1>1 DEF ButLast
<1>3. Len(ButLast(s)) = Len(s) - 1
  <2>1. ASSUME NEW m \in Int, m = Len(s) - 1
        PROVE  Len(SubSeq(s, 1, m)) = m
    BY <1>1, <2>1
  <2>2. Len(s) - 1 \in Int
    BY <1>1
  <2>3. QED
    BY <1>2, <2>1, <2>2, Zenon
<1>4. \A i \in 1 .. Len(s) - 1 : ButLast(s)[i] = s[i]
  BY <1>1 DEF ButLast
<1>5. QED
  BY <1>2, <1>3, <1>4

LEMMA EnterFacts ==
  ASSUME TypeOK, NEW a \in Actors, NEW r \in Resources,
         NEW how \in {"none", "free", "mask"}, NEW saved \in {0, 1},
         NEW mask \in SUBSET Tasks, Enter(a, r, how, saved, mask),
         NEW n, n = Len(locks[a]) + 1
  PROVE  /\ locks' \in [Actors -> Seq(LockCall)]
         /\ n \in Nat
         /\ \A b \in Actors : \A i \in Calls(b)' :
              IF b = a /\ i = n
              THEN /\ ResAt(b, i)' = r /\ HowAt(b, i)' = how
                   /\ SavedAt(b, i)' = saved /\ MaskAt(b, i)' = mask
              ELSE /\ i \in Calls(b)
                   /\ ResAt(b, i)' = ResAt(b, i)
                   /\ HowAt(b, i)' = HowAt(b, i)
                   /\ SavedAt(b, i)' = SavedAt(b, i)
                   /\ MaskAt(b, i)' = MaskAt(b, i)
         /\ \A b \in Actors : Calls(b) \subseteq Calls(b)'
         /\ n \in Calls(a)' /\ n \notin Calls(a)
         /\ \A i \in Calls(a) : i < n
<1> DEFINE call == [res |-> r, how |-> how, saved |-> saved, mask |-> mask]
<1>1. call \in LockCall
  BY DEF LockCall
<1>2. locks[a] \in Seq(LockCall) /\ Len(locks[a]) \in Nat
  BY CallTypes
<1>3. locks' = [locks EXCEPT ![a] = Append(locks[a], call)]
  BY DEF Enter
<1>4. /\ locks'[a] = Append(locks[a], call)
      /\ \A b \in Actors : b # a => locks'[b] = locks[b]
      /\ locks' \in [Actors -> Seq(LockCall)]
  BY <1>1, <1>2, <1>3 DEF TypeOK
<1> HIDE DEF call
<1>5. /\ Len(locks'[a]) = n
      /\ \A i \in 1 .. n - 1 : locks'[a][i] = locks[a][i]
      /\ locks'[a][n] = call
      /\ n \in Nat
  BY <1>1, <1>2, <1>4
<1>6. \A b \in Actors : \A i \in Calls(b)' :
        IF b = a /\ i = n THEN locks'[b][i] = call
        ELSE i \in Calls(b) /\ locks'[b][i] = locks[b][i]
  <2>1. ASSUME NEW b \in Actors, b # a
        PROVE  Calls(b)' = Calls(b) /\ locks'[b] = locks[b]
    BY <1>4, <2>1 DEF Calls
  <2>2. Calls(a)' = 1 .. n /\ Calls(a) = 1 .. n - 1
    BY <1>2, <1>5 DEF Calls
  <2>3. \A i \in Calls(a)' :
          IF i = n THEN locks'[a][i] = call
          ELSE i \in Calls(a) /\ locks'[a][i] = locks[a][i]
    BY <1>5, <2>2
  <2>4. QED
    BY <2>1, <2>3
<1>7. /\ \A b \in Actors : Calls(b) \subseteq Calls(b)'
      /\ n \in Calls(a)' /\ n \notin Calls(a)
      /\ \A i \in Calls(a) : i < n
  <2>1. ASSUME NEW b \in Actors, b # a
        PROVE  Calls(b)' = Calls(b)
    BY <1>4, <2>1 DEF Calls
  <2>2. Calls(a)' = 1 .. n /\ Calls(a) = 1 .. n - 1
    BY <1>2, <1>5 DEF Calls
  <2>3. QED
    BY <1>5, <2>1, <2>2
<1>8. QED
  BY <1>4, <1>5, <1>6, <1>7 DEF call, ResAt, HowAt, SavedAt, MaskAt

LEMMA PopFacts ==
  ASSUME TypeOK, NEW a \in Actors, locks[a] # <<>>,
         locks' = [locks EXCEPT ![a] = ButLast(@)],
         NEW n, n = Len(locks[a])
  PROVE  /\ locks' \in [Actors -> Seq(LockCall)]
         /\ n \in Calls(a) /\ Last(locks[a]) = locks[a][n]
         /\ \A b \in Actors : \A i : i \in Calls(b)'
              <=> i \in Calls(b) /\ ~ (b = a /\ i = n)
         /\ \A b \in Actors : \A i \in Calls(b)' :
              /\ ResAt(b, i)' = ResAt(b, i)
              /\ HowAt(b, i)' = HowAt(b, i)
              /\ SavedAt(b, i)' = SavedAt(b, i)
              /\ MaskAt(b, i)' = MaskAt(b, i)
         /\ \A i \in Calls(a) : i # n => i < n
<1>1. locks[a] \in Seq(LockCall) /\ n \in Nat \ {0}
  BY CallTypes
<1>2. /\ ButLast(locks[a]) \in Seq(LockCall)
      /\ Len(ButLast(locks[a])) = n - 1
      /\ \A i \in 1 .. n - 1 : ButLast(locks[a])[i] = locks[a][i]
  BY <1>1, ButLastFacts
<1>3. /\ locks'[a] = ButLast(locks[a])
      /\ \A b \in Actors : b # a => locks'[b] = locks[b]
      /\ locks' \in [Actors -> Seq(LockCall)]
  BY <1>2 DEF TypeOK
<1>4. /\ \A b \in Actors : \A i : i \in Calls(b)'
           <=> i \in Calls(b) /\ ~ (b = a /\ i = n)
      /\ \A b \in Actors : \A i \in Calls(b)' : locks'[b][i] = locks[b][i]
  BY <1>1, <1>2, <1>3 DEF Calls
<1>5. n \in Calls(a) /\ Last(locks[a]) = locks[a][n]
  BY <1>1 DEF Calls, Last
<1>6. \A i \in Calls(a) : i # n => i < n
  BY <1>1 DEF Calls
<1>7. QED
  BY <1>3, <1>4, <1>5, <1>6 DEF ResAt, HowAt, SavedAt, MaskAt

-----------------------------------------------------------------------------
(* The invariant holds at first and is kept by every step.                 *)

LEMMA InitIInv == ASSUME Suits, Init PROVE IInv
<1>1. \A a \in Actors : Calls(a) = {}
  BY DEF Init, Calls
<1>2. \A a, b \in Actors : Active(a) /\ Active(b) => a = b
  BY DEF Init, Active
<1>3. TypeOK
  BY DEF Init, TypeOK, Interrupts
<1>4. CallsOK /\ AboveCalls
  BY <1>1 DEF CallsOK, AboveCalls
<1>5. Nested
  BY <1>2 DEF Nested
<1>6. PrimaskOK
  BY <1>1 DEF Init, PrimaskOK
<1>7. BitsExact
  BY <1>1 DEF Init, BitsExact
<1>8. QED
  BY <1>3, <1>4, <1>5, <1>6, <1>7 DEF IInv

(* Nothing is said about what is pending.                                  *)
LEMMA PendStep ==
  ASSUME IInv, pending' \subseteq Tasks,
         UNCHANGED <<enabled, active, locks, primask>>
  PROVE  IInv'
<1>1. \A a : /\ Calls(a)' = Calls(a) /\ (Active(a)' <=> Active(a))
             /\ \A i : /\ ResAt(a, i)' = ResAt(a, i)
                       /\ HowAt(a, i)' = HowAt(a, i)
                       /\ MaskAt(a, i)' = MaskAt(a, i)
                       /\ SavedAt(a, i)' = SavedAt(a, i)
  BY DEF Calls, Active, ResAt, HowAt, MaskAt, SavedAt
<1>2. TypeOK'
  BY DEF IInv, TypeOK
<1>3. CallsOK' /\ Nested' /\ AboveCalls'
  BY <1>1 DEF IInv, CallsOK, Nested, AboveCalls
<1>4. PrimaskOK'
  BY <1>1 DEF IInv, PrimaskOK
<1>5. BitsExact'
  BY <1>1 DEF IInv, BitsExact
<1>6. QED
  BY <1>2, <1>3, <1>4, <1>5 DEF IInv

(* Whoever can preempt an actor inside a closure does not use its          *)
(* resource: by its priority, by PRIMASK, or by its enable bit.            *)
LEMMA KeptOut ==
  ASSUME Suits, IInv, NEW t \in Tasks, Takable(t),
         NEW b \in Actors, NEW i \in Calls(b)
  PROVE  /\ ResAt(b, i) \notin Uses[t]
         /\ HowAt(b, i) # "free"
         /\ HowAt(b, i) = "mask" => Ceiling[ResAt(b, i)] <= CorePriority(t)
<1>1. PICK r, p, c : /\ r = ResAt(b, i) /\ c = Ceiling[r]
                     /\ p = CorePriority(t)
  OBVIOUS
<1>2. Active(b) /\ r \in Uses[b] /\ r \in Resources
  BY <1>1, CoreAssumption DEF IInv, CallsOK
<1>3. /\ CorePriority(b) < p /\ p \in 1 .. 4 /\ c \in 0 .. 4
      /\ CorePriority(b) \in 0 .. 4
      /\ r \in Uses[t] => p <= c
  BY <1>1, <1>2, Priorities DEF Takable, Actors
<1>4. HowAt(b, i) # "free"
  BY DEF Takable, IInv, PrimaskOK
<1>5. CASE HowAt(b, i) = "none"
  <2>1. c <= CorePriority(b)
    BY <1>1, <1>5 DEF IInv, CallsOK
  <2>2. QED
    BY <1>1, <1>3, <1>5, <2>1
<1>6. CASE HowAt(b, i) = "mask"
  <2>1. /\ CorePriority(b) < c /\ c < 4
        /\ MaskAt(b, i) = compute_mask(CorePriority(b), c)
    BY <1>1, <1>6 DEF IInv, CallsOK, Masks
  <2>2. CASE t \in Exceptions
    BY <1>1, <1>2, <1>3, <1>6, <2>1, <2>2 DEF Suits, ExceptionsApart, Masks
  <2>3. CASE t \notin Exceptions
    <3>1. t \in Interrupts /\ t \in enabled
      BY <2>3 DEF Takable, Interrupts
    <3>2. t \notin MaskAt(b, i)
      BY <3>1 DEF IInv, BitsExact
    <3>3. c \in 0 .. 3
      BY <1>3, <2>1
    <3>4. ~ (p <= c)
      BY <1>1, <1>3, <2>1, <3>1, <3>2, <3>3, MaskIs
    <3>5. QED
      BY <1>1, <1>3, <1>6, <3>4
  <2>4. QED
    BY <2>2, <2>3
<1>7. HowAt(b, i) \in {"none", "free", "mask"}
  BY CallTypes DEF IInv, LockCall, HowAt
<1>8. QED
  BY <1>4, <1>5, <1>6, <1>7

LEMMA PreemptStep ==
  ASSUME Suits, IInv, NEW t \in Tasks, Preempt(t)
  PROVE  IInv'
<1>1. /\ Takable(t) /\ t \in Actors
      /\ UNCHANGED <<enabled, locks, primask>>
      /\ \A a \in Actors : Active(a)' <=> Active(a) \/ a = t
  BY DEF Preempt, Active, Actors
<1>2. \A a : /\ Calls(a)' = Calls(a)
             /\ \A i : /\ ResAt(a, i)' = ResAt(a, i)
                       /\ HowAt(a, i)' = HowAt(a, i)
                       /\ MaskAt(a, i)' = MaskAt(a, i)
                       /\ SavedAt(a, i)' = SavedAt(a, i)
  BY <1>1 DEF Calls, ResAt, HowAt, MaskAt, SavedAt
<1>3. \A a \in Actors : ExecPriority[a] \in 0 .. 256
  BY Priorities
<1>4. \A a \in Actors : Active(a) => ExecPriority[t] < ExecPriority[a]
  BY <1>1 DEF Takable
<1>5. ~ Active(t)
  BY <1>1, <1>3, <1>4
<1>6. Calls(t) = {}
  BY <1>1, <1>5 DEF IInv, CallsOK
<1>7. TypeOK'
  BY DEF IInv, TypeOK, Preempt
<1>8. CallsOK'
  BY <1>1, <1>2 DEF IInv, CallsOK
<1>9. Nested'
  <2>1. SUFFICES ASSUME NEW a \in Actors, NEW b \in Actors,
                        Active(a)', Active(b)', a # b
                 PROVE  ExecPriority[a] # ExecPriority[b]
    BY DEF Nested
  <2>2. CASE a = t \/ b = t
    BY <1>1, <1>3, <1>4, <2>1, <2>2
  <2>3. CASE a # t /\ b # t
    BY <1>1, <2>1, <2>3 DEF IInv, Nested
  <2>4. QED
    BY <2>2, <2>3
<1>10. AboveCalls'
  <2>1. SUFFICES ASSUME NEW a \in Actors, NEW b \in Actors, NEW i \in Calls(b),
                        Active(a)', ExecPriority[a] < ExecPriority[b]
                 PROVE  /\ ResAt(b, i) \notin Uses[a]
                        /\ HowAt(b, i) # "free"
                        /\ HowAt(b, i) = "mask" =>
                             Ceiling[ResAt(b, i)] <= CorePriority(a)
    BY <1>2 DEF AboveCalls
  <2>2. CASE a = t
    BY <1>1, <2>1, <2>2, KeptOut
  <2>3. CASE a # t
    BY <1>1, <2>1, <2>3 DEF IInv, AboveCalls
  <2>4. QED
    BY <2>2, <2>3
<1>11. PrimaskOK'
  BY <1>1, <1>2 DEF IInv, PrimaskOK
<1>12. BitsExact'
  BY <1>1, <1>2 DEF IInv, BitsExact
<1>13. QED
  BY <1>7, <1>8, <1>9, <1>10, <1>11, <1>12 DEF IInv

LEMMA ReturnStep ==
  ASSUME Suits, IInv, NEW t \in Tasks, Return(t)
  PROVE  IInv'
<1>1. /\ UNCHANGED <<enabled, locks, primask>>
      /\ Calls(t) = {}
      /\ \A a \in Actors : Active(a)' <=> Active(a) /\ a # t
  BY CoreAssumption DEF Return, Active, Actors, Calls
<1>2. \A a : /\ Calls(a)' = Calls(a)
             /\ \A i : /\ ResAt(a, i)' = ResAt(a, i)
                       /\ HowAt(a, i)' = HowAt(a, i)
                       /\ MaskAt(a, i)' = MaskAt(a, i)
                       /\ SavedAt(a, i)' = SavedAt(a, i)
  BY <1>1 DEF Calls, ResAt, HowAt, MaskAt, SavedAt
<1>3. TypeOK'
  BY DEF IInv, TypeOK, Return
<1>4. CallsOK'
  BY <1>1, <1>2 DEF IInv, CallsOK
<1>5. Nested' /\ AboveCalls'
  BY <1>1, <1>2 DEF IInv, Nested, AboveCalls
<1>6. PrimaskOK'
  BY <1>1, <1>2 DEF IInv, PrimaskOK
<1>7. BitsExact'
  BY <1>1, <1>2 DEF IInv, BitsExact
<1>8. QED
  BY <1>3, <1>4, <1>5, <1>6, <1>7 DEF IInv

(* The actor that runs is above everybody else who is active.              *)
LEMMA RunningIsTop ==
  ASSUME Suits, IInv, NEW a \in Actors, Running(a)
  PROVE  /\ Active(a)
         /\ \A b \in Actors :
              Active(b) => ~ (ExecPriority[b] < ExecPriority[a])
         /\ \A b \in Actors : Calls(b) # {} /\ b # a =>
              Active(b) /\ ExecPriority[a] < ExecPriority[b]
<1>1. Active(a)
  BY DEF Running
<1>2. \A b \in Actors : ExecPriority[b] \in 0 .. 256
  BY Priorities
<1>3. ASSUME NEW b \in Actors, Active(b)
      PROVE  ~ (ExecPriority[b] < ExecPriority[a])
  <2>1. \A x, y \in 0 .. 256 :
          (b # a => x < y) /\ (b = a => x = y) => ~ (y < x)
    OBVIOUS
  <2>2. b # a => ExecPriority[a] < ExecPriority[b]
    BY <1>3, Zenon DEF Running
  <2>3. QED
    BY <1>2, <2>1, <2>2, Zenon
<1>4. ASSUME NEW b \in Actors, Calls(b) # {}, b # a
      PROVE  Active(b) /\ ExecPriority[a] < ExecPriority[b]
  BY <1>4 DEF IInv, CallsOK, Running
<1>5. QED
  BY <1>1, <1>3, <1>4

(* What lock does, however it protects its closure.                        *)
LEMMA LockStep ==
  ASSUME Suits, IInv, NEW a \in Actors, NEW r \in Resources,
         LockNone(a, r) \/ LockFree(a, r) \/ LockMask(a, r)
  PROVE  IInv'
<1>1. /\ Running(a) /\ r \in Uses[a]
      /\ locks[a] # <<>> => <<Last(locks[a]).res, r>> \in Nests
      /\ UNCHANGED <<pending, active>>
  BY DEF LockNone, LockFree, LockMask, CanLock
<1>2. PICK n : n = Len(locks[a]) + 1
  OBVIOUS
<1>3. \A b : Active(b)' <=> Active(b)
  BY <1>1 DEF Active
<1>4. \A b \in Actors : \A i \in Calls(b) : HowAt(b, i) = "free" => b = a
  BY <1>1, RunningIsTop DEF IInv, AboveCalls
<1>5. PICK how \in {"none", "free", "mask"}, saved \in {0, 1},
           mask \in SUBSET Tasks :
        /\ Enter(a, r, how, saved, mask)
        /\ how = "none" => Ceiling[r] <= CorePriority(a)
        /\ how = "mask" =>
             Masks(a, r) /\ mask = compute_mask(CorePriority(a), Ceiling[r])
        /\ how # "mask" => mask = {}
        /\ enabled' = enabled \ mask
        /\ IF how = "free" THEN saved = primask /\ primask' = 1
           ELSE primask' = primask
  <2>1. CorePriority(a) \in 0 .. 4 /\ Ceiling[r] \in 0 .. 4
    BY Priorities
  <2>2. CASE LockNone(a, r)
    <3>1. /\ Enter(a, r, "none", 0, {}) /\ Ceiling[r] <= CorePriority(a)
          /\ enabled' = enabled \ {} /\ primask' = primask
      BY <2>1, <2>2 DEF LockNone
    <3>2. /\ "none" # "mask" /\ "none" # "free"
          /\ "none" \in {"none", "free", "mask"}
          /\ 0 \in {0, 1} /\ {} \in SUBSET Tasks
      OBVIOUS
    <3>3. QED
      BY <3>1, <3>2, Zenon
  <2>3. CASE LockFree(a, r)
    <3>1. /\ Enter(a, r, "free", primask, {}) /\ primask \in {0, 1}
          /\ enabled' = enabled \ {} /\ primask' = 1
      BY <2>3 DEF LockFree, IInv, TypeOK
    <3>2. /\ "free" # "mask" /\ "free" # "none"
          /\ "free" \in {"none", "free", "mask"} /\ {} \in SUBSET Tasks
      OBVIOUS
    <3>3. QED
      BY <3>1, <3>2, Zenon
  <2>4. CASE LockMask(a, r)
    <3>1. compute_mask(CorePriority(a), Ceiling[r]) \in SUBSET Tasks
      <4>1. Ceiling[r] \in 0 .. 3
        BY <2>1, <2>4 DEF LockMask
      <4>2. QED
        BY <2>1, <4>1, MaskIs DEF Interrupts
    <3>2. QED
      BY <2>4, <3>1, Zenon DEF LockMask, Masks, clear_enable_mask
  <2>5. QED
    BY <2>2, <2>3, <2>4
<1>6. TypeOK
  BY DEF IInv
<1>7. /\ locks' \in [Actors -> Seq(LockCall)]
      /\ n \in Nat
      /\ \A b \in Actors : \A i \in Calls(b)' :
           IF b = a /\ i = n
           THEN /\ ResAt(b, i)' = r /\ HowAt(b, i)' = how
                /\ SavedAt(b, i)' = saved /\ MaskAt(b, i)' = mask
           ELSE /\ i \in Calls(b)
                /\ ResAt(b, i)' = ResAt(b, i)
                /\ HowAt(b, i)' = HowAt(b, i)
                /\ SavedAt(b, i)' = SavedAt(b, i)
                /\ MaskAt(b, i)' = MaskAt(b, i)
      /\ \A b \in Actors : Calls(b) \subseteq Calls(b)'
      /\ n \in Calls(a)' /\ n \notin Calls(a)
      /\ \A i \in Calls(a) : i < n
  BY <1>2, <1>5, <1>6, EnterFacts
<1>8. TypeOK'
  BY <1>1, <1>5, <1>6, <1>7 DEF TypeOK
<1>9. CallsOK'
  <2>1. SUFFICES ASSUME NEW b \in Actors, NEW i \in Calls(b)'
                 PROVE  /\ Active(b)
                        /\ ResAt(b, i)' \in Uses[b]
                        /\ HowAt(b, i)' = "none" =>
                             Ceiling[ResAt(b, i)'] <= CorePriority(b)
                        /\ HowAt(b, i)' = "mask" =>
                             /\ Masks(b, ResAt(b, i)') /\ i = 1
                             /\ MaskAt(b, i)' =
                                  compute_mask(CorePriority(b),
                                               Ceiling[ResAt(b, i)'])
                        /\ HowAt(b, i)' # "mask" => MaskAt(b, i)' = {}
    BY <1>3 DEF CallsOK, Masks
  <2>2. CASE b = a /\ i = n
    <3>1. how = "mask" => n = 1
      <4>1. SUFFICES ASSUME Masks(a, r), locks[a] # <<>> PROVE FALSE
        BY <1>2, <1>5
      <4>2. PICK k : k = Len(locks[a])
        OBVIOUS
      <4>3. k \in Calls(a) /\ Last(locks[a]).res = ResAt(a, k)
        BY <1>6, <4>1, <4>2, CallTypes DEF Calls, Last, ResAt
      <4>4. ResAt(a, k) \in Uses[a]
        BY <4>3 DEF IInv, CallsOK
      <4>5. QED
        BY <1>1, <4>1, <4>3, <4>4 DEF Suits, MasksNotNested
    <3>2. QED
      BY <1>1, <1>5, <1>7, <2>1, <2>2, <3>1 DEF Running
  <2>3. CASE ~ (b = a /\ i = n)
    <3>1. /\ i \in Calls(b) /\ ResAt(b, i)' = ResAt(b, i)
          /\ HowAt(b, i)' = HowAt(b, i) /\ MaskAt(b, i)' = MaskAt(b, i)
      BY <1>7, <2>1, <2>3
    <3>2. QED
      BY <3>1 DEF IInv, CallsOK
  <2>4. QED
    BY <2>2, <2>3
<1>10. Nested'
  BY <1>3 DEF IInv, Nested
<1>11. AboveCalls'
  <2>1. SUFFICES ASSUME NEW x \in Actors, NEW b \in Actors,
                        NEW i \in Calls(b)', Active(x),
                        ExecPriority[x] < ExecPriority[b]
                 PROVE  /\ ResAt(b, i)' \notin Uses[x]
                        /\ HowAt(b, i)' # "free"
                        /\ HowAt(b, i)' = "mask" =>
                             Ceiling[ResAt(b, i)'] <= CorePriority(x)
    BY <1>3 DEF AboveCalls
  <2>2. b # a
    BY <1>1, <2>1, RunningIsTop
  <2>3. /\ i \in Calls(b) /\ ResAt(b, i)' = ResAt(b, i)
        /\ HowAt(b, i)' = HowAt(b, i)
    BY <1>7, <2>1, <2>2
  <2>4. QED
    BY <2>1, <2>3 DEF IInv, AboveCalls
<1>12. PrimaskOK'
  <2>1. primask' = 1 <=> \E b \in Actors : \E i \in Calls(b)' :
                           HowAt(b, i)' = "free"
    <3>1. CASE how = "free"
      BY <1>5, <1>7, <3>1
    <3>2. CASE how # "free"
      <4>1. (\E b \in Actors : \E i \in Calls(b)' : HowAt(b, i)' = "free")
              <=> \E b \in Actors : \E i \in Calls(b) : HowAt(b, i) = "free"
        BY <1>7, <3>2
      <4>2. QED
        BY <1>5, <3>2, <4>1 DEF IInv, PrimaskOK
    <3>3. QED
      BY <3>1, <3>2
  <2>2. ASSUME NEW b \in Actors, NEW i \in Calls(b)', HowAt(b, i)' = "free"
        PROVE  SavedAt(b, i)' = 1
                 <=> \E j \in Calls(b)' : j < i /\ HowAt(b, j)' = "free"
    <3>1. ASSUME NEW j \in Calls(b)', j < i
          PROVE  j \in Calls(b) /\ HowAt(b, j)' = HowAt(b, j)
      <4>1. ~ (b = a /\ j = n)
        BY <1>7, <2>2, <3>1 DEF Calls
      <4>2. QED
        BY <1>7, <3>1, <4>1
    <3>2. ASSUME NEW j \in Calls(b)
          PROVE  j \in Calls(b)' /\ HowAt(b, j)' = HowAt(b, j)
      BY <1>7
    <3>3. (\E j \in Calls(b)' : j < i /\ HowAt(b, j)' = "free")
            <=> \E j \in Calls(b) : j < i /\ HowAt(b, j) = "free"
      BY <3>1, <3>2
    <3>4. CASE b = a /\ i = n
      <4>1. saved = primask /\ SavedAt(b, i)' = saved
        BY <1>5, <1>7, <2>2, <3>4
      <4>2. primask = 1 <=> \E j \in Calls(a) : HowAt(a, j) = "free"
        BY <1>4 DEF IInv, PrimaskOK
      <4>3. QED
        BY <1>7, <3>3, <3>4, <4>1, <4>2
    <3>5. CASE ~ (b = a /\ i = n)
      <4>1. /\ i \in Calls(b) /\ HowAt(b, i) = "free"
            /\ SavedAt(b, i)' = SavedAt(b, i)
        BY <1>7, <2>2, <3>5
      <4>2. QED
        BY <3>3, <4>1 DEF IInv, PrimaskOK
    <3>6. QED
      BY <3>4, <3>5
  <2>3. QED
    BY <2>1, <2>2 DEF PrimaskOK
<1>13. BitsExact'
  <2>1. SUFFICES ASSUME NEW t \in Interrupts
                 PROVE  t \in enabled' <=>
                          \A b \in Actors : \A i \in Calls(b)' :
                            t \notin MaskAt(b, i)'
    BY DEF BitsExact
  <2>2. t \in enabled <=>
          \A b \in Actors : \A i \in Calls(b) : t \notin MaskAt(b, i)
    BY DEF IInv, BitsExact
  <2>3. (\A b \in Actors : \A i \in Calls(b)' : t \notin MaskAt(b, i)')
          <=> /\ t \notin mask
              /\ \A b \in Actors : \A i \in Calls(b) : t \notin MaskAt(b, i)
    <3>1. /\ MaskAt(a, n)' = mask
          /\ \A b \in Actors : \A i \in Calls(b) :
               i \in Calls(b)' /\ MaskAt(b, i)' = MaskAt(b, i)
      BY <1>7
    <3>2. \A b \in Actors : \A i \in Calls(b)' :
            \/ b = a /\ i = n
            \/ i \in Calls(b) /\ MaskAt(b, i)' = MaskAt(b, i)
      BY <1>7
    <3>3. ASSUME \A b \in Actors : \A i \in Calls(b)' : t \notin MaskAt(b, i)'
          PROVE  /\ t \notin mask
                 /\ \A b \in Actors : \A i \in Calls(b) : t \notin MaskAt(b, i)
      BY <1>7, <3>1, <3>3
    <3>4. ASSUME t \notin mask, NEW b \in Actors, NEW i \in Calls(b)',
                 \A c \in Actors : \A j \in Calls(c) : t \notin MaskAt(c, j)
          PROVE  t \notin MaskAt(b, i)'
      <4>1. CASE b = a /\ i = n
        BY <3>1, <3>4, <4>1, Zenon
      <4>2. CASE i \in Calls(b) /\ MaskAt(b, i)' = MaskAt(b, i)
        BY <3>4, <4>2, Zenon
      <4>3. QED
        BY <3>2, <4>1, <4>2
    <3>5. QED
      BY <3>3, <3>4, Zenon
  <2>4. QED
    BY <1>5, <2>2, <2>3
<1>14. QED
  BY <1>8, <1>9, <1>10, <1>11, <1>12, <1>13 DEF IInv

(* The bits that a closure has disabled are off for no other reason.       *)
LEMMA MasksApart ==
  ASSUME Suits, IInv, NEW a \in Actors, Running(a),
         NEW n \in Calls(a), HowAt(a, n) = "mask", n = Len(locks[a]),
         NEW b \in Actors, NEW i \in Calls(b), ~ (b = a /\ i = n),
         NEW t \in MaskAt(a, n)
  PROVE  t \notin MaskAt(b, i)
<1>1. PICK ra, rb : ra = ResAt(a, n) /\ rb = ResAt(b, i)
  OBVIOUS
<1>2. /\ ra \in Resources /\ n = 1
      /\ CorePriority(a) < Ceiling[ra] /\ Ceiling[ra] < 4
      /\ MaskAt(a, n) = compute_mask(CorePriority(a), Ceiling[ra])
  BY <1>1, CoreAssumption DEF IInv, CallsOK, Masks
<1>3. /\ rb \in Resources
      /\ HowAt(b, i) = "mask" =>
           /\ i = 1 /\ CorePriority(b) < Ceiling[rb] /\ Ceiling[rb] < 4
           /\ MaskAt(b, i) = compute_mask(CorePriority(b), Ceiling[rb])
      /\ HowAt(b, i) # "mask" => MaskAt(b, i) = {}
  BY <1>1, CoreAssumption DEF IInv, CallsOK, Masks
<1>4. /\ CorePriority(a) \in 0 .. 4 /\ CorePriority(b) \in 0 .. 4
      /\ Ceiling[ra] \in 0 .. 3 /\ Ceiling[rb] \in 0 .. 4
  BY <1>2, <1>3, Priorities
<1>5. t \in Interrupts /\ CorePriority(a) < CorePriority(t)
  BY <1>2, <1>4, MaskIs
<1>6. CASE b = a
  BY <1>2, <1>3, <1>6 DEF Calls
<1>7. CASE b # a /\ HowAt(b, i) = "mask"
  <2>1. Active(a) /\ ExecPriority[a] < ExecPriority[b]
    BY <1>7, RunningIsTop
  <2>2. Ceiling[rb] <= CorePriority(a)
    BY <1>1, <1>7, <2>1 DEF IInv, AboveCalls
  <2>3. Ceiling[rb] \in 0 .. 3
    BY <1>3, <1>4, <1>7
  <2>4. t \in MaskAt(b, i) => CorePriority(t) <= Ceiling[rb]
    BY <1>3, <1>4, <1>7, <2>3, MaskIs
  <2>5. CorePriority(t) \in 1 .. 4
    BY <1>5, Priorities DEF Interrupts
  <2>6. QED
    BY <1>4, <1>5, <2>2, <2>4, <2>5
<1>8. CASE HowAt(b, i) # "mask"
  BY <1>3, <1>8
<1>9. QED
  BY <1>6, <1>7, <1>8

LEMMA UnlockStep ==
  ASSUME Suits, IInv, NEW a \in Actors, Unlock(a)
  PROVE  IInv'
<1>1. PICK n : n = Len(locks[a])
  OBVIOUS
<1>2. TypeOK
  BY DEF IInv
<1>3. /\ Running(a) /\ locks[a] # <<>> /\ UNCHANGED <<pending, active>>
      /\ locks' = [locks EXCEPT ![a] = ButLast(@)]
  BY DEF Unlock
<1>4. /\ locks' \in [Actors -> Seq(LockCall)]
      /\ n \in Calls(a) /\ Last(locks[a]) = locks[a][n]
      /\ \A b \in Actors : \A i : i \in Calls(b)'
           <=> i \in Calls(b) /\ ~ (b = a /\ i = n)
      /\ \A b \in Actors : \A i \in Calls(b)' :
           /\ ResAt(b, i)' = ResAt(b, i)
           /\ HowAt(b, i)' = HowAt(b, i)
           /\ SavedAt(b, i)' = SavedAt(b, i)
           /\ MaskAt(b, i)' = MaskAt(b, i)
      /\ \A i \in Calls(a) : i # n => i < n
  BY <1>1, <1>2, <1>3, PopFacts
<1>5. \A b : Active(b)' <=> Active(b)
  BY <1>3 DEF Active
<1>6. /\ enabled' = IF HowAt(a, n) = "mask" THEN enabled \cup MaskAt(a, n)
                    ELSE enabled
      /\ primask' = IF HowAt(a, n) = "free" THEN SavedAt(a, n) ELSE primask
  BY <1>4 DEF Unlock, HowAt, MaskAt, SavedAt, set_enable_mask
<1>7. \A b \in Actors : \A i \in Calls(b) : HowAt(b, i) = "free" => b = a
  BY <1>3, RunningIsTop DEF IInv, AboveCalls
<1>8. TypeOK'
  <2>1. SavedAt(a, n) \in {0, 1}
    BY <1>2, <1>4, CallTypes DEF LockCall, SavedAt
  <2>2. HowAt(a, n) = "mask" => MaskAt(a, n) \subseteq Interrupts
    <3>1. SUFFICES ASSUME HowAt(a, n) = "mask"
                   PROVE  MaskAt(a, n) \subseteq Interrupts
      OBVIOUS
    <3>2. PICK r : r = ResAt(a, n)
      OBVIOUS
    <3>3. /\ r \in Resources /\ Ceiling[r] < 4
          /\ MaskAt(a, n) = compute_mask(CorePriority(a), Ceiling[r])
      BY <1>4, <3>1, <3>2, CoreAssumption DEF IInv, CallsOK, Masks
    <3>4. CorePriority(a) \in 0 .. 4 /\ Ceiling[r] \in 0 .. 3
      BY <3>3, Priorities
    <3>5. QED
      BY <3>3, <3>4, MaskIs
  <2>3. QED
    BY <1>2, <1>3, <1>4, <1>6, <2>1, <2>2 DEF TypeOK
<1>9. CallsOK'
  BY <1>4, <1>5 DEF IInv, CallsOK, Masks
<1>10. Nested'
  BY <1>5 DEF IInv, Nested
<1>11. AboveCalls'
  BY <1>4, <1>5 DEF IInv, AboveCalls
<1>12. PrimaskOK'
  <2>1. primask' = 1 <=> \E b \in Actors : \E i \in Calls(b)' :
                           HowAt(b, i)' = "free"
    <3>1. (\E b \in Actors : \E i \in Calls(b)' : HowAt(b, i)' = "free")
            <=> \E i \in Calls(a) : i # n /\ HowAt(a, i) = "free"
      BY <1>4, <1>7
    <3>2. CASE HowAt(a, n) = "free"
      <4>1. SavedAt(a, n) = 1
              <=> \E i \in Calls(a) : i < n /\ HowAt(a, i) = "free"
        BY <1>4, <3>2 DEF IInv, PrimaskOK
      <4>2. \A i \in Calls(a) : i < n <=> i # n
        BY <1>4 DEF Calls
      <4>3. QED
        BY <1>6, <3>1, <3>2, <4>1, <4>2
    <3>3. CASE HowAt(a, n) # "free"
      BY <1>6, <1>7, <3>1, <3>3 DEF IInv, PrimaskOK
    <3>4. QED
      BY <3>2, <3>3
  <2>2. ASSUME NEW b \in Actors, NEW i \in Calls(b)', HowAt(b, i)' = "free"
        PROVE  SavedAt(b, i)' = 1
                 <=> \E j \in Calls(b)' : j < i /\ HowAt(b, j)' = "free"
    <3>1. /\ i \in Calls(b) /\ HowAt(b, i) = "free"
          /\ SavedAt(b, i)' = SavedAt(b, i)
      BY <1>4, <2>2
    <3>2. ASSUME NEW j \in Calls(b), j < i
          PROVE  j \in Calls(b)'
      <4>1. b = a => i < n
        BY <1>4, <2>2
      <4>2. ~ (b = a /\ j = n)
        BY <1>4, <3>1, <3>2, <4>1 DEF Calls
      <4>3. QED
        BY <1>4, <4>2
    <3>3. (\E j \in Calls(b)' : j < i /\ HowAt(b, j)' = "free")
            <=> \E j \in Calls(b) : j < i /\ HowAt(b, j) = "free"
      BY <1>4, <3>2
    <3>4. QED
      BY <3>1, <3>3 DEF IInv, PrimaskOK
  <2>3. QED
    BY <2>1, <2>2 DEF PrimaskOK
<1>13. BitsExact'
  <2>1. SUFFICES ASSUME NEW t \in Interrupts
                 PROVE  t \in enabled' <=>
                          \A b \in Actors : \A i \in Calls(b)' :
                            t \notin MaskAt(b, i)'
    BY DEF BitsExact
  <2>2. t \in enabled <=>
          \A b \in Actors : \A i \in Calls(b) : t \notin MaskAt(b, i)
    BY DEF IInv, BitsExact
  <2>3. (\A b \in Actors : \A i \in Calls(b)' : t \notin MaskAt(b, i)')
          <=> \A b \in Actors : \A i \in Calls(b) :
                ~ (b = a /\ i = n) => t \notin MaskAt(b, i)
    BY <1>4
  <2>4. CASE HowAt(a, n) = "mask" /\ t \in MaskAt(a, n)
    <3>1. \A b \in Actors : \A i \in Calls(b) :
            ~ (b = a /\ i = n) => t \notin MaskAt(b, i)
      BY <1>1, <1>3, <1>4, <2>4, MasksApart
    <3>2. QED
      BY <1>6, <2>3, <2>4, <3>1
  <2>5. CASE ~ (HowAt(a, n) = "mask" /\ t \in MaskAt(a, n))
    <3>1. t \notin MaskAt(a, n)
      BY <1>4, <2>5 DEF IInv, CallsOK
    <3>2. t \in enabled' <=> t \in enabled
      BY <1>6, <2>5
    <3>3. QED
      BY <2>2, <2>3, <3>1, <3>2
  <2>6. QED
    BY <2>4, <2>5
<1>14. QED
  BY <1>8, <1>9, <1>10, <1>11, <1>12, <1>13 DEF IInv

LEMMA NextIInv == ASSUME Suits, IInv, [Next]_vars PROVE IInv'
<1>1. ASSUME NEW t \in Tasks, Pend(t) PROVE IInv'
  <2>1. /\ pending' \subseteq Tasks
        /\ UNCHANGED <<enabled, active, locks, primask>>
    BY <1>1 DEF Pend, IInv, TypeOK
  <2>2. QED
    BY <2>1, PendStep
<1>2. ASSUME NEW t \in Tasks, Preempt(t) PROVE IInv'
  BY <1>2, PreemptStep
<1>3. ASSUME NEW t \in Tasks, Return(t) PROVE IInv'
  BY <1>3, ReturnStep
<1>4. ASSUME NEW a \in Actors, NEW r \in Resources,
             LockNone(a, r) \/ LockFree(a, r) \/ LockMask(a, r)
      PROVE  IInv'
  BY <1>4, LockStep
<1>5. ASSUME NEW a \in Actors, Unlock(a) PROVE IInv'
  BY <1>5, UnlockStep
<1>6. CASE UNCHANGED vars
  <2>1. /\ pending' \subseteq Tasks
        /\ UNCHANGED <<enabled, active, locks, primask>>
    BY <1>6 DEF vars, IInv, TypeOK
  <2>2. QED
    BY <2>1, PendStep
<1>7. QED
  BY <1>1, <1>2, <1>3, <1>4, <1>5, <1>6 DEF Next

-----------------------------------------------------------------------------
(* The inductive invariant: what the closures have masked is what their    *)
(* static priorities say, and nobody who could preempt one uses its        *)
(* resource.                                                               *)
THEOREM IInvAlways ==
  ASSUME Suits
  PROVE  Spec => []IInv
<1>1. Init => IInv
  BY InitIInv
<1>2. IInv /\ [Next]_vars => IInv'
  BY NextIInv
<1>3. QED
  BY <1>1, <1>2, PTL DEF Spec

(* PRIMASK and the enable bits keep their types: lock never writes a bit   *)
(* that the NVIC does not have.                                            *)
THEOREM TypeCorrect ==
  ASSUME Suits
  PROVE  Spec => []TypeOK
<1>1. IInv => TypeOK
  BY DEF IInv
<1>2. QED
  BY <1>1, IInvAlways, PTL

(* On armv6-m two actors are never inside closures of lock on the same     *)
(* resource, if exceptions stay apart and no lock that disables interrupts *)
(* is nested.                                                              *)
THEOREM LocksExclude ==
  ASSUME Suits
  PROVE  Spec => []MutualExclusion
<1>1. IInv => MutualExclusion
  <2>1. SUFFICES ASSUME IInv, NEW a \in Actors, NEW b \in Actors,
                        NEW r \in Resources, Holds(a, r), Holds(b, r), a # b
                 PROVE  FALSE
    BY DEF MutualExclusion
  <2>2. PICK i \in Calls(a), j \in Calls(b) :
          ResAt(a, i) = r /\ ResAt(b, j) = r
    BY <2>1 DEF Holds, Calls, ResAt
  <2>3. Active(a) /\ Active(b) /\ r \in Uses[a] /\ r \in Uses[b]
    BY <2>1, <2>2 DEF IInv, CallsOK
  <2>4. ~ (ExecPriority[a] < ExecPriority[b])
    BY <2>1, <2>2, <2>3 DEF IInv, AboveCalls
  <2>5. ~ (ExecPriority[b] < ExecPriority[a])
    BY <2>1, <2>2, <2>3 DEF IInv, AboveCalls
  <2>6. ExecPriority[a] # ExecPriority[b]
    BY <2>1, <2>3 DEF IInv, Nested
  <2>7. ExecPriority[a] \in 0 .. 256 /\ ExecPriority[b] \in 0 .. 256
    BY Priorities
  <2>8. \A x, y \in 0 .. 256 : x # y => x < y \/ y < x
    OBVIOUS
  <2>9. QED
    BY <2>4, <2>5, <2>6, <2>7, <2>8, Zenon
<1>2. QED
  BY <1>1, IInvAlways, PTL

(* On armv6-m the enable bits that are off are those of the closures being *)
(* run: set_enable_mask never enables what another closure has disabled.   *)
THEOREM MasksAreExact ==
  ASSUME Suits
  PROVE  Spec => []MaskExact
<1>1. IInv => MaskExact
  <2>1. SUFFICES ASSUME IInv PROVE MaskExact
    OBVIOUS
  <2>2. ASSUME NEW t \in Interrupts
        PROVE  t \in UNION {UNION {locks[a][i].mask :
                                   i \in 1 .. Len(locks[a])} : a \in Actors}
                 <=> \E a \in Actors : \E i \in Calls(a) : t \in MaskAt(a, i)
    <3> DEFINE off(a) == UNION {locks[a][i].mask : i \in 1 .. Len(locks[a])}
    <3>1. \A a \in Actors :
            t \in off(a) <=> \E i \in Calls(a) : t \in MaskAt(a, i)
      BY DEF Calls, MaskAt
    <3> HIDE DEF off
    <3>2. t \in UNION {off(a) : a \in Actors}
            <=> \E a \in Actors : t \in off(a)
      OBVIOUS
    <3>3. QED
      BY <3>1, <3>2 DEF off
  <2>3. enabled \subseteq Interrupts
    BY <2>1 DEF IInv, TypeOK
  <2>4. QED
    BY <2>1, <2>2, <2>3 DEF MaskExact, IInv, BitsExact
<1>2. QED
  BY <1>1, IInvAlways, PTL
=============================================================================
