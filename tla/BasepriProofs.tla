--------------------------- MODULE BasepriProofs ---------------------------
(***************************************************************************)
(* BasepriLock for every application and every device: the type invariant, *)
(* mutual exclusion, one blocker at most, that a handler starts with its   *)
(* resources free, and that BASEPRI and PRIMASK are the system ceiling.    *)
(***************************************************************************)
EXTENDS BasepriLock, Lemmas

CeilingHw(r) == cortex_logical2hw(Ceiling[r])

(* A value of BASEPRI that keeps out every task that uses r.               *)
Protects(level, r) == Ceiling[r] # 0 => level # 0 /\ level <= CeilingHw(r)

Calls(a) == 1 .. Len(locks[a])
RaisedAt(a, i) == locks[a][i].raised
FreeAt(a, i) == locks[a][i].free
ResAt(a, i) == locks[a][i].res
SavedAt(a, i) == locks[a][i].saved

-----------------------------------------------------------------------------
(* The inductive invariant.                                                *)

(* Calls of lock are made by the body of an active actor on resources it   *)
(* declares; only the innermost call may not have raised the ceiling yet.  *)
CallsOK ==
  \A a \in Actors : \A i \in Calls(a) :
    /\ pc[a] = "body"
    /\ ResAt(a, i) \in Uses[a]
    /\ FreeAt(a, i) <=> UsesFree(ResAt(a, i))
    /\ FreeAt(a, i) \/ i < Len(locks[a]) => RaisedAt(a, i)

(* No two active actors have the same priority.                            *)
Nested ==
  \A a, b \in Actors : Active(a) /\ Active(b) /\ a # b =>
    ExecPriority[a] # ExecPriority[b]

(* Who preempted an actor inside closures is above all their ceilings.     *)
AboveCeilings ==
  \A a, b \in Actors : Active(b) /\ ExecPriority[b] < ExecPriority[a] =>
    \A i \in Calls(a) : RaisedAt(a, i) =>
      /\ ~ FreeAt(a, i)
      /\ Ceiling[ResAt(a, i)] # 0 => ExecPriority[b] < CeilingHw(ResAt(a, i))

(* The masks in force protect every closure being run.                     *)
Protected ==
  \A a \in Actors : \A i \in Calls(a) : RaisedAt(a, i) =>
    IF FreeAt(a, i) THEN primask = 1 ELSE Protects(basepri, ResAt(a, i))

(* So do the masks a call of lock will put back: those of the closures     *)
(* around it, and of the actors it preempted.                              *)
SavedOuter ==
  \A a \in Actors : \A i, j \in Calls(a) : i < j /\ (FreeAt(a, i) <=> FreeAt(a, j)) =>
    IF FreeAt(a, j) THEN SavedAt(a, j) = 1
    ELSE Protects(SavedAt(a, j), ResAt(a, i))

SavedBelow ==
  \A a, b \in Actors : Active(a) /\ ExecPriority[a] < ExecPriority[b] =>
    \A i \in Calls(b), j \in Calls(a) : RaisedAt(b, i) /\ ~ FreeAt(a, j) =>
      Protects(SavedAt(a, j), ResAt(b, i))

(* And the mask run will put back.                                         *)
InitialBelow ==
  \A t \in Tasks, b \in Actors :
    pc[t] = "body" /\ ExecPriority[t] < ExecPriority[b] =>
      \A i \in Calls(b) : RaisedAt(b, i) => Protects(initial[t], ResAt(b, i))

SavedBit ==
  \A a \in Actors : \A i \in Calls(a) : FreeAt(a, i) => SavedAt(a, i) \in {0, 1}

IInv ==
  /\ TypeOK
  /\ CallsOK
  /\ Nested
  /\ AboveCeilings
  /\ Protected
  /\ SavedOuter
  /\ SavedBelow
  /\ InitialBelow
  /\ SavedBit
-----------------------------------------------------------------------------
(* Facts about the constants.                                              *)

(* On any device the hardware encoding reverses the order.                 *)
LEMMA DeviceFacts ==
  /\ Levels \in 2 .. 128
  /\ Shift \in 2 .. 128
  /\ \A k \in 1 .. Levels : cortex_logical2hw(k) = (Levels - k) * Shift
  /\ \A k \in 1 .. Levels : cortex_logical2hw(k) \in 0 .. 255
  /\ \A k, l \in 1 .. Levels :
       k < l => cortex_logical2hw(l) < cortex_logical2hw(k)
  /\ cortex_logical2hw(0) = 0
<1> USE CoreAssumption
<1>1. \/ Levels = 2 /\ Shift = 128
      \/ Levels = 4 /\ Shift = 64
      \/ Levels = 8 /\ Shift = 32
      \/ Levels = 16 /\ Shift = 16
      \/ Levels = 32 /\ Shift = 8
      \/ Levels = 64 /\ Shift = 4
      \/ Levels = 128 /\ Shift = 2
  BY DEF Levels, Shift, Pow2
<1>2. CASE Levels = 2 /\ Shift = 128
  BY <1>2 DEF cortex_logical2hw
<1>3. CASE Levels = 4 /\ Shift = 64
  BY <1>3 DEF cortex_logical2hw
<1>4. CASE Levels = 8 /\ Shift = 32
  BY <1>4 DEF cortex_logical2hw
<1>5. CASE Levels = 16 /\ Shift = 16
  BY <1>5 DEF cortex_logical2hw
<1>6. CASE Levels = 32 /\ Shift = 8
  BY <1>6 DEF cortex_logical2hw
<1>7. CASE Levels = 64 /\ Shift = 4
  BY <1>7 DEF cortex_logical2hw
<1>8. CASE Levels = 128 /\ Shift = 2
  BY <1>8 DEF cortex_logical2hw
<1>9. QED
  BY <1>1, <1>2, <1>3, <1>4, <1>5, <1>6, <1>7, <1>8

LEMMA LevelsRange == Levels \in 2 .. 128
  BY DeviceFacts

(* Logical order is reversed in hardware.                                  *)
LEMMA HwAntitone ==
  ASSUME NEW k \in 1 .. Levels, NEW l \in 1 .. Levels, k <= l
  PROVE  cortex_logical2hw(l) <= cortex_logical2hw(k)
<1>1. CASE k = l
  BY <1>1, DeviceFacts
<1>2. CASE k < l
  BY <1>2, DeviceFacts
<1>3. QED
  BY <1>1, <1>2, LevelsRange

(* The ceiling is in the range of the device, and at least the priority of *)
(* every task that uses the resource.                                      *)
LEMMA CeilingFacts ==
  ASSUME WellPrioritised, NEW r \in Resources
  PROVE  /\ Ceiling[r] \in 0 .. Levels
         /\ \A t \in Tasks : r \in Uses[t] => CorePriority(t) <= Ceiling[r]
<1> DEFINE Users == {t \in Tasks : r \in Uses[t]}
           IsMax(c) ==
             /\ \A t \in Tasks : r \in Uses[t] => CorePriority(t) <= c
             /\ \/ c = 0
                \/ \E t \in Tasks : r \in Uses[t] /\ CorePriority(t) = c
<1>1. \A t \in Tasks : CorePriority(t) \in 1 .. Levels
  BY DEF WellPrioritised
<1>2. PICK c :
        /\ c \in 0 .. Levels
        /\ \A u \in Users : CorePriority(u) <= c
        /\ (c = 0 \/ \E u \in Users : CorePriority(u) = c)
  <2>1. PICK p : /\ p \in [Users -> 1 .. Levels]
                 /\ \A u \in Users : p[u] = CorePriority(u)
    <3>1. [u \in Users |-> CorePriority(u)] \in [Users -> 1 .. Levels]
      BY <1>1
    <3>2. \A u \in Users : [v \in Users |-> CorePriority(v)][u] = CorePriority(u)
      OBVIOUS
    <3>3. QED
      BY <3>1, <3>2, Zenon
  <2>2. Levels \in Nat
    BY LevelsRange
  <2>3. PICK d \in 0 .. Levels :
          /\ \A u \in Users : p[u] <= d
          /\ (d = 0 \/ \E u \in Users : p[u] = d)
    <3> HIDE DEF Users
    <3>1. QED
      BY <2>1, <2>2, Maximum
  <2>4. \A u \in Users : CorePriority(u) <= d
    <3>1. ASSUME NEW u \in Users
          PROVE  CorePriority(u) <= d
      <4>1. p[u] = CorePriority(u) /\ p[u] <= d
        BY <2>1, <2>3, Zenon
      <4>2. QED
        BY <4>1
    <3>2. QED
      BY <3>1
  <2>5. ASSUME NEW u \in Users, p[u] = d
        PROVE  CorePriority(u) = d
    BY <2>1, <2>5, Zenon
  <2>6. QED
    BY <2>3, <2>4, <2>5, Zenon
<1>3. c \in 0 .. MaxU16
  <2>1. MaxU16 \in Int /\ 128 <= MaxU16
    BY DEF MaxU16
  <2>2. QED
    BY <1>2, <2>1, LevelsRange
<1>4. IsMax(c)
  BY <1>2
<1>5. c \in 0 .. MaxU16 /\ IsMax(c)
  BY <1>3, <1>4, Zenon
<1>6. Ceiling[r] = CHOOSE d \in 0 .. MaxU16 : IsMax(d)
  BY DEF Ceiling
<1>7. Ceiling[r] \in 0 .. MaxU16 /\ IsMax(Ceiling[r])
  BY <1>5, <1>6, Zenon
<1>8. Ceiling[r] \in 0 .. Levels
  <2>1. CASE Ceiling[r] = 0
    BY <2>1, LevelsRange
  <2>2. CASE \E t \in Tasks : r \in Uses[t] /\ CorePriority(t) = Ceiling[r]
    BY <1>1, <2>2, LevelsRange
  <2>3. QED
    BY <1>7, <2>1, <2>2
<1>9. QED
  BY <1>7, <1>8

(* In hardware terms: who can use a resource is at or below its ceiling,   *)
(* and only the top ceiling, locked by PRIMASK, has hardware value 0.      *)
LEMMA HwFacts ==
  ASSUME WellPrioritised
  PROVE  /\ \A a \in Actors : ExecPriority[a] \in 0 .. 256
         /\ \A t \in Tasks : ExecPriority[t] \in Hw
         /\ ExecPriority[Idle] = 256
         /\ \A r \in Resources : CeilingHw(r) \in Hw
         /\ \A t \in Tasks : \A r \in Uses[t] :
              Ceiling[r] # 0 /\ CeilingHw(r) <= ExecPriority[t]
         /\ \A r \in Resources : ~ UsesFree(r) /\ Ceiling[r] # 0 => CeilingHw(r) # 0
         /\ \A t \in Tasks, r \in Resources :
              IrqPriority(t) % 256 = 1 /\ Ceiling[r] # 0 =>
                CeilingHw(r) <= ExecPriority[t]
<1> USE LevelsRange DEF Hw
<1>1. \A t \in Tasks : /\ IrqPriority(t) = CorePriority(t)
                       /\ IrqPriority(t) \in 1 .. Levels
  BY DEF WellPrioritised
<1>2. /\ \A t \in Tasks : ExecPriority[t] = cortex_logical2hw(IrqPriority(t))
      /\ ExecPriority[Idle] = 256
  BY CoreAssumption DEF ExecPriority, Actors, ThreadMode
<1>3. ASSUME NEW k \in 0 .. Levels
      PROVE  /\ cortex_logical2hw(k) \in Hw
             /\ k # 0 /\ k # Levels => cortex_logical2hw(k) # 0
  <2>1. CASE k = 0
    BY <2>1, DeviceFacts
  <2>2. CASE k = Levels
    BY <2>2, DeviceFacts
  <2>3. CASE k \in 1 .. Levels /\ k < Levels
    <3>1. Levels \in 1 .. Levels
      OBVIOUS
    <3>2. /\ cortex_logical2hw(k) \in Hw
          /\ cortex_logical2hw(Levels) \in Hw
          /\ cortex_logical2hw(Levels) < cortex_logical2hw(k)
      BY <2>3, <3>1, DeviceFacts
    <3>3. QED
      BY <3>2
  <2>4. QED
    BY <2>1, <2>2, <2>3
<1>4. ASSUME NEW t \in Tasks
      PROVE  ExecPriority[t] \in Hw
  <2>1. IrqPriority(t) \in 0 .. Levels
    BY <1>1
  <2>2. cortex_logical2hw(IrqPriority(t)) \in Hw
    BY <1>3, <2>1
  <2>3. QED
    BY <1>2, <2>2
<1>5. \A a \in Actors : ExecPriority[a] \in 0 .. 256
  BY <1>2, <1>4 DEF Actors
<1>6. \A r \in Resources : Ceiling[r] \in 0 .. Levels
  BY CeilingFacts
<1>7. \A r \in Resources : CeilingHw(r) \in Hw
  BY <1>3, <1>6 DEF CeilingHw
<1>8. ASSUME NEW t \in Tasks, NEW r \in Uses[t]
      PROVE  Ceiling[r] # 0 /\ CeilingHw(r) <= ExecPriority[t]
  <2>1. r \in Resources
    BY CoreAssumption DEF Actors
  <2>2. /\ CorePriority(t) <= Ceiling[r]
        /\ CorePriority(t) \in 1 .. Levels
        /\ Ceiling[r] \in 1 .. Levels
    BY <1>1, <1>6, <2>1, CeilingFacts
  <2>3. cortex_logical2hw(Ceiling[r]) <= cortex_logical2hw(CorePriority(t))
    BY <2>2, HwAntitone
  <2>4. QED
    BY <1>1, <1>2, <2>2, <2>3 DEF CeilingHw
<1>9. ASSUME NEW r \in Resources, ~ UsesFree(r), Ceiling[r] # 0
      PROVE  CeilingHw(r) # 0
  <2>1. Ceiling[r] % 256 = Ceiling[r]
    BY <1>6
  <2>2. Ceiling[r] # Levels
    BY <1>9, <2>1 DEF UsesFree
  <2>3. QED
    BY <1>3, <1>6, <1>9, <2>2 DEF CeilingHw
<1>10. ASSUME NEW t \in Tasks, NEW r \in Resources,
              IrqPriority(t) % 256 = 1, Ceiling[r] # 0
       PROVE  CeilingHw(r) <= ExecPriority[t]
  <2>1. IrqPriority(t) = 1
    BY <1>1, <1>10
  <2>2. Ceiling[r] \in 1 .. Levels /\ 1 \in 1 .. Levels /\ 1 <= Ceiling[r]
    BY <1>6, <1>10
  <2>3. cortex_logical2hw(Ceiling[r]) <= cortex_logical2hw(1)
    BY <2>2, HwAntitone
  <2>4. QED
    BY <1>2, <2>1, <2>3 DEF CeilingHw
<1>11. QED
  BY <1>2, <1>4, <1>5, <1>7, <1>8, <1>9, <1>10

-----------------------------------------------------------------------------
(* Type correctness.                                                       *)

(* Arithmetic the provers find only when the operands are variables.       *)
LEMMA LengthBefore ==
  ASSUME NEW n \in Nat \ {0}, NEW m,
         m = IF 1 <= n - 1 THEN n - 1 - 1 + 1 ELSE 0
  PROVE  m = n - 1
  OBVIOUS

LEMMA BelowBasepri ==
  ASSUME NEW p \in Int, NEW b \in Int, NEW c \in Int, p < b, b <= c
  PROVE  p < c
  OBVIOUS

LEMMA PushPop ==
  ASSUME NEW S, NEW s \in Seq(S), s # <<>>
  PROVE  /\ Len(s) \in Nat \ {0}
         /\ Last(s) \in S
         /\ ButLast(s) \in Seq(S)
         /\ Len(ButLast(s)) = Len(s) - 1
         /\ \A i \in 1 .. Len(s) - 1 : ButLast(s)[i] = s[i]
<1>1. Len(s) \in Nat \ {0} /\ Len(s) \in Nat /\ Len(s) >= 1
  OBVIOUS
<1>2. Last(s) \in S
  BY <1>1 DEF Last
<1>3. ButLast(s) \in Seq(S)
  BY <1>1 DEF ButLast
<1>4. Len(ButLast(s)) = Len(s) - 1
  <2>1. \A i \in 1 .. Len(s) - 1 : s[i] \in S
    BY <1>1
  <2>2. Len(ButLast(s)) = IF 1 <= Len(s) - 1 THEN Len(s) - 1 - 1 + 1 ELSE 0
    BY <1>1, <2>1, SubSeqProperties DEF ButLast
  <2>3. QED
    BY <1>1, <2>2, LengthBefore, Zenon
<1>5. \A i \in 1 .. Len(s) - 1 : ButLast(s)[i] = s[i]
  BY <1>1 DEF ButLast
<1>6. QED
  BY <1>1, <1>2, <1>3, <1>4, <1>5

LEMMA TypeStep ==
  ASSUME WellPrioritised, TypeOK, CallsOK, [Next]_vars, SavedBit
  PROVE  TypeOK'
<1> USE DEF TypeOK, Hw
<1>1. ASSUME NEW t \in Tasks, Pend(t) PROVE TypeOK'
  BY <1>1 DEF Pend
<1>2. ASSUME NEW t \in Tasks, Preempt(t) PROVE TypeOK'
  BY <1>2, CoreAssumption DEF Preempt, Takable, Actors
<1>3. ASSUME NEW t \in Tasks, RunEntry(t) PROVE TypeOK'
  BY <1>3, CoreAssumption DEF RunEntry, RunSaves, Actors
<1>4. ASSUME NEW t \in Tasks, RunExit(t) PROVE TypeOK'
  BY <1>4, CoreAssumption DEF RunExit, Actors
<1>5. ASSUME NEW a \in Actors, NEW r \in Resources, LockFree(a, r) PROVE TypeOK'
  <2>1. [res |-> r, free |-> TRUE, saved |-> primask, raised |-> TRUE] \in LockCall
    BY DEF LockCall
  <2>2. locks' \in [Actors -> Seq(LockCall)]
    BY <1>5, <2>1 DEF LockFree
  <2>3. QED
    BY <1>5, <2>2 DEF LockFree
<1>6. ASSUME NEW a \in Actors, NEW r \in Resources, LockRead(a, r) PROVE TypeOK'
  <2>1. [res |-> r, free |-> FALSE, saved |-> basepri, raised |-> FALSE] \in LockCall
    BY DEF LockCall
  <2>2. locks' \in [Actors -> Seq(LockCall)]
    BY <1>6, <2>1 DEF LockRead
  <2>3. QED
    BY <1>6, <2>2 DEF LockRead
<1>7. ASSUME NEW a \in Actors, LockRaise(a) PROVE TypeOK'
  <2> DEFINE n == Len(locks[a])
             top == Last(locks[a])
  <2>1. n \in Nat \ {0} /\ top \in LockCall /\ top = locks[a][n]
    BY <1>7, PushPop DEF LockRaise, Last
  <2>2. [top EXCEPT !.raised = TRUE] \in LockCall
    BY <2>1 DEF LockCall
  <2>3. locks' = [locks EXCEPT ![a] = [@ EXCEPT ![n] = [top EXCEPT !.raised = TRUE]]]
    BY <1>7, <2>1 DEF LockRaise
  <2>4. [locks[a] EXCEPT ![n] = [top EXCEPT !.raised = TRUE]] \in Seq(LockCall)
    BY <2>1, <2>2
  <2>5. locks' \in [Actors -> Seq(LockCall)]
    BY <2>3, <2>4
  <2>6. basepri' \in Hw
    <3>1. top.res \in Resources
      BY <2>1 DEF LockCall
    <3>2. \A r \in Resources : CeilingHw(r) \in Hw
      BY HwFacts
    <3>3. QED
      BY <1>7, <3>1, <3>2 DEF LockRaise, BasepriMax, CeilingHw
  <2>7. QED
    BY <1>7, <2>5, <2>6 DEF LockRaise
<1>8. ASSUME NEW a \in Actors, Unlock(a) PROVE TypeOK'
  <2> DEFINE n == Len(locks[a])
             top == Last(locks[a])
  <2>1. n \in Nat \ {0} /\ top \in LockCall /\ top = locks[a][n]
    BY <1>8, PushPop DEF Unlock, Last
  <2>2. top.saved \in Hw
    BY <2>1 DEF LockCall
  <2>3. top.free => top.saved \in {0, 1}
    BY <2>1 DEF SavedBit, Calls, FreeAt, SavedAt
  <2>4. ButLast(locks[a]) \in Seq(LockCall)
    BY <1>8, PushPop DEF Unlock
  <2>5. locks' \in [Actors -> Seq(LockCall)]
    BY <1>8, <2>4 DEF Unlock
  <2>6. QED
    BY <1>8, <2>2, <2>3, <2>5 DEF Unlock, RestoredBasepri, RestoredPrimask
<1>9. ASSUME UNCHANGED vars PROVE TypeOK'
  BY <1>9 DEF vars
<1>10. QED
  BY <1>1, <1>2, <1>3, <1>4, <1>5, <1>6, <1>7, <1>8, <1>9 DEF Next

-----------------------------------------------------------------------------
(* The other conjuncts, action by action.                                  *)

LEMMA CallTypes ==
  ASSUME TypeOK, NEW a \in Actors
  PROVE  /\ locks[a] \in Seq(LockCall)
         /\ Len(locks[a]) \in Nat
         /\ \A i \in Calls(a) : /\ locks[a][i] \in LockCall
                                /\ ResAt(a, i) \in Resources
                                /\ SavedAt(a, i) \in Hw
                                /\ FreeAt(a, i) \in BOOLEAN
                                /\ RaisedAt(a, i) \in BOOLEAN
<1>1. locks[a] \in Seq(LockCall)
  BY DEF TypeOK
<1>2. \A i \in Calls(a) : locks[a][i] \in LockCall
  BY <1>1 DEF Calls
<1>3. QED
  BY <1>1, <1>2 DEF LockCall, ResAt, SavedAt, FreeAt, RaisedAt

Rest == CallsOK /\ Nested /\ AboveCeilings /\ Protected /\ SavedOuter
        /\ SavedBelow /\ InitialBelow /\ SavedBit

LEMMA PreemptStep ==
  ASSUME WellPrioritised, TypeOK, CallsOK, Nested, AboveCeilings, Protected,
         SavedOuter, SavedBelow, InitialBelow, SavedBit, NEW t \in Tasks, Preempt(t)
  PROVE  Rest'
<1>1. t \in Actors /\ ExecPriority[t] \in Int
  BY HwFacts DEF Actors, Hw
<1>2. \A a \in Actors : Active(a) => ExecPriority[t] < ExecPriority[a]
  BY DEF Preempt, Takable
<1>3. pc[t] = "off"
  BY <1>1, <1>2 DEF Active
<1>4. /\ locks' = locks /\ basepri' = basepri /\ primask' = primask
      /\ initial' = initial /\ pc'[t] = "entry"
      /\ \A a \in Actors : a # t => pc'[a] = pc[a]
  BY <1>1 DEF Preempt, TypeOK
<1>5. Calls(t) = {}
  BY <1>1, <1>3 DEF CallsOK
<1>6. CallsOK'
  BY <1>4, <1>5 DEF CallsOK, UsesFree,
         Calls, RaisedAt, FreeAt, ResAt, SavedAt
<1>7. Nested'
  <2>1. \A a \in Actors : Active(a) /\ a # t => ExecPriority[t] # ExecPriority[a]
    BY <1>1, <1>2, HwFacts
  <2>2. QED
    BY <1>4, <2>1 DEF Nested, Active
<1>8. AboveCeilings'
  <2>1. SUFFICES ASSUME NEW a \in Actors, ExecPriority[t] < ExecPriority[a],
                        NEW i \in Calls(a), RaisedAt(a, i)
                 PROVE  /\ ~ FreeAt(a, i)
                        /\ Ceiling[ResAt(a, i)] # 0 =>
                             ExecPriority[t] < CeilingHw(ResAt(a, i))
    BY <1>4 DEF AboveCeilings, Active, CeilingHw,
         Calls, RaisedAt, FreeAt, ResAt, SavedAt
  <2>2. basepri \in Hw /\ ExecPriority[t] \in Hw
    BY HwFacts DEF TypeOK
  <2>3. primask = 0 /\ (basepri # 0 => ExecPriority[t] < basepri)
    <3>1. primask = 0 /\ ~ (basepri # 0 /\ ExecPriority[t] >= basepri)
      BY DEF Preempt, Takable, MaskedBy
    <3>2. basepri # 0 => ExecPriority[t] < basepri
      BY <2>2, <3>1 DEF Hw
    <3>3. QED
      BY <3>1, <3>2
  <2>4. ~ FreeAt(a, i)
    BY <2>1, <2>3 DEF Protected
  <2>4a. Protects(basepri, ResAt(a, i))
    BY <2>1, <2>4 DEF Protected
  <2>5. ResAt(a, i) \in Resources
    BY CallTypes
  <2>6. CeilingHw(ResAt(a, i)) \in Hw
    BY <2>5, HwFacts
  <2>7. ASSUME Ceiling[ResAt(a, i)] # 0
        PROVE  ExecPriority[t] < CeilingHw(ResAt(a, i))
    <3>1. /\ basepri \in Int /\ ExecPriority[t] \in Int
          /\ CeilingHw(ResAt(a, i)) \in Int
      BY <2>2, <2>6 DEF Hw
    <3>2. ExecPriority[t] < basepri /\ basepri <= CeilingHw(ResAt(a, i))
      BY <2>3, <2>4a, <2>7, Zenon DEF Protects
    <3>3. QED
      BY <3>1, <3>2, BelowBasepri, Zenon
  <2>8. QED
    BY <2>4, <2>7
<1>9. Protected'
  BY <1>4 DEF Protected, Protects, CeilingHw,
         Calls, RaisedAt, FreeAt, ResAt, SavedAt
<1>10. SavedOuter'
  BY <1>4 DEF SavedOuter, Protects, CeilingHw,
         Calls, RaisedAt, FreeAt, ResAt, SavedAt
<1>11. SavedBelow'
  BY <1>4, <1>5 DEF SavedBelow, Protects, CeilingHw, Active,
         Calls, RaisedAt, FreeAt, ResAt, SavedAt
<1>12. InitialBelow'
  BY <1>4 DEF InitialBelow, Protects, CeilingHw, Actors,
         Calls, RaisedAt, FreeAt, ResAt, SavedAt
<1>13. SavedBit'
  BY <1>4 DEF SavedBit,
         Calls, RaisedAt, FreeAt, ResAt, SavedAt
<1>14. QED
  BY <1>6, <1>7, <1>8, <1>9, <1>10, <1>11, <1>12, <1>13 DEF Rest

(* Pend, and steps that change nothing.                                    *)
LEMMA FrameStep ==
  ASSUME CallsOK, Nested, AboveCeilings, Protected, SavedOuter, SavedBelow,
         InitialBelow, SavedBit, UNCHANGED <<pc, initial, locks, basepri, primask>>
  PROVE  Rest'
<1> USE DEF Calls, RaisedAt, FreeAt, ResAt, SavedAt, Protects, CeilingHw, Active
<1>1. CallsOK' /\ Nested'
  BY DEF CallsOK, Nested, UsesFree
<1>2. AboveCeilings' /\ Protected'
  BY DEF AboveCeilings, Protected
<1>3. SavedOuter' /\ SavedBit'
  BY DEF SavedOuter, SavedBit
<1>4. SavedBelow' /\ InitialBelow'
  BY DEF SavedBelow, InitialBelow
<1>5. QED
  BY <1>1, <1>2, <1>3, <1>4 DEF Rest

(* While an actor runs, nobody above it is active.                         *)
LEMMA NobodyAbove ==
  ASSUME WellPrioritised, NEW a \in Actors, Running(a)
  PROVE  /\ \A b \in Actors : Active(b) => ~ (ExecPriority[b] < ExecPriority[a])
         /\ \A b \in Actors : Active(b) /\ b # a => ExecPriority[a] < ExecPriority[b]
<1>1. \A b \in Actors : Active(b) /\ b # a => ExecPriority[a] < ExecPriority[b]
  BY DEF Running
<1>2. \A b \in Actors : ExecPriority[b] \in Int
  BY HwFacts
<1>3. QED
  BY <1>1, <1>2

(* Nothing run by a task of priority 1 is under a lock it could break: the *)
(* 0 that run writes back is what BASEPRI was.                             *)
LEMMA RunSavesProtects ==
  ASSUME WellPrioritised, TypeOK, AboveCeilings, Protected,
         NEW t \in Tasks, Active(t), NEW b \in Actors,
         ExecPriority[t] < ExecPriority[b], NEW i \in Calls(b), RaisedAt(b, i)
  PROVE  Protects(RunSaves(t), ResAt(b, i))
<1>1. t \in Actors
  BY DEF Actors
<1>2. /\ ~ FreeAt(b, i)
      /\ Ceiling[ResAt(b, i)] # 0 => ExecPriority[t] < CeilingHw(ResAt(b, i))
  BY <1>1, Zenon DEF AboveCeilings
<1>3. Protects(basepri, ResAt(b, i))
  BY <1>2 DEF Protected
<1>4. ResAt(b, i) \in Resources
  BY CallTypes
<1>5. IrqPriority(t) % 256 = 1 => Ceiling[ResAt(b, i)] = 0
  <2>1. SUFFICES ASSUME IrqPriority(t) % 256 = 1, Ceiling[ResAt(b, i)] # 0
                 PROVE  FALSE
    BY Zenon
  <2>2. CeilingHw(ResAt(b, i)) <= ExecPriority[t]
    BY <1>4, <2>1, HwFacts
  <2>3. ExecPriority[t] < CeilingHw(ResAt(b, i))
    BY <1>2, <2>1
  <2>4. CeilingHw(ResAt(b, i)) \in Int /\ ExecPriority[t] \in Int
    BY <1>4, HwFacts DEF Hw
  <2>5. ~ (ExecPriority[t] < ExecPriority[t])
    BY <2>4
  <2>6. QED
    BY <2>2, <2>3, <2>4, <2>5, BelowBasepri, Zenon
<1>6. QED
  BY <1>3, <1>5 DEF RunSaves, Protects

LEMMA RunEntryStep ==
  ASSUME WellPrioritised, TypeOK, CallsOK, Nested, AboveCeilings, Protected,
         SavedOuter, SavedBelow, InitialBelow, SavedBit, NEW t \in Tasks, RunEntry(t)
  PROVE  Rest'
<1>1. t \in Actors /\ Active(t)
  BY DEF Actors, RunEntry, Running
<1>2. /\ locks' = locks /\ basepri' = basepri /\ primask' = primask
      /\ pc'[t] = "body" /\ \A a \in Actors : a # t => pc'[a] = pc[a]
      /\ initial'[t] = RunSaves(t)
      /\ \A a \in Actors : a # t => initial'[a] = initial[a]
  BY <1>1 DEF RunEntry, TypeOK
<1>3. \A a \in Actors : Active(a)' <=> Active(a)
  BY <1>1, <1>2 DEF Active
<1>4. CallsOK'
  BY <1>2 DEF CallsOK, UsesFree, Calls, RaisedAt, FreeAt, ResAt
<1>5. Nested'
  BY <1>3 DEF Nested
<1>6. AboveCeilings'
  BY <1>2, <1>3 DEF AboveCeilings, CeilingHw, Calls, RaisedAt, FreeAt, ResAt
<1>7. Protected' /\ SavedOuter' /\ SavedBit'
  BY <1>2 DEF Protected, SavedOuter, SavedBit, Protects, CeilingHw,
              Calls, RaisedAt, FreeAt, ResAt, SavedAt
<1>8. SavedBelow'
  BY <1>2, <1>3 DEF SavedBelow, Protects, CeilingHw,
                    Calls, RaisedAt, FreeAt, ResAt, SavedAt
<1>9. InitialBelow'
  <2>1. SUFFICES ASSUME NEW u \in Tasks, NEW b \in Actors, pc'[u] = "body",
                        ExecPriority[u] < ExecPriority[b],
                        NEW i \in Calls(b), RaisedAt(b, i)
                 PROVE  Protects(initial'[u], ResAt(b, i))
    BY <1>2 DEF InitialBelow, Protects, CeilingHw, Calls, RaisedAt, ResAt
  <2>2. CASE u = t
    BY <1>1, <1>2, <2>1, <2>2, RunSavesProtects
  <2>3. CASE u # t
    BY <1>2, <2>1, <2>3 DEF InitialBelow, Actors
  <2>4. QED
    BY <2>2, <2>3
<1>10. QED
  BY <1>4, <1>5, <1>6, <1>7, <1>8, <1>9 DEF Rest

LEMMA RunExitStep ==
  ASSUME WellPrioritised, TypeOK, CallsOK, Nested, AboveCeilings, Protected,
         SavedOuter, SavedBelow, InitialBelow, SavedBit, NEW t \in Tasks, RunExit(t)
  PROVE  Rest'
<1>1. t \in Actors /\ Running(t) /\ pc[t] = "body" /\ Active(t)
  BY DEF Actors, RunExit, Running
<1>2. /\ locks' = locks /\ basepri' = initial[t] /\ primask' = primask
      /\ pc'[t] = "off" /\ \A a \in Actors : a # t => pc'[a] = pc[a]
      /\ \A a \in Actors : a # t => initial'[a] = initial[a]
  BY <1>1 DEF RunExit, TypeOK
<1>3. Calls(t) = {}
  BY DEF RunExit, Calls
<1>4. \A a \in Actors : Active(a)' => Active(a)
  BY <1>1, <1>2 DEF Active
<1>5. CallsOK'
  BY <1>2, <1>3 DEF CallsOK, UsesFree, Calls, RaisedAt, FreeAt, ResAt
<1>6. Nested'
  BY <1>4 DEF Nested
<1>7. AboveCeilings'
  BY <1>2, <1>4 DEF AboveCeilings, CeilingHw, Calls, RaisedAt, FreeAt, ResAt
<1>8. Protected'
  <2>1. SUFFICES ASSUME NEW a \in Actors, NEW i \in Calls(a), RaisedAt(a, i)
                 PROVE  ~ FreeAt(a, i) /\ Protects(initial[t], ResAt(a, i))
    BY <1>2 DEF Protected, Protects, CeilingHw, Calls, RaisedAt, FreeAt, ResAt
  <2>2. a # t /\ Active(a)
    BY <1>3 DEF CallsOK, Active
  <2>3. ExecPriority[t] < ExecPriority[a]
    BY <1>1, <2>2, NobodyAbove
  <2>4. ~ FreeAt(a, i)
    BY <1>1, <2>1, <2>3, Zenon DEF AboveCeilings
  <2>5. Protects(initial[t], ResAt(a, i))
    BY <1>1, <2>1, <2>3, Zenon DEF InitialBelow
  <2>6. QED
    BY <2>4, <2>5
<1>9. SavedOuter' /\ SavedBit'
  BY <1>2 DEF SavedOuter, SavedBit, Protects, CeilingHw,
              Calls, RaisedAt, FreeAt, ResAt, SavedAt
<1>10. SavedBelow'
  BY <1>2, <1>4 DEF SavedBelow, Protects, CeilingHw,
                    Calls, RaisedAt, FreeAt, ResAt, SavedAt
<1>11. InitialBelow'
  BY <1>2 DEF InitialBelow, Protects, CeilingHw, Actors,
              Calls, RaisedAt, FreeAt, ResAt, SavedAt
<1>12. QED
  BY <1>5, <1>6, <1>7, <1>8, <1>9, <1>10, <1>11 DEF Rest

(* A new innermost call: the others are as they were.                      *)
LEMMA PushFacts ==
  ASSUME TypeOK, NEW a \in Actors, NEW call \in LockCall,
         locks' = [locks EXCEPT ![a] = Append(@, call)],
         NEW n, n = Len(locks[a]) + 1
  PROVE  /\ n \in Nat /\ Len(locks[a]) \in Nat
         /\ Len(locks'[a]) = n /\ n \in Calls(a)'
         /\ \A b \in Actors : b # a => Len(locks'[b]) = Len(locks[b])
         /\ \A b \in Actors : \A i \in Calls(b)' :
              i \in Calls(b) \/ (b = a /\ i = n)
         /\ \A b \in Actors : \A i \in Calls(b) :
              /\ ResAt(b, i)' = ResAt(b, i) /\ FreeAt(b, i)' = FreeAt(b, i)
              /\ SavedAt(b, i)' = SavedAt(b, i) /\ RaisedAt(b, i)' = RaisedAt(b, i)
         /\ ResAt(a, n)' = call.res /\ FreeAt(a, n)' = call.free
         /\ SavedAt(a, n)' = call.saved /\ RaisedAt(a, n)' = call.raised
<1>1. locks[a] \in Seq(LockCall) /\ Len(locks[a]) \in Nat /\ n \in Nat
  BY DEF TypeOK
<1>2. /\ locks'[a] = Append(locks[a], call)
      /\ \A b \in Actors : b # a => locks'[b] = locks[b]
  BY DEF TypeOK
<1>3. /\ Len(locks'[a]) = n /\ locks'[a][n] = call
      /\ \A i \in 1 .. Len(locks[a]) : locks'[a][i] = locks[a][i]
  BY <1>1, <1>2
<1>4. n \in Calls(a)' /\ \A i \in Calls(a)' : i \in Calls(a) \/ i = n
  BY <1>1, <1>3 DEF Calls
<1>5. \A b \in Actors : \A i \in Calls(b)' : i \in Calls(b) \/ (b = a /\ i = n)
  BY <1>2, <1>4 DEF Calls
<1>6. \A b \in Actors : \A i \in Calls(b) : locks'[b][i] = locks[b][i]
  BY <1>2, <1>3 DEF Calls
<1>7. \A b \in Actors : \A i \in Calls(b) :
        /\ ResAt(b, i)' = ResAt(b, i) /\ FreeAt(b, i)' = FreeAt(b, i)
        /\ SavedAt(b, i)' = SavedAt(b, i) /\ RaisedAt(b, i)' = RaisedAt(b, i)
  BY <1>6 DEF ResAt, FreeAt, SavedAt, RaisedAt
<1>8. /\ ResAt(a, n)' = call.res /\ FreeAt(a, n)' = call.free
      /\ SavedAt(a, n)' = call.saved /\ RaisedAt(a, n)' = call.raised
  BY <1>3 DEF ResAt, FreeAt, SavedAt, RaisedAt
<1>9. QED
  BY <1>1, <1>2, <1>3, <1>4, <1>5, <1>7, <1>8

(* In a body, every call of the actor has raised its ceiling.              *)
LEMMA BodyRaised ==
  ASSUME TypeOK, CallsOK, NEW a \in Actors, InBody(a)
  PROVE  \A i \in Calls(a) : RaisedAt(a, i)
<1>1. Len(locks[a]) \in Nat
  BY CallTypes
<1>2. SUFFICES ASSUME NEW i \in Calls(a) PROVE RaisedAt(a, i)
  OBVIOUS
<1>3. CASE i < Len(locks[a])
  BY <1>3 DEF CallsOK
<1>4. CASE i = Len(locks[a])
  <2>1. locks[a] # <<>>
    BY <1>1, <1>4, CallTypes DEF Calls
  <2>2. QED
    BY <1>4, <2>1 DEF InBody, Last, RaisedAt
<1>5. QED
  BY <1>1, <1>3, <1>4 DEF Calls

(* Both ways to start a lock add a call to the running actor.  What is     *)
(* asked of the call: it saved the masks that protect the closures around  *)
(* and below it.                                                           *)
LEMMA PushStep ==
  ASSUME WellPrioritised, TypeOK, CallsOK, Nested, AboveCeilings, Protected,
         SavedOuter, SavedBelow, InitialBelow, SavedBit,
         NEW a \in Actors, NEW call \in LockCall, InBody(a),
         locks' = [locks EXCEPT ![a] = Append(@, call)],
         UNCHANGED <<pc, initial, basepri>>,
         call.res \in Uses[a], call.free <=> UsesFree(call.res),
         call.free <=> call.raised,
         IF call.free THEN call.saved = primask /\ primask' = 1
         ELSE call.saved = basepri /\ primask' = primask
  PROVE  Rest'
<1>0. PICK n : n = Len(locks[a]) + 1
  OBVIOUS
<1>1. /\ n \in Nat /\ Len(locks[a]) \in Nat
      /\ Len(locks'[a]) = n /\ n \in Calls(a)'
      /\ \A b \in Actors : b # a => Len(locks'[b]) = Len(locks[b])
      /\ \A b \in Actors : \A i \in Calls(b)' :
           i \in Calls(b) \/ (b = a /\ i = n)
      /\ \A b \in Actors : \A i \in Calls(b) :
           /\ ResAt(b, i)' = ResAt(b, i) /\ FreeAt(b, i)' = FreeAt(b, i)
           /\ SavedAt(b, i)' = SavedAt(b, i) /\ RaisedAt(b, i)' = RaisedAt(b, i)
      /\ ResAt(a, n)' = call.res /\ FreeAt(a, n)' = call.free
      /\ SavedAt(a, n)' = call.saved /\ RaisedAt(a, n)' = call.raised
  BY <1>0, PushFacts
<1>2. \A i \in Calls(a) : RaisedAt(a, i)
  BY BodyRaised
<1>3. pc[a] = "body" /\ Running(a) /\ Active(a)
  BY DEF InBody, Running
<1>4. /\ \A b \in Actors : Active(b) => ~ (ExecPriority[b] < ExecPriority[a])
      /\ \A b \in Actors : Active(b)' <=> Active(b)
  BY <1>3, NobodyAbove DEF Active
<1>5. \A level, r : Protects(level, r)' <=> Protects(level, r)
  BY DEF Protects, CeilingHw
<1>6. CallsOK'
  <2>1. SUFFICES ASSUME NEW b \in Actors, NEW i \in Calls(b)'
                 PROVE  /\ pc[b] = "body"
                        /\ ResAt(b, i)' \in Uses[b]
                        /\ FreeAt(b, i)' <=> UsesFree(ResAt(b, i)')
                        /\ FreeAt(b, i)' \/ i < Len(locks'[b]) => RaisedAt(b, i)'
    BY DEF CallsOK, UsesFree
  <2>2. CASE b = a /\ i = n
    BY <1>1, <1>3, <2>2
  <2>3. CASE i \in Calls(b) /\ b = a
    BY <1>1, <1>2, <2>3 DEF CallsOK
  <2>4. CASE i \in Calls(b) /\ b # a
    BY <1>1, <2>4 DEF CallsOK
  <2>5. QED
    BY <1>1, <2>2, <2>3, <2>4
<1>7. Nested'
  BY <1>4 DEF Nested
<1>8. AboveCeilings'
  <2>1. SUFFICES ASSUME NEW x \in Actors, NEW b \in Actors, Active(b),
                        ExecPriority[b] < ExecPriority[x],
                        NEW i \in Calls(x)', RaisedAt(x, i)'
                 PROVE  /\ ~ FreeAt(x, i)'
                        /\ Ceiling[ResAt(x, i)'] # 0 =>
                             ExecPriority[b] < CeilingHw(ResAt(x, i)')
    BY <1>4 DEF AboveCeilings, CeilingHw
  <2>2. i \in Calls(x)
    BY <1>1, <1>4, <2>1, Zenon
  <2>3. /\ ResAt(x, i)' = ResAt(x, i) /\ FreeAt(x, i)' = FreeAt(x, i)
        /\ RaisedAt(x, i)
    BY <1>1, <2>1, <2>2
  <2>4. /\ ~ FreeAt(x, i)
        /\ Ceiling[ResAt(x, i)] # 0 => ExecPriority[b] < CeilingHw(ResAt(x, i))
    BY <2>1, <2>2, <2>3, Zenon DEF AboveCeilings
  <2>5. QED
    BY <2>3, <2>4
<1>9. Protected'
  <2>1. SUFFICES ASSUME NEW b \in Actors, NEW i \in Calls(b)', RaisedAt(b, i)'
                 PROVE  IF FreeAt(b, i)' THEN primask' = 1
                        ELSE Protects(basepri, ResAt(b, i)')
    BY DEF Protected, Protects, CeilingHw
  <2>2. CASE b = a /\ i = n
    BY <1>1, <2>1, <2>2
  <2>3. CASE i \in Calls(b)
    BY <1>1, <2>1, <2>3 DEF Protected
  <2>4. QED
    BY <1>1, <2>2, <2>3
<1>10. SavedOuter'
  <2>1. SUFFICES ASSUME NEW b \in Actors, NEW i \in Calls(b)', NEW j \in Calls(b)',
                        i < j, FreeAt(b, i)' <=> FreeAt(b, j)'
                 PROVE  IF FreeAt(b, j)' THEN SavedAt(b, j)' = 1
                        ELSE Protects(SavedAt(b, j)', ResAt(b, i)')
    BY DEF SavedOuter, Protects, CeilingHw
  <2>2. i \in Calls(b)
    BY <1>0, <1>1, <2>1 DEF Calls
  <2>3. CASE j \in Calls(b)
    BY <1>1, <2>1, <2>2, <2>3 DEF SavedOuter
  <2>4. CASE b = a /\ j = n
    <3>1. RaisedAt(a, i)
      BY <1>2, <2>2, <2>4
    <3>2. IF FreeAt(a, i) THEN primask = 1 ELSE Protects(basepri, ResAt(a, i))
      BY <2>2, <2>4, <3>1 DEF Protected
    <3>3. QED
      BY <1>1, <2>1, <2>2, <2>4, <3>2
  <2>5. QED
    BY <1>1, <2>3, <2>4
<1>11. SavedBelow'
  <2>1. SUFFICES ASSUME NEW x \in Actors, NEW b \in Actors, Active(x),
                        ExecPriority[x] < ExecPriority[b],
                        NEW i \in Calls(b)', NEW j \in Calls(x)',
                        RaisedAt(b, i)', ~ FreeAt(x, j)'
                 PROVE  Protects(SavedAt(x, j)', ResAt(b, i)')
    BY <1>4 DEF SavedBelow, Protects, CeilingHw
  <2>2. i \in Calls(b)
    BY <1>1, <1>4, <2>1, Zenon
  <2>3. CASE j \in Calls(x)
    <3>1. Protects(SavedAt(x, j), ResAt(b, i))
      BY <1>1, <2>1, <2>2, <2>3, Zenon DEF SavedBelow
    <3>2. QED
      BY <1>1, <2>2, <2>3, <3>1
  <2>4. CASE x = a /\ j = n
    <3>1. RaisedAt(b, i)
      BY <1>1, <2>1, <2>2
    <3>2. ~ FreeAt(b, i)
      BY <2>1, <2>2, <3>1, Zenon DEF AboveCeilings
    <3>3. Protects(basepri, ResAt(b, i))
      BY <2>2, <3>1, <3>2 DEF Protected
    <3>4. QED
      BY <1>1, <2>1, <2>2, <2>4, <3>3
  <2>5. QED
    BY <1>1, <2>3, <2>4
<1>12. InitialBelow'
  <2>1. SUFFICES ASSUME NEW t \in Tasks, NEW b \in Actors, pc[t] = "body",
                        ExecPriority[t] < ExecPriority[b],
                        NEW i \in Calls(b)', RaisedAt(b, i)'
                 PROVE  Protects(initial[t], ResAt(b, i)')
    BY DEF InitialBelow, Protects, CeilingHw
  <2>2. Active(t) /\ t \in Actors
    BY <2>1 DEF Active, Actors
  <2>3. i \in Calls(b)
    BY <1>1, <1>4, <2>1, <2>2, Zenon
  <2>4. QED
    BY <1>1, <2>1, <2>3, Zenon DEF InitialBelow
<1>13. SavedBit'
  BY <1>1 DEF SavedBit, TypeOK
<1>14. QED
  BY <1>6, <1>7, <1>8, <1>9, <1>10, <1>11, <1>12, <1>13 DEF Rest

LEMMA LockStep ==
  ASSUME WellPrioritised, TypeOK, CallsOK, Nested, AboveCeilings, Protected,
         SavedOuter, SavedBelow, InitialBelow, SavedBit,
         NEW a \in Actors, NEW r \in Resources, LockFree(a, r) \/ LockRead(a, r)
  PROVE  Rest'
<1>1. InBody(a) /\ r \in Uses[a]
  BY DEF LockFree, LockRead, CanLock
<1>2. CASE LockFree(a, r)
  <2> DEFINE call == [res |-> r, free |-> TRUE, saved |-> primask, raised |-> TRUE]
  <2>1. call \in LockCall
    BY DEF LockCall, TypeOK, Hw
  <2>2. /\ locks' = [locks EXCEPT ![a] = Append(@, call)]
        /\ UNCHANGED <<pc, initial, basepri>> /\ UsesFree(r) /\ primask' = 1
    BY <1>2 DEF LockFree
  <2>3. /\ call.res = r /\ call.free = TRUE
        /\ call.saved = primask /\ call.raised = TRUE
    OBVIOUS
  <2> HIDE DEF call
  <2>4. QED
    BY <1>1, <2>1, <2>2, <2>3, PushStep
<1>3. CASE LockRead(a, r)
  <2> DEFINE call == [res |-> r, free |-> FALSE, saved |-> basepri, raised |-> FALSE]
  <2>1. call \in LockCall
    BY DEF LockCall, TypeOK
  <2>2. /\ locks' = [locks EXCEPT ![a] = Append(@, call)]
        /\ UNCHANGED <<pc, initial, basepri>> /\ ~ UsesFree(r) /\ primask' = primask
    BY <1>3 DEF LockRead
  <2>3. /\ call.res = r /\ call.free = FALSE
        /\ call.saved = basepri /\ call.raised = FALSE
    OBVIOUS
  <2> HIDE DEF call
  <2>4. QED
    BY <1>1, <2>1, <2>2, <2>3, PushStep
<1>4. QED
  BY <1>2, <1>3

(* BASEPRI_MAX keeps the protection there was and adds that of r.          *)
LEMMA BasepriMaxProtects ==
  ASSUME WellPrioritised, TypeOK, NEW r \in Resources, ~ UsesFree(r)
  PROVE  /\ Protects(BasepriMax(CeilingHw(r)), r)
         /\ \A x \in Resources : Protects(basepri, x) =>
              Protects(BasepriMax(CeilingHw(r)), x)
<1>1. PICK h \in Hw : h = CeilingHw(r)
  BY HwFacts
<1>2. basepri \in Hw
  BY DEF TypeOK
<1>3. Ceiling[r] # 0 => h # 0
  BY <1>1, HwFacts
<1>4. PICK m \in Hw : m = BasepriMax(h)
  BY <1>2 DEF BasepriMax
<1>5. (h # 0 => m # 0 /\ m <= h) /\ (basepri # 0 => m # 0 /\ m <= basepri)
  BY <1>2, <1>4 DEF BasepriMax, Hw
<1>6. Protects(m, r)
  BY <1>1, <1>3, <1>5 DEF Protects
<1>7. ASSUME NEW x \in Resources, Protects(basepri, x), Ceiling[x] # 0
      PROVE  m # 0 /\ m <= CeilingHw(x)
  <2>1. PICK c \in Hw : c = CeilingHw(x)
    BY HwFacts
  <2>2. basepri # 0 /\ basepri <= c
    BY <1>7, <2>1 DEF Protects
  <2>3. m # 0 /\ m <= c
    BY <1>2, <1>5, <2>2 DEF Hw
  <2>4. QED
    BY <2>1, <2>3
<1>8. \A x \in Resources : Protects(basepri, x) => Protects(m, x)
  BY <1>7 DEF Protects
<1>9. QED
  BY <1>1, <1>4, <1>6, <1>8

(* The innermost call is marked as raised, and nothing else changes.       *)
LEMMA RaiseFacts ==
  ASSUME TypeOK, CallsOK, NEW a \in Actors, LockRaise(a), NEW n, n = Len(locks[a])
  PROVE  /\ n \in Nat \ {0} /\ n \in Calls(a)
         /\ UNCHANGED <<pc, initial, primask>>
         /\ basepri' = BasepriMax(CeilingHw(ResAt(a, n)))
         /\ ~ RaisedAt(a, n) /\ Running(a)
         /\ \A b \in Actors : Len(locks'[b]) = Len(locks[b]) /\ Calls(b)' = Calls(b)
         /\ \A b \in Actors : \A i \in Calls(b) :
              /\ ResAt(b, i)' = ResAt(b, i) /\ FreeAt(b, i)' = FreeAt(b, i)
              /\ SavedAt(b, i)' = SavedAt(b, i)
              /\ RaisedAt(b, i)' <=> (RaisedAt(b, i) \/ (b = a /\ i = n))
         /\ ~ FreeAt(a, n) /\ ResAt(a, n) \in Resources
         /\ ~ UsesFree(ResAt(a, n)) /\ pc[a] = "body"
<1>1. locks[a] \in Seq(LockCall) /\ n \in Nat \ {0} /\ n \in Calls(a)
  BY CallTypes DEF LockRaise, Calls
<1>2. locks[a][n] \in LockCall /\ Last(locks[a]) = locks[a][n]
  BY <1>1 DEF Calls, Last
<1>3. /\ locks'[a] = [locks[a] EXCEPT ![n] = [locks[a][n] EXCEPT !.raised = TRUE]]
      /\ \A b \in Actors : b # a => locks'[b] = locks[b]
      /\ UNCHANGED <<pc, initial, primask>>
      /\ basepri' = BasepriMax(CeilingHw(ResAt(a, n)))
      /\ ~ RaisedAt(a, n) /\ Running(a)
  BY <1>1, <1>2 DEF LockRaise, TypeOK, CeilingHw, ResAt, RaisedAt
<1>4. /\ Len(locks'[a]) = n
      /\ \A i \in 1 .. n : i # n => locks'[a][i] = locks[a][i]
      /\ locks'[a][n] = [locks[a][n] EXCEPT !.raised = TRUE]
  BY <1>1, <1>3
<1>5. \A b \in Actors : Len(locks'[b]) = Len(locks[b]) /\ Calls(b)' = Calls(b)
  BY <1>3, <1>4 DEF Calls
<1>6. \A b \in Actors : \A i \in Calls(b) :
        /\ ResAt(b, i)' = ResAt(b, i) /\ FreeAt(b, i)' = FreeAt(b, i)
        /\ SavedAt(b, i)' = SavedAt(b, i)
        /\ RaisedAt(b, i)' <=> (RaisedAt(b, i) \/ (b = a /\ i = n))
  <2>1. SUFFICES ASSUME NEW b \in Actors, NEW i \in Calls(b)
                 PROVE  /\ ResAt(b, i)' = ResAt(b, i) /\ FreeAt(b, i)' = FreeAt(b, i)
                        /\ SavedAt(b, i)' = SavedAt(b, i)
                        /\ RaisedAt(b, i)' <=> (RaisedAt(b, i) \/ (b = a /\ i = n))
    OBVIOUS
  <2>2. CASE b = a /\ i = n
    BY <1>2, <1>4, <2>2 DEF ResAt, FreeAt, SavedAt, RaisedAt, LockCall
  <2>3. CASE ~ (b = a /\ i = n)
    <3>1. locks'[b][i] = locks[b][i]
      BY <1>3, <1>4, <2>3 DEF Calls
    <3>2. QED
      BY <2>3, <3>1 DEF ResAt, FreeAt, SavedAt, RaisedAt
  <2>4. QED
    BY <2>2, <2>3
<1>7. ~ FreeAt(a, n) /\ ResAt(a, n) \in Resources /\ ~ UsesFree(ResAt(a, n))
      /\ pc[a] = "body"
  BY <1>1, <1>3, CallTypes DEF CallsOK
<1>8. QED
  BY <1>1, <1>3, <1>5, <1>6, <1>7

LEMMA LockRaiseStep ==
  ASSUME WellPrioritised, TypeOK, CallsOK, Nested, AboveCeilings, Protected,
         SavedOuter, SavedBelow, InitialBelow, SavedBit,
         NEW a \in Actors, LockRaise(a)
  PROVE  Rest'
<1>0. PICK n : n = Len(locks[a])
  OBVIOUS
<1>1. n \in Nat \ {0} /\ n \in Calls(a)
  BY <1>0, RaiseFacts
<1>3. /\ UNCHANGED <<pc, initial, primask>>
      /\ basepri' = BasepriMax(CeilingHw(ResAt(a, n)))
      /\ ~ RaisedAt(a, n) /\ Running(a)
  BY <1>0, RaiseFacts
<1>5. \A b \in Actors : Len(locks'[b]) = Len(locks[b]) /\ Calls(b)' = Calls(b)
  BY <1>0, RaiseFacts
<1>6. \A b \in Actors : \A i \in Calls(b) :
        /\ ResAt(b, i)' = ResAt(b, i) /\ FreeAt(b, i)' = FreeAt(b, i)
        /\ SavedAt(b, i)' = SavedAt(b, i)
        /\ RaisedAt(b, i)' <=> (RaisedAt(b, i) \/ (b = a /\ i = n))
  BY <1>0, RaiseFacts
<1>7. ~ FreeAt(a, n) /\ ResAt(a, n) \in Resources /\ ~ UsesFree(ResAt(a, n))
      /\ pc[a] = "body"
  BY <1>0, RaiseFacts
<1>8. /\ \A b \in Actors : Active(b) => ~ (ExecPriority[b] < ExecPriority[a])
      /\ \A b \in Actors : Active(b)' <=> Active(b)
  BY <1>3, NobodyAbove DEF Active
<1>9. CallsOK'
  <2>1. SUFFICES ASSUME NEW b \in Actors, NEW i \in Calls(b)
                 PROVE  /\ pc[b] = "body"
                        /\ ResAt(b, i)' \in Uses[b]
                        /\ FreeAt(b, i)' <=> UsesFree(ResAt(b, i)')
                        /\ FreeAt(b, i)' \/ i < Len(locks'[b]) => RaisedAt(b, i)'
    BY <1>3, <1>5 DEF CallsOK, UsesFree
  <2>2. QED
    BY <1>5, <1>6 DEF CallsOK
<1>10. Nested'
  BY <1>8 DEF Nested
<1>11. AboveCeilings'
  <2>1. SUFFICES ASSUME NEW x \in Actors, NEW b \in Actors, Active(b),
                        ExecPriority[b] < ExecPriority[x],
                        NEW i \in Calls(x), RaisedAt(x, i)'
                 PROVE  /\ ~ FreeAt(x, i)'
                        /\ Ceiling[ResAt(x, i)'] # 0 =>
                             ExecPriority[b] < CeilingHw(ResAt(x, i)')
    BY <1>5, <1>8 DEF AboveCeilings, CeilingHw
  <2>2. x # a
    BY <1>8, <2>1, Zenon
  <2>3. /\ ResAt(x, i)' = ResAt(x, i) /\ FreeAt(x, i)' = FreeAt(x, i)
        /\ RaisedAt(x, i)
    BY <1>6, <2>1, <2>2
  <2>4. /\ ~ FreeAt(x, i)
        /\ Ceiling[ResAt(x, i)] # 0 => ExecPriority[b] < CeilingHw(ResAt(x, i))
    BY <2>1, <2>3, Zenon DEF AboveCeilings
  <2>5. QED
    BY <2>3, <2>4
<1>12. Protected'
  <2>1. SUFFICES ASSUME NEW b \in Actors, NEW i \in Calls(b), RaisedAt(b, i)'
                 PROVE  IF FreeAt(b, i) THEN primask = 1
                        ELSE Protects(basepri', ResAt(b, i))
    BY <1>3, <1>5, <1>6 DEF Protected, Protects, CeilingHw
  <2>2. CASE b = a /\ i = n
    BY <1>3, <1>7, <2>2, BasepriMaxProtects
  <2>3. CASE RaisedAt(b, i)
    <3>1. IF FreeAt(b, i) THEN primask = 1 ELSE Protects(basepri, ResAt(b, i))
      BY <2>3 DEF Protected
    <3>2. ResAt(b, i) \in Resources
      BY CallTypes
    <3>3. QED
      BY <1>3, <1>7, <3>1, <3>2, BasepriMaxProtects
  <2>4. QED
    BY <1>6, <2>1, <2>2, <2>3
<1>13. SavedOuter' /\ SavedBit'
  BY <1>5, <1>6 DEF SavedOuter, SavedBit, Protects, CeilingHw
<1>14. SavedBelow'
  <2>1. SUFFICES ASSUME NEW x \in Actors, NEW b \in Actors, Active(x),
                        ExecPriority[x] < ExecPriority[b],
                        NEW i \in Calls(b), NEW j \in Calls(x),
                        RaisedAt(b, i)', ~ FreeAt(x, j)
                 PROVE  Protects(SavedAt(x, j), ResAt(b, i))
    BY <1>5, <1>6, <1>8 DEF SavedBelow, Protects, CeilingHw
  <2>2. b # a
    BY <1>8, <2>1, Zenon
  <2>3. RaisedAt(b, i)
    BY <1>6, <2>1, <2>2
  <2>4. QED
    BY <2>1, <2>3, Zenon DEF SavedBelow
<1>15. InitialBelow'
  <2>1. SUFFICES ASSUME NEW t \in Tasks, NEW b \in Actors, pc[t] = "body",
                        ExecPriority[t] < ExecPriority[b],
                        NEW i \in Calls(b), RaisedAt(b, i)'
                 PROVE  Protects(initial[t], ResAt(b, i))
    BY <1>3, <1>5, <1>6 DEF InitialBelow, Protects, CeilingHw
  <2>2. Active(t) /\ t \in Actors
    BY <2>1 DEF Active, Actors
  <2>3. b # a
    BY <1>8, <2>1, <2>2, Zenon
  <2>4. RaisedAt(b, i)
    BY <1>6, <2>1, <2>3
  <2>5. QED
    BY <2>1, <2>4, Zenon DEF InitialBelow
<1>16. QED
  BY <1>9, <1>10, <1>11, <1>12, <1>13, <1>14, <1>15 DEF Rest

(* The innermost call goes, and its saved value is written back.           *)
LEMMA PopFacts ==
  ASSUME TypeOK, NEW a \in Actors, Unlock(a), NEW n, n = Len(locks[a])
  PROVE  /\ n \in Nat \ {0} /\ n \in Calls(a)
         /\ InBody(a) /\ Running(a) /\ Active(a) /\ UNCHANGED <<pc, initial>>
         /\ IF FreeAt(a, n) THEN basepri' = basepri /\ primask' = SavedAt(a, n)
            ELSE basepri' = SavedAt(a, n) /\ primask' = primask
         /\ \A b \in Actors : \A i \in Calls(b) :
              i \in Calls(b)' \/ (b = a /\ i = n)
         /\ \A b \in Actors : \A i \in Calls(b)' :
              /\ i \in Calls(b) /\ (b = a => i < n)
              /\ i < Len(locks'[b]) => i < Len(locks[b])
         /\ \A b \in Actors : \A i \in Calls(b)' :
              /\ ResAt(b, i)' = ResAt(b, i) /\ FreeAt(b, i)' = FreeAt(b, i)
              /\ SavedAt(b, i)' = SavedAt(b, i) /\ RaisedAt(b, i)' = RaisedAt(b, i)
<1>1. locks[a] \in Seq(LockCall) /\ locks[a] # <<>> /\ n \in Nat \ {0} /\ n \in Calls(a)
  BY CallTypes DEF Unlock, Calls
<1>2. /\ InBody(a) /\ Running(a) /\ Active(a)
      /\ UNCHANGED <<pc, initial>>
      /\ IF FreeAt(a, n) THEN basepri' = basepri /\ primask' = SavedAt(a, n)
         ELSE basepri' = SavedAt(a, n) /\ primask' = primask
      /\ locks'[a] = ButLast(locks[a])
      /\ \A b \in Actors : b # a => locks'[b] = locks[b]
  BY DEF Unlock, InBody, Running, TypeOK, Last, FreeAt, SavedAt,
             RestoredBasepri, RestoredPrimask
<1>3. /\ Len(locks'[a]) = n - 1
      /\ \A i \in 1 .. n - 1 : locks'[a][i] = locks[a][i]
  BY <1>1, <1>2, PushPop
<1>4. \A b \in Actors : \A i \in Calls(b)' :
        /\ i \in Calls(b) /\ locks'[b][i] = locks[b][i]
        /\ b = a => i < n
        /\ i < Len(locks'[b]) => i < Len(locks[b])
  BY <1>1, <1>2, <1>3 DEF Calls
<1>5. \A b \in Actors : \A i \in Calls(b)' :
        /\ ResAt(b, i)' = ResAt(b, i) /\ FreeAt(b, i)' = FreeAt(b, i)
        /\ SavedAt(b, i)' = SavedAt(b, i) /\ RaisedAt(b, i)' = RaisedAt(b, i)
  BY <1>4 DEF ResAt, FreeAt, SavedAt, RaisedAt
<1>6. \A b \in Actors : \A i \in Calls(b) : i \in Calls(b)' \/ (b = a /\ i = n)
  BY <1>1, <1>2, <1>3 DEF Calls
<1>7. QED
  BY <1>1, <1>2, <1>4, <1>5, <1>6

LEMMA UnlockStep ==
  ASSUME WellPrioritised, TypeOK, CallsOK, Nested, AboveCeilings, Protected,
         SavedOuter, SavedBelow, InitialBelow, SavedBit,
         NEW a \in Actors, Unlock(a)
  PROVE  Rest'
<1>0. PICK n : n = Len(locks[a])
  OBVIOUS
<1>1. n \in Nat \ {0} /\ n \in Calls(a)
  BY <1>0, PopFacts
<1>2. /\ InBody(a) /\ Running(a) /\ Active(a) /\ UNCHANGED <<pc, initial>>
      /\ IF FreeAt(a, n) THEN basepri' = basepri /\ primask' = SavedAt(a, n)
         ELSE basepri' = SavedAt(a, n) /\ primask' = primask
  BY <1>0, PopFacts
<1>4. \A b \in Actors : \A i \in Calls(b)' :
        /\ i \in Calls(b) /\ (b = a => i < n)
        /\ i < Len(locks'[b]) => i < Len(locks[b])
  BY <1>0, PopFacts
<1>5. \A b \in Actors : \A i \in Calls(b)' :
        /\ ResAt(b, i)' = ResAt(b, i) /\ FreeAt(b, i)' = FreeAt(b, i)
        /\ SavedAt(b, i)' = SavedAt(b, i) /\ RaisedAt(b, i)' = RaisedAt(b, i)
  BY <1>0, PopFacts
<1>6. \A b \in Actors : Active(b)' <=> Active(b)
  BY <1>2 DEF Active
<1>7. CallsOK'
  <2>1. SUFFICES ASSUME NEW b \in Actors, NEW i \in Calls(b)'
                 PROVE  /\ pc[b] = "body"
                        /\ ResAt(b, i)' \in Uses[b]
                        /\ FreeAt(b, i)' <=> UsesFree(ResAt(b, i)')
                        /\ FreeAt(b, i)' \/ i < Len(locks'[b]) => RaisedAt(b, i)'
    BY <1>2 DEF CallsOK, UsesFree
  <2>2. QED
    BY <1>4, <1>5 DEF CallsOK
<1>8. Nested'
  BY <1>6 DEF Nested
<1>9. AboveCeilings'
  <2>1. SUFFICES ASSUME NEW x \in Actors, NEW b \in Actors, Active(b),
                        ExecPriority[b] < ExecPriority[x],
                        NEW i \in Calls(x)', RaisedAt(x, i)'
                 PROVE  /\ ~ FreeAt(x, i)'
                        /\ Ceiling[ResAt(x, i)'] # 0 =>
                             ExecPriority[b] < CeilingHw(ResAt(x, i)')
    BY <1>6 DEF AboveCeilings, CeilingHw
  <2>2. /\ ResAt(x, i)' = ResAt(x, i) /\ FreeAt(x, i)' = FreeAt(x, i)
        /\ RaisedAt(x, i) /\ i \in Calls(x)
    BY <1>4, <1>5, <2>1
  <2>3. /\ ~ FreeAt(x, i)
        /\ Ceiling[ResAt(x, i)] # 0 => ExecPriority[b] < CeilingHw(ResAt(x, i))
    BY <2>1, <2>2, Zenon DEF AboveCeilings
  <2>4. QED
    BY <2>2, <2>3
<1>10. Protected'
  <2>1. SUFFICES ASSUME NEW b \in Actors, NEW i \in Calls(b)', RaisedAt(b, i)'
                 PROVE  IF FreeAt(b, i) THEN primask' = 1
                        ELSE Protects(basepri', ResAt(b, i))
    BY <1>5 DEF Protected, Protects, CeilingHw
  <2>2. /\ i \in Calls(b) /\ RaisedAt(b, i)
        /\ IF FreeAt(b, i) THEN primask = 1 ELSE Protects(basepri, ResAt(b, i))
    BY <1>4, <1>5, <2>1 DEF Protected
  <2>3. CASE b = a
    <3>1. i < n
      BY <1>4, <2>3
    <3>2. (FreeAt(a, i) <=> FreeAt(a, n)) =>
            IF FreeAt(a, n) THEN SavedAt(a, n) = 1
            ELSE Protects(SavedAt(a, n), ResAt(a, i))
      BY <1>1, <2>2, <2>3, <3>1 DEF SavedOuter
    <3>3. QED
      BY <1>2, <2>2, <2>3, <3>2
  <2>4. CASE b # a
    <3>1. Active(b)
      BY <2>2 DEF CallsOK, Active
    <3>2. ExecPriority[a] < ExecPriority[b]
      BY <1>2, <2>4, <3>1, NobodyAbove
    <3>3. ~ FreeAt(b, i)
      BY <1>2, <2>2, <3>2, Zenon DEF AboveCeilings
    <3>4. ~ FreeAt(a, n) => Protects(SavedAt(a, n), ResAt(b, i))
      BY <1>1, <1>2, <2>2, <3>2, Zenon DEF SavedBelow
    <3>5. QED
      BY <1>2, <2>2, <3>3, <3>4
  <2>5. QED
    BY <2>3, <2>4
<1>11. SavedOuter' /\ SavedBit'
  BY <1>4, <1>5 DEF SavedOuter, SavedBit, Protects, CeilingHw
<1>12. SavedBelow'
  <2>1. SUFFICES ASSUME NEW x \in Actors, NEW b \in Actors, Active(x),
                        ExecPriority[x] < ExecPriority[b],
                        NEW i \in Calls(b)', NEW j \in Calls(x)',
                        RaisedAt(b, i)', ~ FreeAt(x, j)'
                 PROVE  Protects(SavedAt(x, j)', ResAt(b, i)')
    BY <1>6 DEF SavedBelow, Protects, CeilingHw
  <2>2. /\ i \in Calls(b) /\ j \in Calls(x) /\ RaisedAt(b, i) /\ ~ FreeAt(x, j)
        /\ SavedAt(x, j)' = SavedAt(x, j) /\ ResAt(b, i)' = ResAt(b, i)
    BY <1>4, <1>5, <2>1
  <2>3. Protects(SavedAt(x, j), ResAt(b, i))
    BY <2>1, <2>2, Zenon DEF SavedBelow
  <2>4. QED
    BY <2>2, <2>3
<1>13. InitialBelow'
  <2>1. SUFFICES ASSUME NEW t \in Tasks, NEW b \in Actors, pc[t] = "body",
                        ExecPriority[t] < ExecPriority[b],
                        NEW i \in Calls(b)', RaisedAt(b, i)'
                 PROVE  Protects(initial[t], ResAt(b, i)')
    BY <1>2 DEF InitialBelow, Protects, CeilingHw
  <2>2. i \in Calls(b) /\ RaisedAt(b, i) /\ ResAt(b, i)' = ResAt(b, i)
    BY <1>4, <1>5, <2>1
  <2>3. Protects(initial[t], ResAt(b, i))
    BY <2>1, <2>2, Zenon DEF InitialBelow
  <2>4. QED
    BY <2>2, <2>3
<1>14. QED
  BY <1>7, <1>8, <1>9, <1>10, <1>11, <1>12, <1>13 DEF Rest

-----------------------------------------------------------------------------
(* The theorems.                                                           *)

LEMMA InitOK ==
  ASSUME Init
  PROVE  IInv
<1>1. TypeOK
  BY CoreAssumption DEF Init, TypeOK, Hw, Actors
<1>2. \A a \in Actors : Calls(a) = {}
  BY DEF Init, Calls
<1>3. CallsOK /\ AboveCeilings /\ Protected /\ SavedOuter /\ SavedBelow
      /\ InitialBelow /\ SavedBit
  BY <1>2 DEF CallsOK, AboveCeilings, Protected, SavedOuter, SavedBelow,
              InitialBelow, SavedBit
<1>4. Nested
  BY DEF Init, Nested, Active
<1>5. QED
  BY <1>1, <1>3, <1>4 DEF IInv

LEMMA StepOK ==
  ASSUME WellPrioritised, IInv, [Next]_vars
  PROVE  IInv'
<1>1. /\ TypeOK /\ CallsOK /\ Nested /\ AboveCeilings /\ Protected
      /\ SavedOuter /\ SavedBelow /\ InitialBelow /\ SavedBit
  BY DEF IInv
<1>2. TypeOK'
  BY <1>1, TypeStep
<1>3. ASSUME NEW t \in Tasks, Pend(t) PROVE Rest'
  BY <1>1, <1>3, FrameStep DEF Pend
<1>4. ASSUME NEW t \in Tasks, Preempt(t) PROVE Rest'
  BY <1>1, <1>4, PreemptStep
<1>5. ASSUME NEW t \in Tasks, RunEntry(t) PROVE Rest'
  BY <1>1, <1>5, RunEntryStep
<1>6. ASSUME NEW t \in Tasks, RunExit(t) PROVE Rest'
  BY <1>1, <1>6, RunExitStep
<1>7. ASSUME NEW a \in Actors, NEW r \in Resources, LockFree(a, r) \/ LockRead(a, r)
      PROVE  Rest'
  BY <1>1, <1>7, LockStep
<1>8. ASSUME NEW a \in Actors, LockRaise(a) PROVE Rest'
  BY <1>1, <1>8, LockRaiseStep
<1>9. ASSUME NEW a \in Actors, Unlock(a) PROVE Rest'
  BY <1>1, <1>9, UnlockStep
<1>10. ASSUME UNCHANGED vars PROVE Rest'
  BY <1>1, <1>10, FrameStep DEF vars
<1>11. Rest'
  BY <1>3, <1>4, <1>5, <1>6, <1>7, <1>8, <1>9, <1>10 DEF Next
<1>12. QED
  BY <1>2, <1>11 DEF IInv, Rest

(* The inductive invariant holds throughout.                               *)
THEOREM IInvAlways ==
  ASSUME WellPrioritised
  PROVE  Spec => []IInv
<1>1. Init => IInv
  BY InitOK
<1>2. IInv /\ [Next]_vars => IInv'
  BY StepOK
<1>3. QED
  BY <1>1, <1>2, PTL DEF Spec

(* Type correctness: every register and saved value stays in its range.    *)
THEOREM TypeCorrect ==
  ASSUME WellPrioritised
  PROVE  Spec => []TypeOK
<1>1. IInv => TypeOK
  BY DEF IInv
<1>2. QED
  BY <1>1, IInvAlways, PTL

(* Somebody above an actor never uses what the actor has locked.           *)
LEMMA AboveDoesNotUse ==
  ASSUME WellPrioritised, TypeOK, AboveCeilings,
         NEW a \in Actors, NEW b \in Actors, Active(b),
         ExecPriority[b] < ExecPriority[a], NEW i \in Calls(a), RaisedAt(a, i)
  PROVE  ResAt(a, i) \notin Uses[b]
<1>1. SUFFICES ASSUME ResAt(a, i) \in Uses[b] PROVE FALSE
  OBVIOUS
<1>2. b \in Tasks
  <2>1. ExecPriority[a] \in 0 .. 256 /\ ExecPriority[b] \in 0 .. 256
    BY HwFacts
  <2>2. ExecPriority[b] # 256
    BY <2>1
  <2>3. QED
    BY <2>2, HwFacts DEF Actors
<1>3. PICK c : c = CeilingHw(ResAt(a, i))
  OBVIOUS
<1>4. PICK p : p = ExecPriority[b]
  OBVIOUS
<1>5. Ceiling[ResAt(a, i)] # 0 /\ c <= p
  BY <1>1, <1>2, <1>3, <1>4, HwFacts
<1>6. p < c
  BY <1>3, <1>4, <1>5, Zenon DEF AboveCeilings
<1>7. c \in Int /\ p \in Int
  <2>1. ResAt(a, i) \in Resources
    BY CallTypes
  <2>2. QED
    BY <1>2, <1>3, <1>4, <2>1, HwFacts DEF Hw
<1>8. QED
  BY <1>5, <1>6, <1>7

(* Two holders are active with different priorities.                       *)
LEMMA HoldersOrdered ==
  ASSUME WellPrioritised, TypeOK, CallsOK, Nested,
         NEW a \in Actors, NEW b \in Actors, a # b,
         NEW i \in Calls(a), NEW j \in Calls(b)
  PROVE  /\ Active(a) /\ Active(b)
         /\ ExecPriority[a] < ExecPriority[b] \/ ExecPriority[b] < ExecPriority[a]
<1>1. Active(a) /\ Active(b)
  BY DEF CallsOK, Active
<1>2. ExecPriority[a] # ExecPriority[b]
  BY <1>1 DEF Nested
<1>3. ExecPriority[a] \in Int /\ ExecPriority[b] \in Int
  BY HwFacts
<1>4. QED
  BY <1>1, <1>2, <1>3

LEMMA MutualExclusionHolds ==
  ASSUME WellPrioritised, IInv
  PROVE  MutualExclusion
<1>1. TypeOK /\ CallsOK /\ Nested /\ AboveCeilings
  BY DEF IInv
<1>2. SUFFICES ASSUME NEW a \in Actors, NEW b \in Actors, a # b, NEW r \in Resources,
                      NEW i \in Calls(a), ResAt(a, i) = r, RaisedAt(a, i),
                      NEW j \in Calls(b), ResAt(b, j) = r, RaisedAt(b, j)
               PROVE  FALSE
  BY DEF MutualExclusion, Holds, Calls, ResAt, RaisedAt
<1>3. r \in Uses[a] /\ r \in Uses[b]
  BY <1>1, <1>2 DEF CallsOK
<1>4. QED
  BY <1>1, <1>2, <1>3, HoldersOrdered, AboveDoesNotUse

(* README.md:116 "Data-race-free memory sharing", for every application    *)
(* and device: with the priorities the ceilings were computed from, no two *)
(* actors are ever inside closures of lock on the same resource.           *)
THEOREM LocksExclude ==
  ASSUME WellPrioritised
  PROVE  Spec => []MutualExclusion
<1>1. IInv => MutualExclusion
  BY MutualExclusionHolds
<1>2. QED
  BY <1>1, IInvAlways, PTL

(* Priority inversion is bounded by one critical section, for every        *)
(* application: at most one less urgent actor blocks a task.               *)
LEMMA SingleBlockerHolds ==
  ASSUME WellPrioritised, IInv
  PROVE  SingleBlocker
<1>1. TypeOK /\ CallsOK /\ Nested /\ AboveCeilings
  BY DEF IInv
<1>2. ASSUME NEW t \in Tasks, NEW a \in Actors, NEW b \in Actors,
             ExecPriority[t] < ExecPriority[b], Active(b),
             ExecPriority[b] < ExecPriority[a],
             NEW i \in Calls(a), RaisedAt(a, i), Ceiling[ResAt(a, i)] # 0,
             CeilingHw(ResAt(a, i)) <= ExecPriority[t]
      PROVE  FALSE
  <2>1. PICK c : c = CeilingHw(ResAt(a, i))
    OBVIOUS
  <2>2. PICK p : p = ExecPriority[b]
    OBVIOUS
  <2>3. PICK q : q = ExecPriority[t]
    OBVIOUS
  <2>4. p < c
    BY <1>1, <1>2, <2>1, <2>2, Zenon DEF AboveCeilings
  <2>5. c <= q /\ q < p
    BY <1>2, <2>1, <2>2, <2>3
  <2>6. c \in Int /\ p \in Int /\ q \in Int
    <3>1. ResAt(a, i) \in Resources
      BY <1>1, CallTypes
    <3>2. QED
      BY <2>1, <2>2, <2>3, <3>1, HwFacts DEF Hw
  <2>7. QED
    BY <2>4, <2>5, <2>6
<1>3. ASSUME NEW t \in Tasks, NEW a \in Actors, Blocks(a, t)
      PROVE  /\ ExecPriority[t] < ExecPriority[a]
             /\ \E i \in Calls(a) : /\ RaisedAt(a, i) /\ Ceiling[ResAt(a, i)] # 0
                                    /\ CeilingHw(ResAt(a, i)) <= ExecPriority[t]
  BY <1>3 DEF Blocks, Holds, Calls, ResAt, RaisedAt, CeilingHw
<1>4. SUFFICES ASSUME NEW t \in Tasks, NEW a \in Actors, NEW b \in Actors, a # b,
                      Blocks(a, t), Blocks(b, t)
               PROVE  FALSE
  BY DEF SingleBlocker
<1>5. PICK i \in Calls(a) : /\ RaisedAt(a, i) /\ Ceiling[ResAt(a, i)] # 0
                            /\ CeilingHw(ResAt(a, i)) <= ExecPriority[t]
  BY <1>3, <1>4
<1>6. PICK j \in Calls(b) : /\ RaisedAt(b, j) /\ Ceiling[ResAt(b, j)] # 0
                            /\ CeilingHw(ResAt(b, j)) <= ExecPriority[t]
  BY <1>3, <1>4
<1>7. ExecPriority[t] < ExecPriority[a] /\ ExecPriority[t] < ExecPriority[b]
  BY <1>3, <1>4
<1>8. /\ Active(a) /\ Active(b)
      /\ ExecPriority[a] < ExecPriority[b] \/ ExecPriority[b] < ExecPriority[a]
  BY <1>1, <1>4, HoldersOrdered
<1>9. CASE ExecPriority[b] < ExecPriority[a]
  BY <1>2, <1>5, <1>7, <1>8, <1>9, Zenon
<1>10. CASE ExecPriority[a] < ExecPriority[b]
  BY <1>2, <1>6, <1>7, <1>8, <1>10, Zenon
<1>11. QED
  BY <1>8, <1>9, <1>10

(* The property of BasepriLock, as a theorem: lock and run never let a     *)
(* second closure that blocks the same task be entered.                    *)
THEOREM OneBlocker ==
  ASSUME WellPrioritised
  PROVE  Spec => []SingleBlocker
<1>1. IInv => SingleBlocker
  BY SingleBlockerHolds
<1>2. QED
  BY <1>1, IInvAlways, PTL

(* A step that enters a handler finds its resources free.                  *)
LEMMA StartFreeStep ==
  ASSUME WellPrioritised, IInv, IInv', Next,
         NEW t \in Tasks, pc[t] = "off", pc'[t] # "off",
         NEW r \in Uses[t], NEW a \in Actors
  PROVE  ~ Holds(a, r)
<1>1. TypeOK /\ CallsOK /\ t \in Actors
  BY DEF IInv, Actors
<1>2. Preempt(t)
  <2>1. ASSUME NEW u \in Tasks, Pend(u) \/ RunEntry(u) \/ RunExit(u)
        PROVE  pc'[t] = pc[t]
    BY <1>1, <2>1 DEF Pend, RunEntry, RunExit, TypeOK
  <2>2. ASSUME NEW u \in Tasks, Preempt(u), u # t
        PROVE  pc'[t] = pc[t]
    BY <1>1, <2>2 DEF Preempt, TypeOK
  <2>3. ASSUME NEW b \in Actors, NEW x \in Resources, LockFree(b, x) \/ LockRead(b, x)
        PROVE  pc'[t] = pc[t]
    BY <2>3 DEF LockFree, LockRead
  <2>4. ASSUME NEW b \in Actors, LockRaise(b) \/ Unlock(b)
        PROVE  pc'[t] = pc[t]
    BY <2>4 DEF LockRaise, Unlock
  <2>5. QED
    BY <2>1, <2>2, <2>3, <2>4 DEF Next
<1>3. SUFFICES ASSUME NEW i \in Calls(a), ResAt(a, i) = r, RaisedAt(a, i)
               PROVE  FALSE
  BY DEF Holds, Calls, ResAt, RaisedAt
<1>4. Active(a) /\ a # t
  BY <1>1, <1>3 DEF CallsOK, Active
<1>5. ExecPriority[t] < ExecPriority[a]
  BY <1>2, <1>4 DEF Preempt, Takable
<1>6. PICK c : c = CeilingHw(r)
  OBVIOUS
<1>7. PICK p : p = ExecPriority[t]
  OBVIOUS
<1>8. Ceiling[r] # 0 /\ c <= p
  BY <1>6, <1>7, HwFacts
<1>9. p < c
  <2>1. Active(t)' /\ AboveCeilings'
    BY DEF Active, IInv
  <2>2. /\ i \in Calls(a)' /\ RaisedAt(a, i)' /\ ResAt(a, i)' = r
        /\ CeilingHw(r)' = c
    BY <1>2, <1>3, <1>6 DEF Preempt, Calls, RaisedAt, ResAt, CeilingHw
  <2>3. Ceiling[ResAt(a, i)'] # 0 => ExecPriority[t] < CeilingHw(ResAt(a, i)')
    BY <1>1, <1>5, <2>1, <2>2, Zenon DEF AboveCeilings
  <2>4. QED
    BY <1>6, <1>7, <1>8, <2>2, <2>3
<1>10. c \in Int /\ p \in Int
  <2>1. r \in Resources
    BY <1>1, CoreAssumption
  <2>2. QED
    BY <1>6, <1>7, <2>1, HwFacts DEF Hw
<1>11. QED
  BY <1>8, <1>9, <1>10

(* For every application: a handler is entered only when nobody holds a    *)
(* resource it uses, so lock never waits and no deadlock is possible.      *)
THEOREM HandlersStartFree ==
  ASSUME WellPrioritised
  PROVE  Spec => StartsWithResourcesFree
<1> DEFINE Free == \A t \in Tasks : pc[t] = "off" /\ pc'[t] # "off" =>
                     \A r \in Uses[t], a \in Actors : ~ Holds(a, r)
<1>1. IInv /\ IInv' /\ [Next]_vars => [Free]_vars
  <2>1. SUFFICES ASSUME IInv, IInv', Next PROVE Free
    OBVIOUS
  <2>2. QED
    BY <2>1, StartFreeStep
<1>2. Spec => [][Free]_vars
  BY <1>1, IInvAlways, PTL DEF Spec
<1>3. QED
  BY <1>2 DEF StartsWithResourcesFree

-----------------------------------------------------------------------------
(* The masks are not only enough, they are exact: each level in force, or  *)
(* to be written back, is the ceiling of a closure being run.              *)

(* The closure of call i of b has BASEPRI at level.                        *)
Backer(b, i, level) ==
  RaisedAt(b, i) /\ ~ FreeAt(b, i) /\ CeilingHw(ResAt(b, i)) = level

(* A level a will put back at its call j comes from a closure around that  *)
(* call, or of an actor that a preempted.                                  *)
Outside(a, j, b, i) == (b = a /\ i < j) \/ ExecPriority[a] < ExecPriority[b]

Backed(level, a, j) ==
  level # 0 => \E b \in Actors : \E i \in Calls(b) :
                 Backer(b, i, level) /\ Outside(a, j, b, i)

BasepriBacked ==
  basepri # 0 => \E b \in Actors : \E i \in Calls(b) : Backer(b, i, basepri)

SavedBacked ==
  \A a \in Actors : \A j \in Calls(a) :
    ~ FreeAt(a, j) => Backed(SavedAt(a, j), a, j)

InitialBacked ==
  \A t \in Tasks : pc[t] = "body" => Backed(initial[t], t, 1)

PrimaskBacked ==
  primask = 1 => \E b \in Actors : \E i \in Calls(b) : FreeAt(b, i)

SavedBitBacked ==
  \A a \in Actors : \A j \in Calls(a) : FreeAt(a, j) /\ SavedAt(a, j) = 1 =>
    \E i \in Calls(a) : i < j /\ FreeAt(a, i)

Exact ==
  /\ BasepriBacked
  /\ SavedBacked
  /\ InitialBacked
  /\ PrimaskBacked
  /\ SavedBitBacked

(* Call i of b is still being run after the step, on the same resource.    *)
Stays(b, i) ==
  /\ i \in Calls(b)' /\ (RaisedAt(b, i) => RaisedAt(b, i)')
  /\ FreeAt(b, i)' = FreeAt(b, i) /\ ResAt(b, i)' = ResAt(b, i)

LEMMA BackedStays ==
  ASSUME NEW level, NEW a, NEW j, Backed(level, a, j),
         \A b \in Actors : \A i \in Calls(b) : Outside(a, j, b, i) => Stays(b, i)
  PROVE  Backed(level, a, j)'
<1>1. SUFFICES ASSUME level # 0
               PROVE  \E b \in Actors : \E i \in Calls(b)' :
                        Backer(b, i, level)' /\ Outside(a, j, b, i)
  BY DEF Backed, Outside
<1>0. PICK b \in Actors : \E i \in Calls(b) : Backer(b, i, level) /\ Outside(a, j, b, i)
  BY <1>1 DEF Backed
<1>2. PICK i \in Calls(b) : Backer(b, i, level) /\ Outside(a, j, b, i)
  BY <1>0
<1>3. Stays(b, i)
  BY <1>2
<1>4. i \in Calls(b)' /\ Backer(b, i, level)'
  BY <1>2, <1>3 DEF Backer, Stays, CeilingHw
<1>5. QED
  BY <1>2, <1>4

(* Steps that keep every call and write no mask.                           *)
LEMMA ExactFrame ==
  ASSUME CallsOK, Exact, UNCHANGED <<locks, primask>>,
         UNCHANGED <<initial, basepri>>,
         \A t \in Tasks : pc'[t] = "body" => pc[t] = "body"
  PROVE  Exact'
<1> USE DEF Calls, RaisedAt, FreeAt, ResAt, SavedAt, CeilingHw,
            Backer, Backed, Outside
<1>1. BasepriBacked'
  BY DEF Exact, BasepriBacked
<1>2. SavedBacked'
  BY DEF Exact, SavedBacked
<1>3. InitialBacked'
  BY DEF Exact, InitialBacked
<1>4. PrimaskBacked' /\ SavedBitBacked'
  BY DEF Exact, PrimaskBacked, SavedBitBacked
<1>5. QED
  BY <1>1, <1>2, <1>3, <1>4 DEF Exact

(* What BASEPRI is when run or lock reads it comes from outside.           *)
LEMMA BasepriFromBelow ==
  ASSUME WellPrioritised, TypeOK, CallsOK, BasepriBacked, NEW a \in Actors, Running(a)
  PROVE  \A j : (\A i \in Calls(a) : i < j) => Backed(basepri, a, j)
<1>1. SUFFICES ASSUME NEW j, \A i \in Calls(a) : i < j, basepri # 0
               PROVE  \E b \in Actors : \E i \in Calls(b) :
                        Backer(b, i, basepri) /\ Outside(a, j, b, i)
  BY DEF Backed
<1>0. PICK b \in Actors : \E i \in Calls(b) : Backer(b, i, basepri)
  BY <1>1 DEF BasepriBacked
<1>2. PICK i \in Calls(b) : Backer(b, i, basepri)
  BY <1>0
<1>3. Active(b)
  BY DEF CallsOK, Active
<1>4. Outside(a, j, b, i)
  BY <1>1, <1>2, <1>3, NobodyAbove DEF Outside
<1>5. QED
  BY <1>2, <1>4

LEMMA ExactRunEntry ==
  ASSUME WellPrioritised, TypeOK, CallsOK, Exact, NEW t \in Tasks, RunEntry(t)
  PROVE  Exact'
<1>1. t \in Actors /\ Running(t) /\ pc[t] = "entry"
  BY DEF Actors, RunEntry
<1>2. Calls(t) = {}
  BY <1>1 DEF CallsOK
<1>3. /\ UNCHANGED <<locks, basepri, primask>> /\ initial'[t] = RunSaves(t)
      /\ \A u \in Tasks : u # t => initial'[u] = initial[u] /\ pc'[u] = pc[u]
  BY <1>1 DEF RunEntry, TypeOK, Actors
<1>4. \A level, a, j : Backed(level, a, j)' <=> Backed(level, a, j)
  BY <1>3 DEF Backed, Backer, Outside, Calls, RaisedAt, FreeAt, ResAt, CeilingHw
<1>5. BasepriBacked' /\ PrimaskBacked' /\ SavedBitBacked'
  BY <1>3 DEF Exact, BasepriBacked, PrimaskBacked, SavedBitBacked,
              Backer, Calls, RaisedAt, FreeAt, ResAt, SavedAt, CeilingHw
<1>6. SavedBacked'
  BY <1>3 DEF Exact, SavedBacked, Backed, Backer, Outside,
              Calls, RaisedAt, FreeAt, ResAt, SavedAt, CeilingHw
<1>7. InitialBacked'
  <2>1. Backed(0, t, 1)
    BY DEF Backed
  <2>2. Backed(basepri, t, 1)
    BY <1>1, <1>2, BasepriFromBelow DEF Exact
  <2>3. Backed(RunSaves(t), t, 1)
    BY <2>1, <2>2 DEF RunSaves
  <2>4. SUFFICES ASSUME NEW u \in Tasks, pc'[u] = "body"
                 PROVE  Backed(initial[u], u, 1)'
    BY DEF InitialBacked
  <2>5. CASE u = t
    BY <1>3, <2>3, <2>5 DEF Backed, Backer, Outside, Calls, RaisedAt, FreeAt,
                            ResAt, CeilingHw
  <2>6. CASE u # t
    <3>1. Backed(initial[u], u, 1)
      BY <1>3, <2>4, <2>6 DEF Exact, InitialBacked
    <3>2. QED
      BY <1>3, <2>6, <3>1 DEF Backed, Backer, Outside, Calls, RaisedAt, FreeAt,
                              ResAt, CeilingHw
  <2>7. QED
    BY <2>5, <2>6
<1>8. QED
  BY <1>5, <1>6, <1>7 DEF Exact

LEMMA ExactRunExit ==
  ASSUME TypeOK, Exact, NEW t \in Tasks, RunExit(t)
  PROVE  Exact'
<1>1. t \in Actors /\ pc[t] = "body"
  BY DEF Actors, RunExit
<1>2. /\ UNCHANGED <<locks, primask>> /\ basepri' = initial[t] /\ pc'[t] = "off"
      /\ \A u \in Tasks : u # t => initial'[u] = initial[u] /\ pc'[u] = pc[u]
  BY <1>1 DEF RunExit, TypeOK, Actors
<1> USE DEF Calls, RaisedAt, FreeAt, ResAt, SavedAt, CeilingHw,
            Backer, Backed, Outside
<1>3. BasepriBacked'
  <2>1. Backed(initial[t], t, 1)
    BY <1>1 DEF Exact, InitialBacked
  <2>2. QED
    BY <1>2, <2>1 DEF BasepriBacked
<1>4. PrimaskBacked' /\ SavedBitBacked'
  BY <1>2 DEF Exact, PrimaskBacked, SavedBitBacked
<1>5. SavedBacked'
  BY <1>2 DEF Exact, SavedBacked
<1>6. InitialBacked'
  BY <1>2 DEF Exact, InitialBacked
<1>7. QED
  BY <1>3, <1>4, <1>5, <1>6 DEF Exact

(* A new call saves a mask that comes from outside it.                     *)
LEMMA ExactPush ==
  ASSUME WellPrioritised, TypeOK, CallsOK, AboveCeilings, Exact,
         NEW a \in Actors, NEW call \in LockCall, InBody(a),
         locks' = [locks EXCEPT ![a] = Append(@, call)],
         UNCHANGED <<pc, initial, basepri>>,
         IF call.free THEN call.saved = primask /\ primask' = 1
         ELSE call.saved = basepri /\ primask' = primask
  PROVE  Exact'
<1>0. PICK n : n = Len(locks[a]) + 1
  OBVIOUS
<1>1. /\ n \in Nat /\ Len(locks[a]) \in Nat /\ n \in Calls(a)'
      /\ \A b \in Actors : \A i \in Calls(b)' :
           i \in Calls(b) \/ (b = a /\ i = n)
      /\ \A b \in Actors : \A i \in Calls(b) :
           /\ ResAt(b, i)' = ResAt(b, i) /\ FreeAt(b, i)' = FreeAt(b, i)
           /\ SavedAt(b, i)' = SavedAt(b, i) /\ RaisedAt(b, i)' = RaisedAt(b, i)
      /\ FreeAt(a, n)' = call.free /\ SavedAt(a, n)' = call.saved
  BY <1>0, PushFacts
<1>2. \A b \in Actors : \A i \in Calls(b) : i \in Calls(b)'
  BY <1>0, PushFacts DEF Calls
<1>3. Running(a) /\ \A i \in Calls(a) : i < n
  BY <1>0, <1>1 DEF InBody, Calls
<1>4. \A b \in Actors : \A i \in Calls(b) : Stays(b, i)
  BY <1>1, <1>2 DEF Stays
<1>5. \A level, x, j : Backed(level, x, j) => Backed(level, x, j)'
  BY <1>4, BackedStays
<1>6. BasepriBacked'
  <2>1. SUFFICES ASSUME basepri # 0
                 PROVE  \E b \in Actors : \E i \in Calls(b)' : Backer(b, i, basepri)'
    BY DEF BasepriBacked
  <2>0. PICK b \in Actors : \E i \in Calls(b) : Backer(b, i, basepri)
    BY <2>1 DEF Exact, BasepriBacked
  <2>2. PICK i \in Calls(b) : Backer(b, i, basepri)
    BY <2>0
  <2>3. QED
    BY <1>4, <2>2 DEF Backer, Stays, CeilingHw
<1>7. SavedBacked'
  <2>1. SUFFICES ASSUME NEW x \in Actors, NEW j \in Calls(x)', ~ FreeAt(x, j)'
                 PROVE  Backed(SavedAt(x, j), x, j)'
    BY DEF SavedBacked
  <2>2. PICK v : v = SavedAt(x, j)'
    OBVIOUS
  <2>3. CASE j \in Calls(x)
    <3>1. Backed(v, x, j)
      BY <1>1, <2>1, <2>2, <2>3 DEF Exact, SavedBacked
    <3>2. Backed(v, x, j)'
      BY <1>5, <3>1
    <3>3. QED
      BY <2>2, <3>2 DEF Backed
  <2>4. CASE x = a /\ j = n
    <3>1. v = basepri
      BY <1>1, <2>1, <2>2, <2>4
    <3>2. Backed(v, x, j)
      BY <1>3, <2>4, <3>1, BasepriFromBelow DEF Exact
    <3>3. Backed(v, x, j)'
      BY <1>5, <3>2
    <3>4. QED
      BY <2>2, <3>3 DEF Backed
  <2>5. QED
    BY <1>1, <2>3, <2>4
<1>8. InitialBacked'
  <2>1. SUFFICES ASSUME NEW t \in Tasks, pc[t] = "body"
                 PROVE  Backed(initial[t], t, 1)'
    BY DEF InitialBacked
  <2>2. PICK v : v = initial[t]
    OBVIOUS
  <2>3. Backed(v, t, 1)
    BY <2>1, <2>2 DEF Exact, InitialBacked
  <2>4. Backed(v, t, 1)'
    BY <1>5, <2>3
  <2>5. QED
    BY <2>2, <2>4 DEF Backed
<1>9. PrimaskBacked'
  <2>1. CASE call.free
    BY <1>1, <2>1 DEF PrimaskBacked
  <2>2. CASE ~ call.free
    BY <1>1, <1>2, <2>2 DEF Exact, PrimaskBacked
  <2>3. QED
    BY <2>1, <2>2
<1>10. SavedBitBacked'
  <2>1. SUFFICES ASSUME NEW x \in Actors, NEW j \in Calls(x)', FreeAt(x, j)',
                        SavedAt(x, j)' = 1
                 PROVE  \E i \in Calls(x)' : i < j /\ FreeAt(x, i)'
    BY DEF SavedBitBacked
  <2>2. CASE j \in Calls(x)
    <3>1. PICK i \in Calls(x) : i < j /\ FreeAt(x, i)
      BY <1>1, <2>1, <2>2 DEF Exact, SavedBitBacked
    <3>2. QED
      BY <1>1, <1>2, <3>1
  <2>3. CASE x = a /\ j = n
    <3>0. PICK b \in Actors : \E i \in Calls(b) : FreeAt(b, i)
      BY <1>1, <2>1, <2>3 DEF Exact, PrimaskBacked
    <3>1. PICK i \in Calls(b) : FreeAt(b, i)
      BY <3>0
    <3>2. Active(b) /\ Active(a) /\ RaisedAt(b, i)
      BY <1>3, <3>1 DEF CallsOK, Active, Running
    <3>3. b = a
      <4>1. SUFFICES ASSUME b # a PROVE FALSE
        OBVIOUS
      <4>2. ExecPriority[a] < ExecPriority[b]
        BY <1>3, <3>2, <4>1, NobodyAbove
      <4>3. QED
        BY <3>1, <3>2, <4>2, Zenon DEF AboveCeilings
    <3>4. QED
      BY <1>1, <1>2, <1>3, <2>3, <3>1, <3>3
  <2>4. QED
    BY <1>1, <2>2, <2>3
<1>11. QED
  BY <1>6, <1>7, <1>8, <1>9, <1>10 DEF Exact

LEMMA ExactLock ==
  ASSUME WellPrioritised, TypeOK, CallsOK, AboveCeilings, Exact,
         NEW a \in Actors, NEW r \in Resources, LockFree(a, r) \/ LockRead(a, r)
  PROVE  Exact'
<1>1. InBody(a)
  BY DEF LockFree, LockRead, CanLock
<1>2. CASE LockFree(a, r)
  <2> DEFINE call == [res |-> r, free |-> TRUE, saved |-> primask, raised |-> TRUE]
  <2>1. call \in LockCall
    BY DEF LockCall, TypeOK, Hw
  <2>2. /\ locks' = [locks EXCEPT ![a] = Append(@, call)]
        /\ UNCHANGED <<pc, initial, basepri>> /\ primask' = 1
    BY <1>2 DEF LockFree
  <2>3. call.free = TRUE /\ call.saved = primask
    OBVIOUS
  <2> HIDE DEF call
  <2>4. QED
    BY <1>1, <2>1, <2>2, <2>3, ExactPush
<1>3. CASE LockRead(a, r)
  <2> DEFINE call == [res |-> r, free |-> FALSE, saved |-> basepri, raised |-> FALSE]
  <2>1. call \in LockCall
    BY DEF LockCall, TypeOK
  <2>2. /\ locks' = [locks EXCEPT ![a] = Append(@, call)]
        /\ UNCHANGED <<pc, initial, basepri>> /\ primask' = primask
    BY <1>3 DEF LockRead
  <2>3. call.free = FALSE /\ call.saved = basepri
    OBVIOUS
  <2> HIDE DEF call
  <2>4. QED
    BY <1>1, <2>1, <2>2, <2>3, ExactPush
<1>4. QED
  BY <1>2, <1>3

(* Raising the mask either changes nothing or is backed by the new closure.*)
LEMMA ExactRaise ==
  ASSUME WellPrioritised, TypeOK, CallsOK, Exact, NEW a \in Actors, LockRaise(a)
  PROVE  Exact'
<1>0. PICK n : n = Len(locks[a])
  OBVIOUS
<1>1. /\ n \in Calls(a) /\ UNCHANGED <<pc, initial, primask>>
      /\ basepri' = BasepriMax(CeilingHw(ResAt(a, n))) /\ ~ FreeAt(a, n)
  BY <1>0, RaiseFacts
<1>2. \A b \in Actors : Calls(b)' = Calls(b)
  BY <1>0, RaiseFacts
<1>3. \A b \in Actors : \A i \in Calls(b) :
        /\ ResAt(b, i)' = ResAt(b, i) /\ FreeAt(b, i)' = FreeAt(b, i)
        /\ SavedAt(b, i)' = SavedAt(b, i)
        /\ RaisedAt(b, i)' <=> (RaisedAt(b, i) \/ (b = a /\ i = n))
  BY <1>0, RaiseFacts
<1>4. \A b \in Actors : \A i \in Calls(b) : Stays(b, i)
  BY <1>2, <1>3 DEF Stays
<1>5. \A level, x, j : Backed(level, x, j) => Backed(level, x, j)'
  BY <1>4, BackedStays
<1>6. BasepriBacked'
  <2>1. SUFFICES ASSUME basepri' # 0
                 PROVE  \E b \in Actors : \E i \in Calls(b)' : Backer(b, i, basepri)'
    BY DEF BasepriBacked
  <2>2. CASE basepri' = basepri
    <3>0. PICK b \in Actors : \E i \in Calls(b) : Backer(b, i, basepri)
      BY <2>1, <2>2 DEF Exact, BasepriBacked
    <3>1. PICK i \in Calls(b) : Backer(b, i, basepri)
      BY <3>0
    <3>2. QED
      BY <1>4, <2>2, <3>1 DEF Backer, Stays, CeilingHw
  <2>3. CASE basepri' = CeilingHw(ResAt(a, n))
    BY <1>1, <1>2, <1>3, <2>3 DEF Backer, CeilingHw
  <2>4. QED
    BY <1>1, <2>2, <2>3 DEF BasepriMax
<1>7. SavedBacked'
  <2>1. SUFFICES ASSUME NEW x \in Actors, NEW j \in Calls(x), ~ FreeAt(x, j)
                 PROVE  Backed(SavedAt(x, j), x, j)'
    BY <1>2, <1>3 DEF SavedBacked
  <2>2. PICK v : v = SavedAt(x, j)'
    OBVIOUS
  <2>3. Backed(v, x, j)
    BY <1>3, <2>1, <2>2 DEF Exact, SavedBacked
  <2>4. Backed(v, x, j)'
    BY <1>5, <2>3
  <2>5. QED
    BY <2>2, <2>4 DEF Backed
<1>8. InitialBacked'
  <2>1. SUFFICES ASSUME NEW t \in Tasks, pc[t] = "body"
                 PROVE  Backed(initial[t], t, 1)'
    BY <1>1 DEF InitialBacked
  <2>2. PICK v : v = initial[t]
    OBVIOUS
  <2>3. Backed(v, t, 1)
    BY <2>1, <2>2 DEF Exact, InitialBacked
  <2>4. Backed(v, t, 1)'
    BY <1>5, <2>3
  <2>5. QED
    BY <1>1, <2>2, <2>4 DEF Backed
<1>9. PrimaskBacked' /\ SavedBitBacked'
  BY <1>1, <1>2, <1>3 DEF Exact, PrimaskBacked, SavedBitBacked
<1>10. QED
  BY <1>6, <1>7, <1>8, <1>9 DEF Exact

(* Nothing that remains was backed by the closure that returns.            *)
LEMMA ExactUnlock ==
  ASSUME WellPrioritised, TypeOK, CallsOK, AboveCeilings, Exact,
         NEW a \in Actors, Unlock(a)
  PROVE  Exact'
<1>0. PICK n : n = Len(locks[a])
  OBVIOUS
<1>1. /\ n \in Nat \ {0} /\ n \in Calls(a)
      /\ Running(a) /\ Active(a) /\ UNCHANGED <<pc, initial>>
      /\ IF FreeAt(a, n) THEN basepri' = basepri /\ primask' = SavedAt(a, n)
         ELSE basepri' = SavedAt(a, n) /\ primask' = primask
  BY <1>0, PopFacts
<1>2. \A b \in Actors : \A i \in Calls(b) : i \in Calls(b)' \/ (b = a /\ i = n)
  BY <1>0, PopFacts
<1>3. \A b \in Actors : \A i \in Calls(b)' : i \in Calls(b) /\ (b = a => i < n)
  BY <1>0, PopFacts
<1>4. \A b \in Actors : \A i \in Calls(b)' :
        /\ ResAt(b, i)' = ResAt(b, i) /\ FreeAt(b, i)' = FreeAt(b, i)
        /\ SavedAt(b, i)' = SavedAt(b, i) /\ RaisedAt(b, i)' = RaisedAt(b, i)
  BY <1>0, PopFacts
<1>5. \A b \in Actors : \A i \in Calls(b) : b # a \/ i # n => Stays(b, i)
  BY <1>2, <1>4 DEF Stays
<1>6. ASSUME NEW level, NEW x \in Actors, NEW j \in Nat, Active(x),
             x = a => j <= n, Backed(level, x, j)
      PROVE  Backed(level, x, j)'
  <2>1. ASSUME NEW b \in Actors, NEW i \in Calls(b), Outside(x, j, b, i)
        PROVE  Stays(b, i)
    <3>1. SUFFICES ASSUME b = a, i = n PROVE FALSE
      BY <1>5
    <3>2. CASE x = a
      <4>1. ~ (n < j)
        BY <1>1, <1>6, <3>2
      <4>2. ~ (ExecPriority[a] < ExecPriority[a])
        BY <1>1, NobodyAbove
      <4>3. QED
        BY <2>1, <3>1, <3>2, <4>1, <4>2 DEF Outside
    <3>3. CASE x # a
      <4>1. ~ (ExecPriority[x] < ExecPriority[a])
        BY <1>1, <1>6, NobodyAbove
      <4>2. QED
        BY <2>1, <3>1, <3>3, <4>1 DEF Outside
    <3>4. QED
      BY <3>2, <3>3
  <2>2. QED
    BY <1>6, <2>1, BackedStays
<1>7. SavedBacked'
  <2>1. SUFFICES ASSUME NEW x \in Actors, NEW j \in Calls(x)', ~ FreeAt(x, j)'
                 PROVE  Backed(SavedAt(x, j), x, j)'
    BY DEF SavedBacked
  <2>2. PICK v : v = SavedAt(x, j)'
    OBVIOUS
  <2>3. j \in Calls(x) /\ (x = a => j < n) /\ ~ FreeAt(x, j) /\ v = SavedAt(x, j)
    BY <1>3, <1>4, <2>1, <2>2
  <2>4. Active(x) /\ j \in Nat
    BY <2>3 DEF CallsOK, Active, Calls
  <2>5. Backed(v, x, j)
    BY <2>3 DEF Exact, SavedBacked
  <2>6. x = a => j <= n
    BY <1>1, <2>3, <2>4
  <2>7. Backed(v, x, j)'
    BY <1>6, <2>4, <2>5, <2>6
  <2>8. QED
    BY <2>2, <2>7 DEF Backed
<1>8. InitialBacked'
  <2>1. SUFFICES ASSUME NEW t \in Tasks, pc[t] = "body"
                 PROVE  Backed(initial[t], t, 1)'
    BY <1>1 DEF InitialBacked
  <2>2. PICK v : v = initial[t]
    OBVIOUS
  <2>3. Backed(v, t, 1) /\ t \in Actors /\ Active(t)
    BY <2>1, <2>2 DEF Exact, InitialBacked, Actors, Active
  <2>4. t = a => 1 <= n
    BY <1>1
  <2>5. Backed(v, t, 1)'
    BY <1>6, <2>3, <2>4
  <2>6. QED
    BY <1>1, <2>2, <2>5 DEF Backed
<1>9. BasepriBacked'
  <2>1. PICK v : v = basepri'
    OBVIOUS
  <2>2. SUFFICES ASSUME v # 0
                 PROVE  \E b \in Actors : \E i \in Calls(b)' : Backer(b, i, v)'
    BY <2>1 DEF BasepriBacked, Backer
  <2>3. CASE FreeAt(a, n)
    <3>0. PICK b \in Actors : \E i \in Calls(b) : Backer(b, i, v)
      BY <1>1, <2>1, <2>2, <2>3 DEF Exact, BasepriBacked
    <3>1. PICK i \in Calls(b) : Backer(b, i, v)
      BY <3>0
    <3>2. b # a \/ i # n
      BY <2>3, <3>1 DEF Backer
    <3>3. QED
      BY <1>5, <3>1, <3>2 DEF Backer, Stays, CeilingHw
  <2>4. CASE ~ FreeAt(a, n)
    <3>1. Backed(v, a, n)
      BY <1>1, <2>1, <2>4 DEF Exact, SavedBacked
    <3>2. Backed(v, a, n)'
      BY <1>1, <1>6, <3>1
    <3>3. QED
      BY <2>2, <3>2 DEF Backed
  <2>5. QED
    BY <2>3, <2>4
<1>10. PrimaskBacked'
  <2>1. SUFFICES ASSUME primask' = 1
                 PROVE  \E b \in Actors : \E i \in Calls(b)' : FreeAt(b, i)'
    BY DEF PrimaskBacked
  <2>2. CASE FreeAt(a, n)
    <3>1. PICK i \in Calls(a) : i < n /\ FreeAt(a, i)
      BY <1>1, <2>1, <2>2 DEF Exact, SavedBitBacked
    <3>2. i # n
      BY <1>1, <3>1
    <3>3. QED
      BY <1>5, <3>1, <3>2 DEF Stays
  <2>3. CASE ~ FreeAt(a, n)
    <3>0. PICK b \in Actors : \E i \in Calls(b) : FreeAt(b, i)
      BY <1>1, <2>1, <2>3 DEF Exact, PrimaskBacked
    <3>1. PICK i \in Calls(b) : FreeAt(b, i)
      BY <3>0
    <3>2. QED
      BY <1>5, <2>3, <3>1 DEF Stays
  <2>4. QED
    BY <2>2, <2>3
<1>11. SavedBitBacked'
  <2>1. SUFFICES ASSUME NEW x \in Actors, NEW j \in Calls(x)', FreeAt(x, j)',
                        SavedAt(x, j)' = 1
                 PROVE  \E i \in Calls(x)' : i < j /\ FreeAt(x, i)'
    BY DEF SavedBitBacked
  <2>2. j \in Calls(x) /\ (x = a => j < n) /\ FreeAt(x, j) /\ SavedAt(x, j) = 1
    BY <1>3, <1>4, <2>1
  <2>3. PICK i \in Calls(x) : i < j /\ FreeAt(x, i)
    BY <2>2 DEF Exact, SavedBitBacked
  <2>4. x # a \/ i # n
    BY <1>1, <2>2, <2>3 DEF Calls
  <2>5. QED
    BY <1>5, <2>3, <2>4 DEF Stays
<1>12. QED
  BY <1>7, <1>8, <1>9, <1>10, <1>11 DEF Exact

LEMMA ExactStep ==
  ASSUME WellPrioritised, IInv, Exact, [Next]_vars
  PROVE  Exact'
<1>1. TypeOK /\ CallsOK /\ AboveCeilings
  BY DEF IInv
<1>2. ASSUME NEW t \in Tasks, Pend(t) PROVE Exact'
  BY <1>1, <1>2, ExactFrame DEF Pend
<1>3. ASSUME NEW t \in Tasks, Preempt(t) PROVE Exact'
  <2>1. /\ UNCHANGED <<locks, primask>> /\ UNCHANGED <<initial, basepri>>
        /\ \A u \in Tasks : pc'[u] = "body" => pc[u] = "body"
    BY <1>1, <1>3 DEF Preempt, TypeOK, Actors
  <2>2. QED
    BY <1>1, <2>1, ExactFrame
<1>4. ASSUME NEW t \in Tasks, RunEntry(t) PROVE Exact'
  BY <1>1, <1>4, ExactRunEntry
<1>5. ASSUME NEW t \in Tasks, RunExit(t) PROVE Exact'
  BY <1>1, <1>5, ExactRunExit
<1>6. ASSUME NEW a \in Actors, NEW r \in Resources, LockFree(a, r) \/ LockRead(a, r)
      PROVE  Exact'
  BY <1>1, <1>6, ExactLock
<1>7. ASSUME NEW a \in Actors, LockRaise(a) PROVE Exact'
  BY <1>1, <1>7, ExactRaise
<1>8. ASSUME NEW a \in Actors, Unlock(a) PROVE Exact'
  BY <1>1, <1>8, ExactUnlock
<1>9. ASSUME UNCHANGED vars PROVE Exact'
  BY <1>1, <1>9, ExactFrame DEF vars
<1>10. QED
  BY <1>2, <1>3, <1>4, <1>5, <1>6, <1>7, <1>8, <1>9 DEF Next

(* Every mask in force or saved comes from a closure being run.            *)
THEOREM MasksAreBacked ==
  ASSUME WellPrioritised
  PROVE  Spec => []Exact
<1>1. Init => Exact
  <2>1. SUFFICES ASSUME Init PROVE Exact
    OBVIOUS
  <2>2. \A a \in Actors : Calls(a) = {}
    BY <2>1 DEF Init, Calls
  <2>3. \A t \in Tasks : initial[t] = 0
    BY <2>1 DEF Init, Actors
  <2>4. basepri = 0 /\ primask = 0
    BY <2>1 DEF Init
  <2>5. QED
    BY <2>2, <2>3, <2>4 DEF Exact, BasepriBacked, SavedBacked, InitialBacked,
                            PrimaskBacked, SavedBitBacked, Backed
<1>2. IInv /\ Exact /\ [Next]_vars => Exact'
  BY ExactStep
<1>3. QED
  BY <1>1, <1>2, IInvAlways, PTL DEF Spec

(* A closure of a resource nobody uses asks for no mask, and every other   *)
(* one locked by BASEPRI for a mask other than 0.                          *)
LEMMA ZeroCeiling ==
  ASSUME WellPrioritised, NEW r \in Resources, ~ UsesFree(r)
  PROVE  Ceiling[r] = 0 <=> CeilingHw(r) = 0
  BY HwFacts, DeviceFacts DEF CeilingHw

LEMMA SystemCeilingHolds ==
  ASSUME WellPrioritised, IInv, Exact
  PROVE  SystemCeiling
<1>1. TypeOK /\ CallsOK /\ Protected
  BY DEF IInv
<1>2. /\ \A h : h \in Raised(FALSE) <=>
            \E a \in Actors : \E i \in Calls(a) : Backer(a, i, h)
      /\ Raised(TRUE) # {} <=> \E a \in Actors : \E i \in Calls(a) : FreeAt(a, i)
  <2>1. \A a \in Actors : \A i \in Calls(a) :
          /\ ResAt(a, i) \in Resources
          /\ FreeAt(a, i) \in BOOLEAN /\ (FreeAt(a, i) => RaisedAt(a, i))
    BY <1>1, CallTypes DEF CallsOK
  <2>2. QED
    BY <2>1 DEF Raised, Backer, Calls, RaisedAt, FreeAt, ResAt, CeilingHw
<1>3. ASSUME NEW h \in Raised(FALSE) \ {0}
      PROVE  basepri # 0 /\ basepri <= h
  <2>0. PICK a \in Actors : \E i \in Calls(a) : Backer(a, i, h)
    BY <1>2, <1>3
  <2>1. PICK i \in Calls(a) : Backer(a, i, h)
    BY <2>0
  <2>2. /\ RaisedAt(a, i) /\ ~ FreeAt(a, i) /\ CeilingHw(ResAt(a, i)) = h
        /\ ResAt(a, i) \in Resources /\ ~ UsesFree(ResAt(a, i))
    BY <1>1, <2>1, CallTypes DEF Backer, CallsOK
  <2>3. Ceiling[ResAt(a, i)] # 0
    BY <1>3, <2>2, ZeroCeiling
  <2>4. Protects(basepri, ResAt(a, i))
    BY <1>1, <2>2 DEF Protected
  <2>5. QED
    BY <2>2, <2>3, <2>4 DEF Protects
<1>4. basepri # 0 => basepri \in Raised(FALSE) \ {0}
  BY <1>2 DEF Exact, BasepriBacked
<1>5. primask = 1 <=> Raised(TRUE) # {}
  <2>1. ASSUME NEW a \in Actors, NEW i \in Calls(a), FreeAt(a, i)
        PROVE  primask = 1
    BY <1>1, <2>1 DEF CallsOK, Protected
  <2>2. QED
    BY <1>2, <2>1 DEF Exact, PrimaskBacked
<1>6. QED
  BY <1>3, <1>4, <1>5 DEF SystemCeiling

(* For every application and device: BASEPRI is the most urgent ceiling    *)
(* of the closures being run and PRIMASK is set exactly inside one of the  *)
(* top ceiling, at every step of lock, run and the interrupts.             *)
THEOREM MasksAreTheCeiling ==
  ASSUME WellPrioritised
  PROVE  Spec => []SystemCeiling
<1>1. IInv /\ Exact => SystemCeiling
  BY SystemCeilingHolds
<1>2. QED
  BY <1>1, IInvAlways, MasksAreBacked, PTL

=============================================================================
