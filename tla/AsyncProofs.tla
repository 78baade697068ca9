---------------------------- MODULE AsyncProofs ----------------------------
(***************************************************************************)
(* AsyncExecutor for any tasks and capacities: the contracts of the        *)
(* unchecked queue operations hold, no wake is lost, a spawn is deferred   *)
(* only behind a future that runs, and each task executes its spawns in    *)
(* order.                                                                  *)
(***************************************************************************)
EXTENDS AsyncExecutor, Lemmas

(* Where a spawned task is that has its input and is in no queue: its      *)
(* spawn has not reached the ready queue, or the executor has it in hand.  *)
InSpawn(t) == spawning.pc = "ready" /\ spawning.task = t
InHand(t) == dpc = "install" /\ hand = t

Queued(t) == Count(ready, t) + Count(overflow, t) + Count(deferred, t)

-----------------------------------------------------------------------------
(* The inductive invariant.                                                *)

CallType == [pc : {"out", "ready", "pend"}, task : Tasks \cup {Nothing}]

Places == {"off", "drain", "install", "poll", "polling", "reinstall"}

Types ==
  /\ kind \in {"idle", "local", "cross"}
  /\ inputs \in [Tasks -> Seq(Values)]
  /\ ready \in Seq(Tasks) /\ overflow \in Seq(Tasks) /\ deferred \in Seq(Tasks)
  /\ running \in [Tasks -> BOOLEAN] /\ pending \in [Tasks -> BOOLEAN]
  /\ future \in [Tasks -> Values \cup {Nothing}]
  /\ irq \in BOOLEAN /\ unpended \in BOOLEAN /\ installed \in BOOLEAN
  /\ dpc \in Places
  /\ hand \in Tasks \cup {Nothing}
  /\ cursor \in 1 .. Len(Order) + 1
  /\ spawning \in CallType
  /\ wakers \subseteq Tasks /\ waking \subseteq Tasks

(* The executor has a task in hand when it installs it, deferred ones only *)
(* in phase B, and polls a slot that runs, with a future of its own.       *)
Executing ==
  /\ spawning.pc # "out" => spawning.task \in Tasks
  /\ dpc = "install" => hand \in Tasks
  /\ dpc # "reinstall" => deferred = <<>>
  /\ dpc = "polling" => cursor <= Len(Order) /\ running[Order[cursor]]
  /\ \A t \in Tasks : running[t] => future[t] \in Values

(* Between two polling rounds, what is deferred has a busy slot.           *)
DeferredBusy ==
  dpc \notin {"poll", "polling"} =>
    \A i \in 1 .. Len(overflow) : running[overflow[i]]

(* There are as many inputs of a task as there are spawns of it that have  *)
(* not been installed.                                                     *)
Balanced ==
  \A t \in Tasks :
    /\ Len(inputs[t]) = Queued(t) + One(InHand(t)) + One(InSpawn(t))
    /\ Len(inputs[t]) <= Capacity[t]

IInv ==
  /\ Types
  /\ Executing
  /\ DeferredBusy
  /\ Balanced
  /\ NoLostWake

-----------------------------------------------------------------------------
(* What the invariant implies.                                             *)

LEMMA IInvTypes == IInv => TypeOK
<1> SUFFICES ASSUME IInv PROVE TypeOK
  OBVIOUS
<1>1. Types /\ \A t \in Tasks : Len(inputs[t]) <= Capacity[t]
  BY DEF IInv, Balanced
<1>2. QED
  BY <1>1 DEF Types, TypeOK, CallType, Places

LEMMA IInvDeferred == IInv => DeferredOnlyWhileRunning
BY DEF IInv, DeferredBusy, DeferredOnlyWhileRunning

LEMMA TasksFinite == IsFiniteSet(Tasks)
<1>1. Len(Order) \in Nat /\ Order \in [1 .. Len(Order) -> Tasks]
  BY AsyncAssumption
<1>2. Order \in Surjection(1 .. Len(Order), Tasks)
  BY <1>1, AsyncAssumption DEF Surjection
<1>3. IsFiniteSet(1 .. Len(Order))
  BY <1>1, FS_Interval
<1>4. QED
  BY <1>2, <1>3, FS_Surjection

LEMMA QueuedTypes ==
  ASSUME IInv, NEW t \in Tasks
  PROVE  /\ Count(ready, t) \in Nat /\ Count(overflow, t) \in Nat
         /\ Count(deferred, t) \in Nat
         /\ One(InHand(t)) \in {0, 1} /\ One(InSpawn(t)) \in {0, 1}
         /\ Len(inputs[t]) \in Nat /\ Capacity[t] \in Nat
<1>1. /\ ready \in Seq(Tasks) /\ overflow \in Seq(Tasks)
      /\ deferred \in Seq(Tasks) /\ inputs[t] \in Seq(Values)
  BY DEF IInv, Types
<1>2. /\ Count(ready, t) \in Nat /\ Count(overflow, t) \in Nat
      /\ Count(deferred, t) \in Nat
  BY <1>1, CountFacts
<1>3. QED
  BY <1>1, <1>2, AsyncAssumption DEF One

(* A task that is about to be installed or deferred is in the executor's   *)
(* hand, or next in its array.                                             *)
LEMMA InstallingIs ==
  ASSUME IInv, NEW t \in Tasks, Installing(t)
  PROVE  Count(deferred, t) + One(InHand(t)) >= 1
<1>1. CASE dpc = "install" /\ hand = t
  BY <1>1, QueuedTypes DEF InHand, One
<1>2. CASE dpc = "reinstall" /\ deferred # <<>> /\ Head(deferred) = t
  <2>1. deferred \in Seq(Tasks) /\ Tail(deferred) \in Seq(Tasks)
    BY <1>2, HeadTailProperties DEF IInv, Types
  <2>2. Count(deferred, t) = Count(Tail(deferred), t) + 1
    BY <1>2, <2>1, CountFacts
  <2>3. Count(Tail(deferred), t) \in Nat
    BY <2>1, CountFacts
  <2>4. QED
    BY <2>2, <2>3, QueuedTypes
<1>3. QED
  BY <1>1, <1>2 DEF Installing

LEMMA IInvInputs == IInv => InputIsThere
<1>1. SUFFICES ASSUME IInv, NEW t \in Tasks, Installing(t)
               PROVE  inputs[t] # <<>>
  BY DEF InputIsThere
<1>2. Count(deferred, t) + One(InHand(t)) >= 1
  BY <1>1, InstallingIs
<1>3. Len(inputs[t]) = Queued(t) + One(InHand(t)) + One(InSpawn(t))
  BY <1>1 DEF IInv, Balanced
<1>4. Len(inputs[t]) # 0
  BY <1>1, <1>2, <1>3, QueuedTypes DEF Queued
<1>5. QED
  BY <1>4

(* What is queued of a task has its input, and so its own place; the spawn *)
(* on its way to the queue has a place that nobody occupies.               *)
LEMMA RoomReady ==
  ASSUME IInv, spawning.pc = "ready"
  PROVE  /\ spawning.task \in Tasks
         /\ Len(ready) < sum_capacity
<1>1. PICK t : t = spawning.task
  OBVIOUS
<1>2. t \in Tasks
  BY <1>1 DEF IInv, Executing
<1>3. ASSUME NEW u \in Tasks
      PROVE  /\ Capacity[u] \in Nat /\ Count(ready, u) <= Capacity[u]
             /\ u = t => Count(ready, u) < Capacity[u]
  <2>1. /\ Len(inputs[u]) = Queued(u) + One(InHand(u)) + One(InSpawn(u))
        /\ Len(inputs[u]) <= Capacity[u]
    BY DEF IInv, Balanced
  <2>2. u = t => One(InSpawn(u)) = 1
    BY <1>1 DEF InSpawn, One
  <2>3. QED
    BY <2>1, <2>2, QueuedTypes DEF Queued
<1>4. RoomIn(ready, Tasks, Capacity, t)
  BY <1>2, <1>3 DEF RoomIn, IInv, Types
<1>5. Len(ready) < Cardinality(PlacesOf(Tasks, Capacity))
  BY <1>4, TasksFinite, RoomLeft
<1>6. QED
  BY <1>1, <1>2, <1>5 DEF sum_capacity, QueuePlaces, PlacesOf

LEMMA RoomOverflow ==
  ASSUME IInv, NEW t \in Tasks, Installing(t)
  PROVE  Len(overflow) < sum_capacity
<1>1. Count(deferred, t) + One(InHand(t)) >= 1
  BY InstallingIs
<1>2. ASSUME NEW u \in Tasks
      PROVE  /\ Capacity[u] \in Nat /\ Count(overflow, u) <= Capacity[u]
             /\ u = t => Count(overflow, u) < Capacity[u]
  <2>1. /\ Len(inputs[u]) = Queued(u) + One(InHand(u)) + One(InSpawn(u))
        /\ Len(inputs[u]) <= Capacity[u]
    BY DEF IInv, Balanced
  <2>2. u = t => Count(deferred, u) + One(InHand(u)) >= 1
    BY <1>1
  <2>3. /\ Count(ready, u) \in Nat /\ Count(overflow, u) \in Nat
        /\ Count(deferred, u) \in Nat
        /\ One(InHand(u)) \in {0, 1} /\ One(InSpawn(u)) \in {0, 1}
        /\ Len(inputs[u]) \in Nat /\ Capacity[u] \in Nat
    BY QueuedTypes
  <2>4. QED
    BY <2>1, <2>2, <2>3 DEF Queued
<1>3. RoomIn(overflow, Tasks, Capacity, t)
  BY <1>2 DEF RoomIn, IInv, Types
<1>4. Len(overflow) < Cardinality(PlacesOf(Tasks, Capacity))
  BY <1>3, TasksFinite, RoomLeft
<1>5. QED
  BY <1>4 DEF sum_capacity, QueuePlaces, PlacesOf

LEMMA IInvRoom == IInv => QueuesHaveRoom
BY RoomReady, RoomOverflow DEF QueuesHaveRoom

-----------------------------------------------------------------------------
(* The invariant holds at first.                                           *)

LEMMA InitIInv == Init => IInv
<1> SUFFICES ASSUME Init PROVE IInv
  OBVIOUS
<1>1. /\ inputs = [t \in Tasks |-> <<>>]
      /\ ready = <<>> /\ overflow = <<>> /\ deferred = <<>>
      /\ running = [t \in Tasks |-> FALSE] /\ pending = [t \in Tasks |-> FALSE]
      /\ future = [t \in Tasks |-> Nothing]
      /\ dpc \in {"drain", "off"} /\ spawning = Out
      /\ Len(<<>>) = 0 /\ \A S : <<>> \in Seq(S)
  BY DEF Init
<1>2. Types
  <2>1. Len(Order) \in Nat
    BY AsyncAssumption
  <2>2. cursor \in 1 .. Len(Order) + 1 /\ spawning \in CallType
    BY <1>1, <2>1 DEF Init, CallType, Out
  <2>3. inputs \in [Tasks -> Seq(Values)]
    BY <1>1
  <2>4. QED
    BY <1>1, <2>2, <2>3 DEF Init, Types, Places
<1>3. Executing /\ DeferredBusy
  BY <1>1 DEF Executing, DeferredBusy, Out
<1>4. Balanced
  <2>1. SUFFICES ASSUME NEW t \in Tasks
                 PROVE  /\ Len(inputs[t]) =
                             Queued(t) + One(InHand(t)) + One(InSpawn(t))
                        /\ Len(inputs[t]) <= Capacity[t]
    BY DEF Balanced
  <2>2. Count(<<>>, t) = 0
    <3>1. <<>> \in Seq(Tasks)
      OBVIOUS
    <3>2. QED
      BY <3>1, CountFacts
  <2>3. Queued(t) = 0
    BY <1>1, <2>2 DEF Queued
  <2>4. One(InHand(t)) = 0 /\ One(InSpawn(t)) = 0
    BY <1>1 DEF InHand, InSpawn, One, Out
  <2>5. inputs[t] = <<>> /\ Capacity[t] \in Nat
    BY <1>1, AsyncAssumption
  <2>6. QED
    BY <1>1, <2>3, <2>4, <2>5
<1>5. NoLostWake
  BY <1>1 DEF NoLostWake
<1>6. QED
  BY <1>2, <1>3, <1>4, <1>5 DEF IInv

-----------------------------------------------------------------------------
(* Every step keeps it.                                                    *)

LEMMA BalancedKept ==
  ASSUME Balanced, UNCHANGED <<inputs, ready>>,
         \/ UNCHANGED <<overflow, deferred>>
         \/ deferred = <<>> /\ deferred' = overflow /\ overflow' = <<>>,
         \A t \in Tasks : /\ InHand(t)' <=> InHand(t)
                          /\ InSpawn(t)' <=> InSpawn(t),
         ready \in Seq(Tasks), overflow \in Seq(Tasks)
  PROVE  Balanced'
<1>1. ASSUME NEW t \in Tasks
      PROVE  /\ One(InHand(t))' = One(InHand(t))
             /\ One(InSpawn(t))' = One(InSpawn(t))
  BY DEF One
<1>2. ASSUME NEW t \in Tasks
      PROVE  Queued(t)' = Queued(t)
  <2>1. /\ Queued(t)' = Count(ready', t) + Count(overflow', t)
                          + Count(deferred', t)
        /\ ready' = ready
    BY DEF Queued, Count, Among
  <2>2. CASE UNCHANGED <<overflow, deferred>>
    BY <2>1, <2>2 DEF Queued
  <2>3. CASE deferred = <<>> /\ deferred' = overflow /\ overflow' = <<>>
    <3>1. <<>> \in Seq(Tasks)
      OBVIOUS
    <3>2. Count(<<>>, t) = 0
      BY <3>1, CountFacts
    <3>3. Count(overflow, t) \in Nat /\ Count(ready, t) \in Nat
      BY CountFacts
    <3>4. /\ Queued(t)' = Count(ready, t) + 0 + Count(overflow, t)
          /\ Queued(t) = Count(ready, t) + Count(overflow, t) + 0
      BY <2>1, <2>3, <3>2 DEF Queued
    <3>5. QED
      BY <3>3, <3>4
  <2>4. QED
    BY <2>2, <2>3
<1>3. QED
  BY <1>1, <1>2 DEF Balanced

(* The new input is accounted for by the spawn itself.                     *)
LEMMA SpawnInputIInv ==
  ASSUME IInv, NEW t \in Tasks, NEW v \in Values, SpawnInput(t, v)
  PROVE  IInv'
<1>1. /\ spawning = Out /\ Len(inputs[t]) # Capacity[t]
      /\ inputs' = [inputs EXCEPT ![t] = Append(@, v)]
      /\ spawning' = [pc |-> "ready", task |-> t]
      /\ UNCHANGED <<kind, ready, overflow, running, pending, future, irq,
                     unpended, dpc, hand, cursor, deferred, installed, wakers,
                     waking>>
  BY DEF SpawnInput, Refused, slots, exec
<1>2. inputs \in [Tasks -> Seq(Values)]
  BY DEF IInv, Types
<1>3. Types'
  <2>1. inputs' \in [Tasks -> Seq(Values)] /\ spawning' \in CallType
    BY <1>1, <1>2 DEF CallType
  <2>2. QED
    BY <1>1, <2>1 DEF IInv, Types
<1>4. Executing' /\ DeferredBusy'
  BY <1>1 DEF IInv, Executing, DeferredBusy
<1>5. Balanced'
  <2>1. SUFFICES ASSUME NEW u \in Tasks
                 PROVE  /\ Len(inputs'[u]) =
                             Queued(u)' + One(InHand(u)') + One(InSpawn(u)')
                        /\ Len(inputs'[u]) <= Capacity[u]
    BY DEF Balanced, One
  <2>2. /\ Len(inputs[u]) = Queued(u) + One(InHand(u)) + One(InSpawn(u))
        /\ Len(inputs[u]) <= Capacity[u]
    BY DEF IInv, Balanced
  <2>3. Queued(u)' = Queued(u) /\ One(InHand(u)') = One(InHand(u))
    BY <1>1 DEF Queued, Count, Among, InHand, One
  <2>4. ~ InSpawn(u) /\ (InSpawn(u)' <=> u = t)
    BY <1>1 DEF InSpawn, Out
  <2>5. One(InSpawn(u)) = 0 /\ One(InSpawn(u)') = IF u = t THEN 1 ELSE 0
    BY <2>4 DEF One
  <2>6. Len(inputs'[u]) = Len(inputs[u]) + IF u = t THEN 1 ELSE 0
    BY <1>1, <1>2, QueuedTypes
  <2>7. u = t => Len(inputs[u]) # Capacity[u]
    BY <1>1
  <2>8. QED
    BY <2>2, <2>3, <2>5, <2>6, <2>7, QueuedTypes DEF Queued
<1>6. NoLostWake'
  BY <1>1 DEF IInv, NoLostWake, StillToPoll, StillToDrain, IdleExecutor, Out
<1>7. QED
  BY <1>3, <1>4, <1>5, <1>6 DEF IInv

(* There is room, so that the spawn is now accounted for by the ready      *)
(* queue.                                                                  *)
LEMMA SpawnReadyIInv ==
  ASSUME IInv, SpawnReady
  PROVE  IInv'
<1>1. PICK t : t = spawning.task
  OBVIOUS
<1>2. /\ spawning.pc = "ready" /\ t \in Tasks
      /\ ready' = Append(ready, t)
      /\ spawning' = [spawning EXCEPT !.pc = "pend"]
      /\ UNCHANGED <<kind, inputs, overflow, running, pending, future, irq,
                     unpended, dpc, hand, cursor, deferred, installed, wakers,
                     waking>>
  BY <1>1, RoomReady DEF SpawnReady, EnqueueUnchecked, slots, exec
<1>3. /\ ready \in Seq(Tasks) /\ spawning \in CallType
      /\ spawning'.pc = "pend" /\ spawning'.task = t
  BY <1>1, <1>2 DEF IInv, Types, CallType
<1>4. Types'
  <2>1. ready' \in Seq(Tasks) /\ spawning' \in CallType
    BY <1>2, <1>3 DEF CallType
  <2>2. QED
    BY <1>2, <2>1 DEF IInv, Types
<1>5. Executing' /\ DeferredBusy'
  BY <1>2, <1>3 DEF IInv, Executing, DeferredBusy
<1>6. Balanced'
  <2>1. SUFFICES ASSUME NEW u \in Tasks
                 PROVE  /\ Len(inputs'[u]) =
                             Queued(u)' + One(InHand(u)') + One(InSpawn(u)')
                        /\ Len(inputs'[u]) <= Capacity[u]
    BY DEF Balanced, One
  <2>2. /\ Len(inputs[u]) = Queued(u) + One(InHand(u)) + One(InSpawn(u))
        /\ Len(inputs[u]) <= Capacity[u]
    BY DEF IInv, Balanced
  <2>3. Count(ready', u) = Count(ready, u) + IF t = u THEN 1 ELSE 0
    BY <1>2, <1>3, CountFacts
  <2>4. /\ Queued(u)' = Count(ready', u) + Count(overflow, u)
                          + Count(deferred, u)
        /\ One(InHand(u)') = One(InHand(u)) /\ inputs' = inputs
    BY <1>2 DEF Queued, Count, Among, InHand, One
  <2>5. (InSpawn(u) <=> t = u) /\ ~ InSpawn(u)'
    BY <1>1, <1>2, <1>3 DEF InSpawn
  <2>6. One(InSpawn(u)) = (IF t = u THEN 1 ELSE 0) /\ One(InSpawn(u)') = 0
    BY <2>5 DEF One
  <2>7. QED
    BY <2>2, <2>3, <2>4, <2>6, QueuedTypes DEF Queued
<1>7. NoLostWake'
  BY <1>2, <1>3 DEF IInv, NoLostWake, StillToPoll, StillToDrain, IdleExecutor
<1>8. QED
  BY <1>4, <1>5, <1>6, <1>7 DEF IInv

LEMMA SpawnEndsIInv ==
  ASSUME IInv, SpawnPend \/ CrossPendFails \/ Repend
  PROVE  IInv'
<1>1. /\ irq \in BOOLEAN /\ unpended \in BOOLEAN
  BY DEF IInv, Types
<1>2. /\ \/ spawning' = spawning
         \/ spawning' = Out /\ spawning.pc = "pend"
      /\ UNCHANGED <<kind, inputs, ready, overflow, running, pending, future,
                     dpc, hand, cursor, deferred, installed, wakers, waking>>
  BY DEF SpawnPend, CrossPendFails, Repend, slots, exec
<1>3. /\ irq' \in BOOLEAN /\ unpended' \in BOOLEAN
      /\ irq => irq' \/ IdleExecutor
      /\ unpended => unpended' \/ irq' \/ IdleExecutor
      /\ spawning' = spawning \/ irq' \/ IdleExecutor \/ unpended'
  <2>1. CASE SpawnPend
    <3>1. irq' = (~ IdleExecutor) /\ unpended' = FALSE
      BY <2>1 DEF SpawnPend
    <3>2. CASE IdleExecutor
      BY <3>1, <3>2
    <3>3. CASE ~ IdleExecutor
      BY <3>1, <3>3
    <3>4. QED
      BY <3>2, <3>3
  <2>2. CASE CrossPendFails
    BY <1>1, <2>2 DEF CrossPendFails
  <2>3. CASE Repend
    BY <1>1, <2>3 DEF Repend
  <2>4. QED
    BY <2>1, <2>2, <2>3
<1>4. Types'
  <2>1. spawning' \in CallType
    BY <1>2 DEF IInv, Types, CallType, Out
  <2>2. QED
    BY <1>2, <1>3, <2>1 DEF IInv, Types
<1>5. Executing' /\ DeferredBusy'
  BY <1>2 DEF IInv, Executing, DeferredBusy, Out
<1>6. Balanced'
  <2>1. /\ ready \in Seq(Tasks) /\ overflow \in Seq(Tasks)
        /\ Balanced
    BY DEF IInv, Types
  <2>2. \A t \in Tasks : /\ InHand(t)' <=> InHand(t)
                         /\ InSpawn(t)' <=> InSpawn(t)
    BY <1>2 DEF InHand, InSpawn, Out
  <2>3. QED
    BY <1>2, <2>1, <2>2, BalancedKept
<1>7. NoLostWake'
  BY <1>2, <1>3 DEF IInv, NoLostWake, StillToPoll, StillToDrain, IdleExecutor
<1>8. QED
  BY <1>4, <1>5, <1>6, <1>7 DEF IInv

LEMMA WakeIInv ==
  ASSUME IInv, NEW t \in Tasks, WakeSetPending(t) \/ WakePend(t)
  PROVE  IInv'
<1>1. /\ waking' \subseteq Tasks /\ wakers' \subseteq Tasks
      /\ pending' \in [Tasks -> BOOLEAN] /\ irq' \in BOOLEAN
      /\ UNCHANGED <<kind, inputs, ready, overflow, running, future, unpended,
                     dpc, hand, cursor, deferred, installed, spawning>>
  BY DEF IInv, Types, WakeSetPending, WakePend, slots, exec
<1>2. Types'
  BY <1>1 DEF IInv, Types
<1>3. Executing' /\ DeferredBusy'
  BY <1>1 DEF IInv, Executing, DeferredBusy
<1>4. Balanced'
  <2>1. /\ ready \in Seq(Tasks) /\ overflow \in Seq(Tasks)
        /\ Balanced
    BY DEF IInv, Types
  <2>2. \A u \in Tasks : /\ InHand(u)' <=> InHand(u)
                         /\ InSpawn(u)' <=> InSpawn(u)
    BY <1>1 DEF InHand, InSpawn
  <2>3. QED
    BY <1>1, <2>1, <2>2, BalancedKept
<1>5. NoLostWake'
  <2>1. CASE WakeSetPending(t)
    <3>1. /\ pending' = [pending EXCEPT ![t] = TRUE]
          /\ pending \in [Tasks -> BOOLEAN]
          /\ irq' = irq /\ waking \subseteq waking'
          /\ IdleExecutor \/ t \in waking'
      BY <2>1 DEF WakeSetPending, IInv, Types
    <3>2. QED
      BY <1>1, <3>1 DEF IInv, NoLostWake, StillToPoll, StillToDrain,
                        IdleExecutor
  <2>2. CASE WakePend(t)
    <3>1. irq'
      BY <2>2 DEF WakePend
    <3>2. QED
      BY <3>1 DEF NoLostWake
  <2>3. QED
    BY <2>1, <2>2
<1>6. QED
  BY <1>2, <1>3, <1>4, <1>5 DEF IInv

(* Entering the handler, polling, and the end of phase B.                  *)
LEMMA QuietIInv ==
  ASSUME IInv, \/ Dispatch \/ PollStart \/ PollReady \/ PollPending
               \/ CollectDeferred \/ Finish
  PROVE  IInv'
<1>1. /\ Len(Order) \in Nat /\ \A i \in 1 .. Len(Order) : Order[i] \in Tasks
      /\ cursor \in 1 .. Len(Order) + 1
      /\ ready \in Seq(Tasks) /\ overflow \in Seq(Tasks)
      /\ running \in [Tasks -> BOOLEAN] /\ pending \in [Tasks -> BOOLEAN]
      /\ future \in [Tasks -> Values \cup {Nothing}]
      /\ \A i \in 1 .. Len(overflow) : overflow[i] \in Tasks
      /\ Types /\ Executing /\ DeferredBusy /\ Balanced /\ NoLostWake
  BY AsyncAssumption, ElementOfSeq DEF IInv, Types
<1>2. /\ \/ UNCHANGED <<overflow, deferred>>
         \/ deferred = <<>> /\ deferred' = overflow /\ overflow' = <<>>
      /\ dpc # "install" /\ dpc' \in Places \ {"install"}
      /\ UNCHANGED <<kind, inputs, ready, unpended, hand, spawning, waking>>
  BY <1>1 DEF Dispatch, PollStart, PollReady, PollPending, CollectDeferred,
              Finish, Executing, Places, slots
<1>3. Balanced'
  <2>1. \A t \in Tasks : /\ InHand(t)' <=> InHand(t)
                         /\ InSpawn(t)' <=> InSpawn(t)
    BY <1>2 DEF InHand, InSpawn
  <2>2. QED
    BY <1>1, <1>2, <2>1, BalancedKept
<1>4. CASE Dispatch
  <2>1. Types' /\ Executing' /\ DeferredBusy'
    BY <1>1, <1>2, <1>4 DEF Types, Places, Executing, DeferredBusy, Dispatch,
                            slots
  <2>2. NoLostWake'
    BY <1>4 DEF NoLostWake, StillToPoll, StillToDrain, Dispatch
  <2>3. QED
    BY <1>3, <2>1, <2>2 DEF IInv
<1>5. CASE PollStart
  <2>1. PICK t \in Tasks : t = Order[cursor] /\ cursor \in 1 .. Len(Order)
    BY <1>1, <1>5 DEF PollStart
  <2>2. CASE running[t] /\ pending[t]
    <3>1. /\ pending' = [pending EXCEPT ![t] = FALSE]
          /\ wakers' = wakers \cup {t} /\ dpc = "poll" /\ dpc' = "polling"
          /\ UNCHANGED <<overflow, deferred, running, future, irq, installed,
                         cursor>>
      BY <1>5, <2>1, <2>2 DEF PollStart
    <3>2. Types' /\ Executing' /\ DeferredBusy'
      BY <1>1, <1>2, <2>1, <2>2, <3>1
         DEF Types, Places, Executing, DeferredBusy
    <3>3. NoLostWake'
      <4>1. ASSUME NEW u \in Tasks, running'[u] /\ pending'[u]
            PROVE  StillToPoll(u)' \/ irq' \/ u \in waking'
        <5>1. u # t /\ running[u] /\ pending[u]
          BY <1>1, <3>1, <4>1
        <5>2. StillToPoll(u) \/ irq \/ u \in waking
          BY <1>1, <5>1 DEF NoLostWake
        <5>3. QED
          BY <1>1, <1>2, <2>1, <3>1, <5>1, <5>2
             DEF StillToPoll, StillToDrain, IdleExecutor
      <4>2. QED
        BY <1>1, <1>2, <3>1, <4>1 DEF NoLostWake, StillToDrain, IdleExecutor
    <3>4. QED
      BY <1>3, <3>2, <3>3 DEF IInv
  <2>3. CASE ~ (running[t] /\ pending[t])
    <3>1. /\ cursor' = cursor + 1 /\ dpc = "poll"
          /\ UNCHANGED <<overflow, deferred, running, pending, future, irq,
                         installed, dpc, wakers>>
      BY <1>5, <2>1, <2>3 DEF PollStart
    <3>2. Types' /\ Executing' /\ DeferredBusy'
      BY <1>1, <1>2, <2>1, <3>1 DEF Types, Executing, DeferredBusy
    <3>3. NoLostWake'
      <4>1. ASSUME NEW u \in Tasks, running'[u] /\ pending'[u]
            PROVE  StillToPoll(u)' \/ irq' \/ u \in waking'
        <5>1. u # t /\ running[u] /\ pending[u]
          BY <2>3, <3>1, <4>1
        <5>2. StillToPoll(u) \/ irq \/ u \in waking
          BY <1>1, <5>1 DEF NoLostWake
        <5>3. QED
          BY <1>1, <1>2, <2>1, <3>1, <5>1, <5>2
             DEF StillToPoll, StillToDrain, IdleExecutor
      <4>2. QED
        BY <1>1, <1>2, <3>1, <4>1 DEF NoLostWake, StillToDrain, IdleExecutor
    <3>4. QED
      BY <1>3, <3>2, <3>3 DEF IInv
  <2>4. QED
    BY <2>2, <2>3
<1>6. CASE PollReady \/ PollPending
  <2>1. /\ dpc = "polling" /\ dpc' = "poll" /\ cursor' = cursor + 1
        /\ cursor \in 1 .. Len(Order)
        /\ UNCHANGED <<overflow, deferred, pending, irq, installed, wakers>>
    BY <1>1, <1>6 DEF PollReady, PollPending, Executing, slots
  <2>2. PICK t \in Tasks : t = Order[cursor]
    BY <1>1, <2>1
  <2>3. \/ /\ running' = [running EXCEPT ![t] = FALSE]
           /\ future' = [future EXCEPT ![t] = Nothing]
        \/ UNCHANGED <<running, future>>
    BY <1>6, <2>2 DEF PollReady, PollPending, slots
  <2>4. Types' /\ Executing' /\ DeferredBusy'
    <3>1. /\ running' \in [Tasks -> BOOLEAN]
          /\ future' \in [Tasks -> Values \cup {Nothing}]
          /\ \A u \in Tasks : running'[u] => running[u] /\ future'[u] = future[u]
      BY <1>1, <2>2, <2>3
    <3>2. cursor' \in 1 .. Len(Order) + 1
      BY <1>1, <2>1
    <3>3. Types'
      BY <1>1, <1>2, <2>1, <3>1, <3>2 DEF Types, Places
    <3>4. Executing' /\ DeferredBusy'
      BY <1>1, <1>2, <2>1, <3>1 DEF Executing, DeferredBusy
    <3>5. QED
      BY <3>3, <3>4
  <2>5. NoLostWake'
    <3>1. ASSUME NEW u \in Tasks, running'[u] /\ pending'[u]
          PROVE  StillToPoll(u)' \/ irq' \/ u \in waking'
      <4>1. running[u] /\ pending[u]
        BY <1>1, <2>1, <2>3, <3>1
      <4>2. StillToPoll(u) \/ irq \/ u \in waking
        BY <1>1, <4>1 DEF NoLostWake
      <4>3. QED
        BY <1>1, <1>2, <2>1, <4>2
           DEF StillToPoll, StillToDrain, IdleExecutor
    <3>2. QED
      BY <1>1, <1>2, <2>1, <3>1 DEF NoLostWake, StillToDrain, IdleExecutor
  <2>6. QED
    BY <1>3, <2>4, <2>5 DEF IInv
<1>7. CASE CollectDeferred
  <2>1. /\ dpc = "poll" /\ dpc' = "reinstall" /\ cursor > Len(Order)
        /\ deferred' = overflow /\ overflow' = <<>> /\ installed' = FALSE
        /\ UNCHANGED <<running, pending, future, irq, cursor, wakers>>
    BY <1>7 DEF CollectDeferred, slots
  <2>2. Types' /\ Executing' /\ DeferredBusy'
    <3>1. overflow' \in Seq(Tasks) /\ deferred' \in Seq(Tasks)
          /\ Len(overflow') = 0
      BY <1>1, <2>1
    <3>2. Types'
      BY <1>1, <1>2, <2>1, <3>1 DEF Types, Places
    <3>3. Executing' /\ DeferredBusy'
      BY <1>1, <1>2, <2>1, <3>1 DEF Executing, DeferredBusy
    <3>4. QED
      BY <3>2, <3>3
  <2>3. NoLostWake'
    BY <1>1, <1>2, <2>1
       DEF NoLostWake, StillToPoll, StillToDrain, IdleExecutor
  <2>4. QED
    BY <1>3, <2>2, <2>3 DEF IInv
<1>8. CASE Finish
  <2>1. /\ dpc = "reinstall" /\ deferred = <<>> /\ installed' = FALSE
        /\ \/ IdleExecutor /\ dpc' = "drain" /\ irq' = irq
           \/ dpc' = "off" /\ irq' = (irq \/ installed)
        /\ UNCHANGED <<overflow, deferred, running, pending, future, cursor,
                       wakers>>
    BY <1>8 DEF Finish, RunAgain, slots
  <2>2. irq' \in BOOLEAN
    BY <1>1, <2>1 DEF Types
  <2>3. Types' /\ Executing' /\ DeferredBusy'
    BY <1>1, <1>2, <2>1, <2>2 DEF Types, Places, Executing, DeferredBusy
  <2>4. NoLostWake'
    <3>1. (irq \/ installed) => irq' \/ IdleExecutor
      BY <1>1, <2>1 DEF Types
    <3>2. QED
      BY <1>1, <1>2, <2>1, <3>1
         DEF NoLostWake, StillToPoll, StillToDrain, IdleExecutor
  <2>5. QED
    BY <1>3, <2>3, <2>4 DEF IInv
<1>9. QED
  BY <1>4, <1>5, <1>6, <1>7, <1>8

(* What was ready is now in hand.                                          *)
LEMMA DrainReadyIInv ==
  ASSUME IInv, DrainReady
  PROVE  IInv'
<1>1. /\ dpc = "drain"
      /\ UNCHANGED <<kind, inputs, overflow, running, pending, future, irq,
                     unpended, deferred, installed, spawning, wakers, waking>>
      /\ ready \in Seq(Tasks) /\ overflow \in Seq(Tasks)
      /\ Types /\ Executing /\ DeferredBusy /\ Balanced /\ NoLostWake
  BY DEF DrainReady, slots, IInv, Types
<1>2. CASE ready = <<>>
  <2>1. dpc' = "poll" /\ cursor' = 1 /\ UNCHANGED <<ready, hand>>
    BY <1>2 DEF DrainReady
  <2>2. Len(Order) \in Nat /\ 1 \in 1 .. Len(Order) + 1
    BY AsyncAssumption
  <2>3. Types' /\ Executing' /\ DeferredBusy'
    BY <1>1, <2>1, <2>2 DEF Types, Places, Executing, DeferredBusy
  <2>4. \A t \in Tasks : /\ InHand(t)' <=> InHand(t)
                         /\ InSpawn(t)' <=> InSpawn(t)
    BY <1>1, <2>1 DEF InHand, InSpawn
  <2>5. Balanced'
    BY <1>1, <2>1, <2>4, BalancedKept
  <2>6. NoLostWake'
    <3>1. \A t \in Tasks : StillToPoll(t)'
      BY <2>1, AsyncAssumption DEF StillToPoll
    <3>2. QED
      BY <1>2, <2>1, <3>1 DEF NoLostWake
  <2>7. QED
    BY <2>3, <2>5, <2>6 DEF IInv
<1>3. CASE ready # <<>>
  <2>1. PICK t : t = Head(ready)
    OBVIOUS
  <2>2. /\ hand' = t /\ ready' = Tail(ready) /\ dpc' = "install"
        /\ cursor' = cursor /\ t \in Tasks /\ Tail(ready) \in Seq(Tasks)
    BY <1>1, <1>3, <2>1, HeadTailProperties DEF DrainReady
  <2>3. Types' /\ Executing' /\ DeferredBusy'
    BY <1>1, <2>2 DEF Types, Places, Executing, DeferredBusy
  <2>4. Balanced'
    <3>1. SUFFICES ASSUME NEW u \in Tasks
                   PROVE  /\ Len(inputs'[u]) =
                               Queued(u)' + One(InHand(u)') + One(InSpawn(u)')
                          /\ Len(inputs'[u]) <= Capacity[u]
      BY DEF Balanced, One
    <3>2. /\ Len(inputs[u]) = Queued(u) + One(InHand(u)) + One(InSpawn(u))
          /\ Len(inputs[u]) <= Capacity[u]
      BY <1>1 DEF Balanced
    <3>3. /\ Count(ready, u) = Count(ready', u) + IF t = u THEN 1 ELSE 0
          /\ Count(ready', u) \in Nat
      BY <1>1, <1>3, <2>1, <2>2, CountFacts
    <3>4. /\ Queued(u)' = Count(ready', u) + Count(overflow, u)
                            + Count(deferred, u)
          /\ One(InSpawn(u)') = One(InSpawn(u)) /\ inputs' = inputs
      BY <1>1 DEF Queued, Count, Among, InSpawn, One
    <3>5. ~ InHand(u) /\ (InHand(u)' <=> t = u)
      BY <1>1, <2>2 DEF InHand
    <3>6. One(InHand(u)) = 0 /\ One(InHand(u)') = IF t = u THEN 1 ELSE 0
      BY <3>5 DEF One
    <3>7. QED
      BY <3>2, <3>3, <3>4, <3>6, QueuedTypes DEF Queued
  <2>5. NoLostWake'
    BY <2>2 DEF NoLostWake, StillToPoll, StillToDrain
  <2>6. QED
    BY <2>3, <2>4, <2>5 DEF IInv
<1>4. QED
  BY <1>2, <1>3

(* What an installation does: the slot is taken with the oldest input, or  *)
(* the task is deferred.                                                   *)
Installs(t) ==
  /\ ~ running[t]
  /\ running' = [running EXCEPT ![t] = TRUE]
  /\ pending' = [pending EXCEPT ![t] = TRUE]
  /\ future' = [future EXCEPT ![t] = Head(inputs[t])]
  /\ inputs' = [inputs EXCEPT ![t] = Tail(@)]
  /\ UNCHANGED overflow

Defers(t) ==
  /\ running[t]
  /\ overflow' = Append(overflow, t)
  /\ UNCHANGED <<inputs, running, pending, future>>

Same(u, t) == IF u = t THEN 1 ELSE 0

LEMMA InstallIs ==
  ASSUME IInv, NEW t \in Tasks, Installing(t), install(t)
  PROVE  Installs(t) \/ Defers(t)
<1>1. ~ running[t] => inputs[t] # <<>>
  BY IInvInputs DEF InputIsThere
<1>2. Len(overflow) < sum_capacity
  BY RoomOverflow
<1>3. QED
  BY <1>1, <1>2
     DEF install, try_allocate, EnqueueUnchecked, Installs, Defers, slots

(* It leaves one spawn of t less to be installed, or one more deferred,    *)
(* and a slot that runs.                                                   *)
LEMMA InstallKeeps ==
  ASSUME IInv, NEW t \in Tasks, Installing(t), Installs(t) \/ Defers(t)
  PROVE  /\ inputs' \in [Tasks -> Seq(Values)]
         /\ overflow' \in Seq(Tasks)
         /\ running' \in [Tasks -> BOOLEAN]
         /\ pending' \in [Tasks -> BOOLEAN]
         /\ future' \in [Tasks -> Values \cup {Nothing}]
         /\ \A u \in Tasks : running'[u] => future'[u] \in Values
         /\ \A i \in 1 .. Len(overflow') : running'[overflow'[i]]
         /\ \A u \in Tasks :
              /\ Len(inputs'[u]) \in Nat /\ Count(overflow', u) \in Nat
              /\ Len(inputs'[u]) <= Len(inputs[u])
              /\ Len(inputs[u]) + Count(overflow', u) =
                   Len(inputs'[u]) + Count(overflow, u) + Same(u, t)
         /\ \A u \in Tasks : running'[u] /\ pending'[u] =>
              (running[u] /\ pending[u]) \/ ~ running[t]
<1>1. /\ inputs \in [Tasks -> Seq(Values)] /\ overflow \in Seq(Tasks)
      /\ running \in [Tasks -> BOOLEAN] /\ pending \in [Tasks -> BOOLEAN]
      /\ future \in [Tasks -> Values \cup {Nothing}]
      /\ \A u \in Tasks : running[u] => future[u] \in Values
      /\ \A i \in 1 .. Len(overflow) : overflow[i] \in Tasks
      /\ Len(overflow) \in Nat
  BY ElementOfSeq DEF IInv, Types, Executing
<1>2. \A i \in 1 .. Len(overflow) : running[overflow[i]]
  BY DEF IInv, DeferredBusy, Installing
<1>3. CASE Installs(t)
  <2>1. inputs[t] # <<>> /\ inputs[t] \in Seq(Values)
    BY <1>1, <1>3, IInvInputs DEF Installs, InputIsThere
  <2>2. /\ Head(inputs[t]) \in Values /\ Tail(inputs[t]) \in Seq(Values)
        /\ Len(Tail(inputs[t])) = Len(inputs[t]) - 1
        /\ Len(inputs[t]) \in Nat \ {0}
    BY <2>1, HeadTailProperties, EmptySeq
  <2>3. /\ inputs' \in [Tasks -> Seq(Values)]
        /\ \A u \in Tasks :
             inputs'[u] = IF u = t THEN Tail(inputs[t]) ELSE inputs[u]
    BY <1>1, <1>3, <2>2 DEF Installs
  <2>4. /\ running' \in [Tasks -> BOOLEAN] /\ pending' \in [Tasks -> BOOLEAN]
        /\ future' \in [Tasks -> Values \cup {Nothing}]
        /\ \A u \in Tasks : running'[u] => future'[u] \in Values
        /\ \A u \in Tasks : running[u] => running'[u]
    BY <1>1, <1>3, <2>2 DEF Installs
  <2>5. /\ overflow' = overflow /\ ~ running[t]
    BY <1>3 DEF Installs
  <2>6. ASSUME NEW u \in Tasks
        PROVE  /\ Len(inputs'[u]) \in Nat /\ Count(overflow', u) \in Nat
               /\ Len(inputs'[u]) <= Len(inputs[u])
               /\ Len(inputs[u]) + Count(overflow', u) =
                    Len(inputs'[u]) + Count(overflow, u) + Same(u, t)
    <3>1. Count(overflow, u) \in Nat /\ Len(inputs[u]) \in Nat
      BY QueuedTypes
    <3>2. Len(inputs'[u]) = Len(inputs[u]) - IF u = t THEN 1 ELSE 0
      BY <2>2, <2>3
    <3>3. u = t => Len(inputs[u]) # 0
      BY <2>2
    <3>4. Same(u, t) = IF u = t THEN 1 ELSE 0
      BY DEF Same
    <3>5. Count(overflow', u) = Count(overflow, u)
      BY <2>5
    <3>6. PICK l \in Nat, m \in Nat, c \in Nat, x \in Nat :
            /\ l = Len(inputs[u]) /\ m = Len(inputs'[u])
            /\ c = Count(overflow, u) /\ x = Same(u, t)
            /\ l = m + x
      BY <3>1, <3>2, <3>3, <3>4
    <3>7. l + c = m + c + x /\ m <= l
      BY <3>6
    <3>8. QED
      BY <3>5, <3>6, <3>7
  <2>7. \A i \in 1 .. Len(overflow') : running'[overflow'[i]]
    BY <1>1, <1>2, <2>4, <2>5
  <2>8. QED
    BY <1>1, <2>3, <2>4, <2>5, <2>6, <2>7
<1>4. CASE Defers(t)
  <2>1. /\ overflow' \in Seq(Tasks) /\ Len(overflow') = Len(overflow) + 1
        /\ \A i \in 1 .. Len(overflow') :
             overflow'[i] = IF i = Len(overflow) + 1 THEN t ELSE overflow[i]
        /\ running[t]
        /\ UNCHANGED <<inputs, running, pending, future>>
    BY <1>1, <1>4 DEF Defers
  <2>2. ASSUME NEW i \in 1 .. Len(overflow')
        PROVE  running'[overflow'[i]]
    <3>1. i = Len(overflow) + 1 \/ i \in 1 .. Len(overflow)
      BY <1>1, <2>1
    <3>2. \/ overflow'[i] = t
          \/ i \in 1 .. Len(overflow) /\ overflow'[i] = overflow[i]
      BY <1>1, <2>1, <3>1
    <3>3. QED
      BY <1>2, <2>1, <3>2
  <2>3. ASSUME NEW u \in Tasks
        PROVE  /\ Len(inputs'[u]) \in Nat /\ Count(overflow', u) \in Nat
               /\ Len(inputs'[u]) <= Len(inputs[u])
               /\ Len(inputs[u]) + Count(overflow', u) =
                    Len(inputs'[u]) + Count(overflow, u) + Same(u, t)
    <3>1. Count(overflow, u) \in Nat /\ Len(inputs[u]) \in Nat
      BY QueuedTypes
    <3>2. Count(Append(overflow, t), u) =
            Count(overflow, u) + IF t = u THEN 1 ELSE 0
      BY <1>1, CountFacts
    <3>3. Count(overflow', u) = Count(overflow, u) + IF t = u THEN 1 ELSE 0
      BY <1>4, <3>2 DEF Defers
    <3>4. Same(u, t) = IF t = u THEN 1 ELSE 0
      BY DEF Same
    <3>5. QED
      BY <2>1, <3>1, <3>3, <3>4
  <2>4. QED
    BY <1>1, <2>1, <2>2, <2>3
<1>5. QED
  BY <1>3, <1>4

LEMMA InstallIInv ==
  ASSUME IInv, Install
  PROVE  IInv'
<1>1. PICK t : t = hand
  OBVIOUS
<1>2. /\ dpc = "install" /\ dpc' = "drain" /\ hand' = Nothing
      /\ install(t) /\ t \in Tasks /\ Installing(t)
      /\ UNCHANGED <<kind, ready, irq, unpended, cursor, deferred, installed,
                     spawning, wakers, waking>>
  BY <1>1 DEF Install, Installing, IInv, Executing
<1>3. Installs(t) \/ Defers(t)
  BY <1>2, InstallIs
<1>4. /\ Types /\ Executing /\ Balanced /\ NoLostWake
  BY DEF IInv
<1>5. Types' /\ Executing' /\ DeferredBusy'
  <2>1. Types'
    BY <1>2, <1>3, <1>4, InstallKeeps DEF Types, Places
  <2>2. Executing'
    BY <1>2, <1>3, <1>4, InstallKeeps DEF Executing
  <2>3. DeferredBusy'
    BY <1>2, <1>3, InstallKeeps DEF DeferredBusy
  <2>4. QED
    BY <2>1, <2>2, <2>3
<1>6. Balanced'
  <2>1. SUFFICES ASSUME NEW u \in Tasks
                 PROVE  /\ Len(inputs'[u]) =
                             Queued(u)' + One(InHand(u)') + One(InSpawn(u)')
                        /\ Len(inputs'[u]) <= Capacity[u]
    BY DEF Balanced, One
  <2>2. /\ Len(inputs[u]) = Queued(u) + One(InHand(u)) + One(InSpawn(u))
        /\ Len(inputs[u]) <= Capacity[u]
    BY <1>4 DEF Balanced
  <2>3. /\ Len(inputs'[u]) \in Nat /\ Count(overflow', u) \in Nat
        /\ Len(inputs'[u]) <= Len(inputs[u])
        /\ Len(inputs[u]) + Count(overflow', u) =
             Len(inputs'[u]) + Count(overflow, u) + Same(u, t)
    BY <1>2, <1>3, InstallKeeps
  <2>4. /\ Queued(u)' = Count(ready, u) + Count(overflow', u)
                          + Count(deferred, u)
        /\ One(InSpawn(u)') = One(InSpawn(u))
    BY <1>2 DEF Queued, Count, Among, InSpawn, One
  <2>5. (InHand(u) <=> u = t) /\ ~ InHand(u)'
    BY <1>1, <1>2 DEF InHand
  <2>6. /\ One(InHand(u)) = Same(u, t) /\ One(InHand(u)') = 0
        /\ Same(u, t) \in Nat
    BY <2>5 DEF One, Same
  <2>7. /\ Count(ready, u) \in Nat /\ Count(overflow, u) \in Nat
        /\ Count(deferred, u) \in Nat
        /\ One(InHand(u)) \in {0, 1} /\ One(InSpawn(u)) \in {0, 1}
        /\ Len(inputs[u]) \in Nat /\ Capacity[u] \in Nat
    BY QueuedTypes
  <2>8. Queued(u) = Count(ready, u) + Count(overflow, u) + Count(deferred, u)
    BY DEF Queued
  <2>9. PICK l, m, r, o, p, d, h, s, x :
          /\ l = Len(inputs[u]) /\ m = Len(inputs'[u])
          /\ r = Count(ready, u) /\ o = Count(overflow, u)
          /\ p = Count(overflow', u) /\ d = Count(deferred, u)
          /\ h = One(InHand(u)) /\ s = One(InSpawn(u)) /\ x = Same(u, t)
    OBVIOUS
  <2>10. /\ l \in Nat /\ m \in Nat /\ r \in Nat /\ o \in Nat /\ p \in Nat
         /\ d \in Nat /\ h \in Nat /\ s \in Nat /\ x \in Nat
         /\ h = x
    BY <2>3, <2>6, <2>7, <2>9
  <2>11. l = r + o + d + h + s
    BY <2>2, <2>8, <2>9
  <2>12. l + p = m + o + x
    BY <2>3, <2>9
  <2>13. m = r + p + d + 0 + s
    BY <2>10, <2>11, <2>12
  <2>14. Queued(u)' = r + p + d /\ One(InHand(u)') = 0
         /\ One(InSpawn(u)') = s
    BY <2>4, <2>6, <2>9
  <2>15. Len(inputs'[u]) = Queued(u)' + One(InHand(u)') + One(InSpawn(u)')
    BY <2>9, <2>13, <2>14
  <2>16. QED
    BY <2>2, <2>3, <2>7, <2>15
<1>7. NoLostWake'
  BY <1>2 DEF NoLostWake, StillToPoll, StillToDrain
<1>8. QED
  BY <1>5, <1>6, <1>7 DEF IInv

LEMMA ReinstallIInv ==
  ASSUME IInv, Reinstall
  PROVE  IInv'
<1>1. PICK t : t = Head(deferred)
  OBVIOUS
<1>2. /\ dpc = "reinstall" /\ deferred # <<>> /\ deferred \in Seq(Tasks)
      /\ t \in Tasks /\ Tail(deferred) \in Seq(Tasks)
      /\ deferred' = Tail(deferred)
      /\ installed' = (installed \/ ~ running[t])
      /\ install(t) /\ Installing(t)
      /\ UNCHANGED <<kind, ready, irq, unpended, dpc, hand, cursor, spawning,
                     wakers, waking>>
  BY <1>1, HeadTailProperties
     DEF Reinstall, Installing, try_allocate, IInv, Types
<1>3. Installs(t) \/ Defers(t)
  BY <1>2, InstallIs
<1>4. /\ Types /\ Executing /\ Balanced /\ NoLostWake
  BY DEF IInv
<1>5. Types' /\ Executing' /\ DeferredBusy'
  <2>1. installed' \in BOOLEAN
    BY <1>2, <1>4 DEF Types
  <2>2. Types'
    BY <1>2, <1>3, <1>4, <2>1, InstallKeeps DEF Types
  <2>3. Executing'
    BY <1>2, <1>3, <1>4, InstallKeeps DEF Executing
  <2>4. DeferredBusy'
    BY <1>2, <1>3, InstallKeeps DEF DeferredBusy
  <2>5. QED
    BY <2>2, <2>3, <2>4
<1>6. Balanced'
  <2>1. SUFFICES ASSUME NEW u \in Tasks
                 PROVE  /\ Len(inputs'[u]) =
                             Queued(u)' + One(InHand(u)') + One(InSpawn(u)')
                        /\ Len(inputs'[u]) <= Capacity[u]
    BY DEF Balanced, One
  <2>2. /\ Len(inputs[u]) = Queued(u) + One(InHand(u)) + One(InSpawn(u))
        /\ Len(inputs[u]) <= Capacity[u]
    BY <1>4 DEF Balanced
  <2>3. /\ Len(inputs'[u]) \in Nat /\ Count(overflow', u) \in Nat
        /\ Len(inputs'[u]) <= Len(inputs[u])
        /\ Len(inputs[u]) + Count(overflow', u) =
             Len(inputs'[u]) + Count(overflow, u) + Same(u, t)
    BY <1>2, <1>3, InstallKeeps
  <2>4. /\ Count(deferred, u) = Count(deferred', u) + Same(u, t)
        /\ Count(deferred', u) \in Nat /\ Same(u, t) \in Nat
    <3>1. /\ Count(deferred, u) = Count(deferred', u) + IF t = u THEN 1 ELSE 0
          /\ Count(deferred', u) \in Nat
      BY <1>1, <1>2, CountFacts
    <3>2. Same(u, t) = IF t = u THEN 1 ELSE 0
      BY DEF Same
    <3>3. QED
      BY <3>1, <3>2
  <2>5. /\ Queued(u)' = Count(ready, u) + Count(overflow', u)
                          + Count(deferred', u)
        /\ One(InSpawn(u)') = One(InSpawn(u)) /\ One(InHand(u)') = One(InHand(u))
    BY <1>2 DEF Queued, Count, Among, InSpawn, InHand, One
  <2>6. /\ Count(ready, u) \in Nat /\ Count(overflow, u) \in Nat
        /\ Count(deferred, u) \in Nat
        /\ One(InHand(u)) \in {0, 1} /\ One(InSpawn(u)) \in {0, 1}
        /\ Len(inputs[u]) \in Nat /\ Capacity[u] \in Nat
    BY QueuedTypes
  <2>7. Queued(u) = Count(ready, u) + Count(overflow, u) + Count(deferred, u)
    BY DEF Queued
  <2>8. PICK l, m, r, o, p, d, e, h, s, x :
          /\ l = Len(inputs[u]) /\ m = Len(inputs'[u])
          /\ r = Count(ready, u) /\ o = Count(overflow, u)
          /\ p = Count(overflow', u) /\ d = Count(deferred, u)
          /\ e = Count(deferred', u)
          /\ h = One(InHand(u)) /\ s = One(InSpawn(u)) /\ x = Same(u, t)
    OBVIOUS
  <2>9. /\ l \in Nat /\ m \in Nat /\ r \in Nat /\ o \in Nat /\ p \in Nat
        /\ d \in Nat /\ e \in Nat /\ h \in Nat /\ s \in Nat /\ x \in Nat
    BY <2>3, <2>4, <2>6, <2>8
  <2>10. l = r + o + d + h + s
    BY <2>2, <2>7, <2>8
  <2>11. l + p = m + o + x
    BY <2>3, <2>8
  <2>12. d = e + x
    BY <2>4, <2>8
  <2>13. m = r + p + e + h + s
    BY <2>9, <2>10, <2>11, <2>12
  <2>14. Queued(u)' = r + p + e /\ One(InHand(u)') = h
         /\ One(InSpawn(u)') = s
    BY <2>5, <2>8
  <2>15. Len(inputs'[u]) = Queued(u)' + One(InHand(u)') + One(InSpawn(u)')
    BY <2>8, <2>13, <2>14
  <2>16. QED
    BY <2>2, <2>3, <2>6, <2>15
<1>7. NoLostWake'
  <2>1. \A u \in Tasks : running'[u] /\ pending'[u] =>
          (running[u] /\ pending[u]) \/ ~ running[t]
    BY <1>2, <1>3, InstallKeeps
  <2>2. (installed \/ ~ running[t]) => installed'
    BY <1>2, <1>4 DEF Types
  <2>3. QED
    BY <1>2, <1>4, <2>1, <2>2
       DEF NoLostWake, StillToPoll, StillToDrain, IdleExecutor
<1>8. QED
  BY <1>5, <1>6, <1>7 DEF IInv

LEMMA NextIInv == IInv /\ [Next]_vars => IInv'
<1> SUFFICES ASSUME IInv, [Next]_vars PROVE IInv'
  OBVIOUS
<1>1. CASE Next
  <2>1. ASSUME NEW t \in Tasks, NEW v \in SpawnInputs[t], SpawnInput(t, v)
        PROVE  IInv'
    <3>1. v \in Values
      BY <2>1, AsyncAssumption
    <3>2. QED
      BY <2>1, <3>1, SpawnInputIInv
  <2>2. CASE Execute
    BY <2>2, QuietIInv, DrainReadyIInv, InstallIInv, ReinstallIInv DEF Execute
  <2>3. QED
    BY <1>1, <2>1, <2>2, SpawnReadyIInv, SpawnEndsIInv, WakeIInv DEF Next
<1>2. CASE UNCHANGED vars
  <2>1. UNCHANGED <<kind, inputs, ready, overflow, running, pending, future,
                    irq, unpended, dpc, hand, cursor, deferred, installed,
                    spawning, wakers, waking>>
    BY <1>2 DEF vars, slots, exec
  <2>2. Types' /\ Executing' /\ DeferredBusy'
    BY <2>1 DEF IInv, Types, Executing, DeferredBusy
  <2>3. Balanced'
    BY <2>1, BalancedKept DEF IInv, Types, InHand, InSpawn
  <2>4. NoLostWake'
    BY <2>1 DEF IInv, NoLostWake, StillToPoll, StillToDrain, IdleExecutor
  <2>5. QED
    BY <2>2, <2>3, <2>4 DEF IInv
<1>3. QED
  BY <1>1, <1>2

-----------------------------------------------------------------------------
(* What the counting, the room and the fate of wakes are for every group   *)
(* of tasks, any capacities, and spawners and wakers anywhere.             *)
THEOREM IInvAlways == Spec => []IInv
<1>1. IInv /\ [Next]_vars => IInv'
  BY NextIInv
<1>2. QED
  BY InitIInv, <1>1, PTL DEF Spec

(* Every queue holds tasks and inputs of its own, an input queue never     *)
(* more than its capacity, and the cursor stays in the tasks of the group. *)
THEOREM TypeCorrect == Spec => []TypeOK
BY IInvAlways, IInvTypes, PTL

(* The Safety contract of dequeue_unchecked in install: whoever finds the  *)
(* slot of a task free finds an input of it, deferred before or not.       *)
THEOREM InputsThere == Spec => []InputIsThere
BY IInvAlways, IInvInputs, PTL

(* The Safety contract of enqueue_unchecked: the sum of the capacities is  *)
(* room enough for the ready queue and, apart from it, the overflow queue. *)
THEOREM RoomAlways == Spec => []QueuesHaveRoom
BY IInvAlways, IInvRoom, PTL

(* When the executor returns, a deferred spawn waits for a future that     *)
(* runs, never for nothing.                                                *)
THEOREM DeferredAlways == Spec => []DeferredOnlyWhileRunning
BY IInvAlways, IInvDeferred, PTL

(* A future that was installed or woken will be polled and a queued spawn  *)
(* looked at, unless the spawner was told Err(None) and has not repended.  *)
THEOREM NoWakeLost == Spec => []NoLostWake
<1>1. IInv => NoLostWake
  BY DEF IInv
<1>2. QED
  BY IInvAlways, <1>1, PTL

-----------------------------------------------------------------------------
(* The order of the spawns of a task, from its inputs and its slot.        *)

BacklogOf(t, q) == [i \in 1 .. Len(q) |-> <<t, q[i]>>]

LEMMA BacklogFacts ==
  ASSUME NEW t \in Tasks, NEW q \in Seq(Values)
  PROVE  /\ BacklogOf(t, q) \in Seq(Tasks \X Values)
         /\ Len(BacklogOf(t, q)) = Len(q)
         /\ \A v \in Values : BacklogOf(t, Append(q, v)) =
                                Append(BacklogOf(t, q), <<t, v>>)
<1>1. \A i \in 1 .. Len(q) : <<t, q[i]>> \in Tasks \X Values
  BY ElementOfSeq
<1>2. BacklogOf(t, q) \in Seq(Tasks \X Values) /\ Len(BacklogOf(t, q)) = Len(q)
  BY <1>1 DEF BacklogOf
<1>3. ASSUME NEW v \in Values
      PROVE  BacklogOf(t, Append(q, v)) = Append(BacklogOf(t, q), <<t, v>>)
  <2>1. /\ Len(q) \in Nat /\ Len(Append(q, v)) = Len(q) + 1
        /\ \A i \in 1 .. Len(q) + 1 :
             Append(q, v)[i] = IF i = Len(q) + 1 THEN v ELSE q[i]
    OBVIOUS
  <2>2. BacklogOf(t, Append(q, v)) =
          [i \in 1 .. Len(q) + 1 |->
             <<t, IF i = Len(q) + 1 THEN v ELSE q[i]>>]
    BY <2>1 DEF BacklogOf
  <2>3. <<t, v>> \in Tasks \X Values
    OBVIOUS
  <2>4. Append(BacklogOf(t, q), <<t, v>>) =
          [i \in 1 .. Len(q) + 1 |->
             IF i = Len(q) + 1 THEN <<t, v>> ELSE BacklogOf(t, q)[i]]
    BY <1>2, <2>1, <2>3
  <2>5. \A i \in 1 .. Len(q) : BacklogOf(t, q)[i] = <<t, q[i]>>
    BY DEF BacklogOf
  <2>6. ASSUME NEW i \in 1 .. Len(q) + 1
        PROVE  <<t, IF i = Len(q) + 1 THEN v ELSE q[i]>> =
                 IF i = Len(q) + 1 THEN <<t, v>> ELSE BacklogOf(t, q)[i]
    <3>1. CASE i = Len(q) + 1
      BY <3>1
    <3>2. CASE i # Len(q) + 1
      <4>1. i \in 1 .. Len(q)
        BY <2>1, <3>2
      <4>2. QED
        BY <2>5, <3>2, <4>1
    <3>3. QED
      BY <3>1, <3>2
  <2>7. QED
    BY <2>2, <2>4, <2>6
<1>4. QED
  BY <1>2, <1>3

(* Of those that wait, the oldest is first.                                *)
Oldest(t, q) ==
  /\ BacklogOf(t, q) # <<>>
  /\ Head(BacklogOf(t, q)) = <<t, Head(q)>>
  /\ Tail(BacklogOf(t, q)) = BacklogOf(t, Tail(q))

LEMMA OldestFirst ==
  ASSUME NEW t \in Tasks, NEW q \in Seq(Values), Len(q) # 0
  PROVE  Oldest(t, q)
<1> DEFINE b == BacklogOf(t, q)
<1>1. b \in Seq(Tasks \X Values) /\ Len(b) = Len(q)
  BY BacklogFacts
<1>2. /\ Len(q) \in Nat \ {0} /\ q # <<>> /\ b # <<>>
      /\ Head(q) = q[1] /\ Head(b) = b[1]
      /\ Len(Tail(q)) = Len(q) - 1 /\ Len(Tail(b)) = Len(q) - 1
      /\ \A i \in 1 .. Len(q) - 1 : Tail(q)[i] = q[i + 1]
      /\ \A i \in 1 .. Len(q) - 1 : Tail(b)[i] = b[i + 1]
      /\ Tail(b) \in Seq(Tasks \X Values)
  BY <1>1, HeadTailProperties, EmptySeq
<1>3. \A i \in 1 .. Len(q) : b[i] = <<t, q[i]>>
  BY DEF BacklogOf
<1>4. Tail(b) = [i \in 1 .. Len(q) - 1 |-> <<t, q[i + 1]>>]
  <2>1. ASSUME NEW i \in 1 .. Len(q) - 1
        PROVE  Tail(b)[i] = <<t, q[i + 1]>>
    BY <1>2, <1>3
  <2>2. Tail(b) \in [1 .. Len(q) - 1 -> Tasks \X Values]
    BY <1>2, LenProperties
  <2>3. QED
    BY <2>1, <2>2
<1>5. BacklogOf(t, Tail(q)) = [i \in 1 .. Len(q) - 1 |-> <<t, q[i + 1]>>]
  BY <1>2 DEF BacklogOf
<1>6. b # <<>> /\ Head(b) = <<t, Head(q)>> /\ Tail(b) = BacklogOf(t, Tail(q))
  <2>1. 1 \in 1 .. Len(q)
    BY <1>2
  <2>2. b[1] = <<t, q[1]>>
    BY <1>3, <2>1
  <2>3. QED
    BY <1>2, <1>4, <1>5, <2>2, Zenon
<1>7. QED
  BY <1>6 DEF Oldest

LEMMA BacklogIs ==
  /\ Backlog = [t \in Tasks |-> BacklogOf(t, inputs[t])]
  /\ Backlog' = [t \in Tasks |-> BacklogOf(t, inputs'[t])]
BY DEF Backlog, BacklogOf

(* How many of a task wait in the backlog.                                 *)
LEMMA WaitingIs ==
  ASSUME IInv, NEW t \in Tasks
  PROVE  Abstract!Waiting(t) = Len(inputs[t])
<1>1. PICK q, b : q = inputs[t] /\ b = Backlog[t]
  OBVIOUS
<1>2. q \in Seq(Values) /\ Len(q) \in Nat
  BY <1>1 DEF IInv, Types
<1>3. b = BacklogOf(t, q) /\ Len(b) = Len(q)
  BY <1>1, <1>2, BacklogIs, BacklogFacts
<1>4. \A i \in 1 .. Len(q) : b[i][1] = t
  BY <1>3 DEF BacklogOf
<1>5. {i \in 1 .. Len(b) : b[i][1] = t} = 1 .. Len(q)
  BY <1>3, <1>4
<1>6. Cardinality(1 .. Len(q)) = Len(q)
  <2>1. PICK n : n = Len(q)
    OBVIOUS
  <2>2. n \in Int /\ 1 \in Int /\ n \in Nat
    BY <1>2, <2>1
  <2>3. Cardinality(1 .. n) = IF 1 > n THEN 0 ELSE n - 1 + 1
    BY <2>2, FS_Interval, Zenon
  <2>4. QED
    BY <2>1, <2>2, <2>3
<1>7. Abstract!Waiting(t)
        = Abstract!Cardinality({i \in 1 .. Len(b) : b[i][1] = t})
  BY <1>1 DEF Abstract!Waiting
<1>8. \A S : Abstract!Cardinality(S) = Cardinality(S)
  BY DEF Abstract!Cardinality, Cardinality
<1>9. QED
  BY <1>1, <1>5, <1>6, <1>7, <1>8

LEMMA InitMaps == Init => Abstract!Init
<1> SUFFICES ASSUME Init PROVE Abstract!Init
  OBVIOUS
<1>1. \A t \in Tasks : Backlog[t] = <<>>
  BY DEF Init, Backlog
<1>2. \A t \in Tasks : Current[t] = Nothing
  BY DEF Init, Current
<1>3. QED
  BY <1>1, <1>2 DEF Abstract!Init, Backlog, Current

LEMMA SpawnInputMaps ==
  ASSUME IInv, NEW t \in Tasks, NEW v \in Values, SpawnInput(t, v)
  PROVE  Abstract!Next
<1>1. /\ inputs' = [inputs EXCEPT ![t] = Append(@, v)]
      /\ Len(inputs[t]) # Capacity[t]
      /\ UNCHANGED <<running, future>>
  BY DEF SpawnInput, Refused, slots
<1>2. inputs \in [Tasks -> Seq(Values)]
  BY DEF IInv, Types
<1>3. Abstract!Waiting(t) < Capacity[t]
  <2>1. Len(inputs[t]) <= Capacity[t]
    BY DEF IInv, Balanced
  <2>2. Len(inputs[t]) < Capacity[t]
    BY <1>1, <2>1, QueuedTypes
  <2>3. QED
    BY <2>2, WaitingIs
<1>4. \A u \in Tasks : BacklogOf(u, inputs'[u]) =
        IF u = t THEN Append(BacklogOf(t, inputs[t]), <<t, v>>)
        ELSE BacklogOf(u, inputs[u])
  BY <1>1, <1>2, BacklogFacts
<1>5. Backlog' = [Backlog EXCEPT ![t] = Append(@, <<t, v>>)]
  BY <1>4, BacklogIs
<1>6. Current' = Current
  BY <1>1 DEF Current
<1>7. Abstract!Accept(t, v)
  BY <1>3, <1>5, <1>6 DEF Abstract!Accept
<1>8. QED
  BY <1>7 DEF Abstract!Next

(* A spawn starts when its future is made; to defer it is not seen.        *)
LEMMA InstallMaps ==
  ASSUME IInv, Install \/ Reinstall
  PROVE  Abstract!Next \/ UNCHANGED Abstract!vars
<1>1. PICK t \in Tasks : Installing(t) /\ install(t)
  BY HeadTailProperties
     DEF Install, Reinstall, Installing, IInv, Executing, Types
<1>2. CASE Defers(t)
  <2>1. UNCHANGED <<inputs, running, future>>
    BY <1>2 DEF Defers
  <2>2. QED
    BY <2>1 DEF Abstract!vars, Backlog, Current
<1>3. CASE Installs(t)
  <2>1. /\ inputs \in [Tasks -> Seq(Values)] /\ running \in [Tasks -> BOOLEAN]
        /\ future \in [Tasks -> Values \cup {Nothing}]
    BY DEF IInv, Types
  <2>2. PICK q : q = inputs[t]
    OBVIOUS
  <2>3. q \in Seq(Values) /\ Len(q) # 0 /\ ~ running[t]
    BY <1>1, <1>3, <2>1, <2>2, IInvInputs, EmptySeq DEF InputIsThere, Installs
  <2>4. Oldest(t, q)
    BY <2>3, OldestFirst
  <2>5. /\ Backlog[t] # <<>> /\ Head(Backlog[t]) = <<t, Head(q)>>
        /\ Tail(Backlog[t]) = BacklogOf(t, Tail(q))
    BY <2>2, <2>4, BacklogIs DEF Oldest
  <2>6. Backlog' = [Backlog EXCEPT ![t] = Tail(@)]
    <3>1. \A u \in Tasks : BacklogOf(u, inputs'[u]) =
            IF u = t THEN Tail(Backlog[t]) ELSE Backlog[u]
      BY <1>3, <2>1, <2>2, <2>5, BacklogIs DEF Installs
    <3>2. QED
      BY <3>1, BacklogIs
  <2>7. Current' = [Current EXCEPT ![t] = Head(Backlog[t])]
    <3>1. running'[t] /\ future'[t] = Head(q)
      BY <1>3, <2>1, <2>2 DEF Installs
    <3>2. \A u \in Tasks \ {t} :
            running'[u] = running[u] /\ future'[u] = future[u]
      BY <1>3, <2>1 DEF Installs
    <3>3. QED
      BY <2>5, <3>1, <3>2 DEF Current
  <2>8. Current[t] = Nothing
    BY <2>3 DEF Current
  <2>9. Abstract!Start(t)
    BY <2>5, <2>6, <2>7, <2>8 DEF Abstract!Start
  <2>10. QED
    BY <2>9 DEF Abstract!Next
<1>4. QED
  BY <1>1, <1>2, <1>3, InstallIs

LEMMA PollReadyMaps ==
  ASSUME IInv, PollReady
  PROVE  Abstract!Next
<1>1. PICK t : t = Order[cursor]
  OBVIOUS
<1>2. /\ running' = [running EXCEPT ![t] = FALSE]
      /\ future' = [future EXCEPT ![t] = Nothing]
      /\ inputs' = inputs
      /\ running \in [Tasks -> BOOLEAN]
      /\ future \in [Tasks -> Values \cup {Nothing}]
  BY <1>1 DEF PollReady, IInv, Types
<1>3. t \in Tasks /\ running[t] /\ future[t] \in Values
  <2>1. cursor \in 1 .. Len(Order) + 1 /\ cursor <= Len(Order) /\ running[t]
    BY <1>1 DEF PollReady, IInv, Executing, Types
  <2>2. Order \in Seq(Tasks) /\ Len(Order) \in Nat
    BY AsyncAssumption
  <2>3. cursor \in 1 .. Len(Order)
    BY <2>1, <2>2
  <2>4. t \in Tasks
    BY <1>1, <2>2, <2>3, ElementOfSeq
  <2>5. QED
    BY <2>1, <2>4 DEF IInv, Executing
<1>4. Current[t] # Nothing
  <2>1. <<t, future[t]>> \in Tasks \X Values
    BY <1>3
  <2>2. QED
    BY <1>3, <2>1, AsyncAssumption DEF Current
<1>5. Current' = [Current EXCEPT ![t] = Nothing]
  <2>1. ~ running'[t] /\ \A u \in Tasks \ {t} :
          running'[u] = running[u] /\ future'[u] = future[u]
    BY <1>2, <1>3
  <2>2. QED
    BY <1>3, <2>1 DEF Current
<1>6. Backlog' = Backlog
  BY <1>2 DEF Backlog
<1>7. Abstract!Finish(t)
  BY <1>4, <1>5, <1>6 DEF Abstract!Finish
<1>8. QED
  BY <1>3, <1>7 DEF Abstract!Next

LEMMA QuietMaps ==
  ASSUME \/ SpawnReady \/ SpawnPend \/ CrossPendFails \/ Repend
         \/ \E t \in Tasks : WakeSetPending(t) \/ WakePend(t)
         \/ Dispatch \/ DrainReady \/ PollStart \/ PollPending
         \/ CollectDeferred \/ Finish \/ UNCHANGED vars
  PROVE  UNCHANGED Abstract!vars
<1>1. UNCHANGED <<inputs, running, future>>
  BY DEF SpawnReady, SpawnPend, CrossPendFails, Repend, WakeSetPending,
         WakePend, Dispatch, DrainReady, PollStart, PollPending,
         CollectDeferred, Finish, vars, slots
<1>2. QED
  BY <1>1 DEF Abstract!vars, Backlog, Current

(* To its spawners each task is a queue of at most `capacity` accepted     *)
(* spawns, whose futures run one at a time, in the order of the spawns and *)
(* each with its own input, whatever was deferred and how often.           *)
THEOREM SpawnsInOrder == Spec => ImplementsSpawnOrder
<1>1. IInv /\ [Next]_vars => [Abstract!Next]_(Abstract!vars)
  <2>1. SUFFICES ASSUME IInv, [Next]_vars
                 PROVE  Abstract!Next \/ UNCHANGED Abstract!vars
    OBVIOUS
  <2>2. ASSUME NEW t \in Tasks, NEW v \in SpawnInputs[t], SpawnInput(t, v)
        PROVE  Abstract!Next
    <3>1. v \in Values
      BY <2>2, AsyncAssumption
    <3>2. QED
      BY <2>1, <2>2, <3>1, SpawnInputMaps
  <2>3. QED
    BY <2>1, <2>2, InstallMaps, PollReadyMaps, QuietMaps DEF Next, Execute
<1>2. QED
  BY InitMaps, IInvAlways, <1>1, PTL
     DEF Spec, ImplementsSpawnOrder, Abstract!Spec
=============================================================================
