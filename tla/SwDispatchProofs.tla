-------------------------- MODULE SwDispatchProofs --------------------------
(***************************************************************************)
(* SwDispatch for any cores, tasks, priorities and capacities: the         *)
(* contracts of the unchecked queue operations and of the single producer  *)
(* hold, no wake-up is lost, and each group executes its spawns in order.  *)
(* It takes SpawnedAtHome, which a core check makes true of any            *)
(* application, and which is up to the application where there is none.    *)
(***************************************************************************)
EXTENDS SwDispatch, Lemmas

(* The two moments at which the queues of a task differ: its spawn has not *)
(* yet reached the ready queue, its dispatcher has not yet taken its input. *)
InSpawn(t) == cs[spawn_by[t]].pc = "ready" /\ cs[spawn_by[t]].task = t
Taken(t) == dpc[Group(t)] = "take" /\ cur[Group(t)] = t

-----------------------------------------------------------------------------
(* The inductive invariant.                                                *)

CallType ==
  [pc : {"out", "ready", "pend"}, task : Spawnable \cup {Nothing}]

Types ==
  /\ spawn_by \in [Spawnable -> Cores]
  /\ system_initialized \in BOOLEAN
  /\ phase \in [Cores -> {"init", "flagged", "on"}]
  /\ inputs \in [Spawnable -> Seq(Values)]
  /\ DOMAIN ready = Groups /\ \A g \in Groups : ready[g] \in Seq(TasksOf(g))
  /\ irq \in [Groups -> BOOLEAN] /\ unpended \in [Groups -> BOOLEAN]
  /\ cs \in [Cores -> CallType]
  /\ dpc \in [Groups -> {"off", "loop", "take", "exec", "return"}]
  /\ cur \in [Groups -> Spawnable \cup {Nothing}]
  /\ arg \in [Groups -> Values \cup {Nothing}]

(* What the analysis has accepted.                                         *)
Accepted ==
  check_current_core_id /\ check_disjoint_priorities /\ check_uniform_spawn_by

(* A core is inside spawns of the tasks that it may spawn only.            *)
Spawning ==
  \A c \in Cores :
    IF cs[c].pc = "out" THEN cs[c] = Out
    ELSE cs[c].task \in Spawnable /\ spawn_by[cs[c].task] = c

(* A dispatcher matches on a task of its group, and has the input of the   *)
(* one that it executes.                                                   *)
Dispatching ==
  \A g \in Groups :
    /\ dpc[g] \in {"take", "exec"} => cur[g] \in TasksOf(g)
    /\ dpc[g] = "exec" => arg[g] \in Values

(* There are as many inputs of a task as there are spawns of it that have  *)
(* not taken theirs.                                                       *)
Balanced ==
  \A t \in Spawnable :
    /\ Len(inputs[t]) =
         Count(ready[Group(t)], t) + One(Taken(t)) + One(InSpawn(t))
    /\ Len(inputs[t]) <= Capacity[t]

IInv ==
  /\ Types
  /\ Accepted
  /\ Spawning
  /\ Dispatching
  /\ Balanced
  /\ NoLostWakeup

-----------------------------------------------------------------------------
(* What the invariant implies.                                             *)

LEMMA GroupFacts ==
  /\ \A t \in Spawnable : Group(t) \in Groups /\ t \in TasksOf(Group(t))
  /\ \A g \in Groups : \A t \in TasksOf(g) : t \in Spawnable /\ Group(t) = g
  BY DEF Groups, TasksOf

(* All tasks of a group are spawned by one core.                           *)
LEMMA OneSpawner ==
  ASSUME Types, Accepted, NEW t \in Spawnable, NEW u \in Spawnable,
         Group(t) = Group(u)
  PROVE  spawn_by[t] = spawn_by[u]
<1>1. Core[t] = Core[u]
  BY DEF Group
<1>2. CASE Cross(t)
  BY <1>2 DEF Accepted, check_disjoint_priorities, check_uniform_spawn_by
<1>3. CASE ~ Cross(t)
  BY <1>1, <1>3 DEF Accepted, check_disjoint_priorities, Cross
<1>4. QED
  BY <1>2, <1>3

LEMMA IInvProducers == IInv => SingleProducer
<1>1. SUFFICES ASSUME IInv, NEW c \in Cores, NEW d \in Cores, c # d,
                      cs[c] # Out, cs[d] # Out
               PROVE  Group(cs[c].task) # Group(cs[d].task)
  BY DEF SingleProducer
<1>2. /\ cs[c].task \in Spawnable /\ spawn_by[cs[c].task] = c
      /\ cs[d].task \in Spawnable /\ spawn_by[cs[d].task] = d
  BY <1>1 DEF IInv, Spawning
<1>3. QED
  BY <1>1, <1>2, OneSpawner DEF IInv

LEMMA IInvInputs == IInv => InputIsThere
<1>1. SUFFICES ASSUME IInv, NEW g \in Groups, dpc[g] = "take"
               PROVE  inputs[cur[g]] # <<>>
  BY DEF InputIsThere
<1>2. PICK t : t = cur[g]
  OBVIOUS
<1>3. t \in TasksOf(g) /\ t \in Spawnable /\ Group(t) = g
  BY <1>1, <1>2, GroupFacts DEF IInv, Dispatching
<1>4. One(Taken(t)) = 1 /\ One(InSpawn(t)) \in {0, 1}
  BY <1>1, <1>2, <1>3 DEF Taken, One
<1>5. ready[g] \in Seq(TasksOf(g))
  BY <1>1 DEF IInv, Types
<1>6. Count(ready[g], t) \in Nat
  BY <1>5, CountFacts
<1>7. Len(inputs[t]) = Count(ready[g], t) + One(Taken(t)) + One(InSpawn(t))
  BY <1>1, <1>3 DEF IInv, Balanced
<1>8. Len(inputs[t]) # 0
  BY <1>4, <1>6, <1>7
<1>9. QED
  BY <1>2, <1>8

(* What is ready of a task has its input, and so its own place; the spawn  *)
(* that has put in its input only has a place that nobody occupies.        *)
LEMMA RoomForSpawn ==
  ASSUME IInv, NEW c \in Cores, cs[c].pc = "ready",
         NEW t, t = cs[c].task, NEW g, g = Group(t)
  PROVE  /\ t \in Spawnable /\ g \in Groups
         /\ Len(ready[g]) < ReadyCapacity(g)
<1>1. t \in Spawnable /\ spawn_by[t] = c /\ g \in Groups /\ t \in TasksOf(g)
  BY GroupFacts DEF IInv, Spawning
<1>2. PICK q : q = ready[g]
  OBVIOUS
<1>3. q \in Seq(TasksOf(g))
  BY <1>1, <1>2 DEF IInv, Types
<1>4. ASSUME NEW u \in TasksOf(g)
      PROVE  /\ Capacity[u] \in Nat /\ Count(q, u) <= Capacity[u]
             /\ u = t => Count(q, u) < Capacity[u]
  <2>1. u \in Spawnable /\ Group(u) = g
    BY <1>1, GroupFacts
  <2>2. Count(q, u) \in Nat /\ Capacity[u] \in Nat
    BY <1>3, <2>1, CountFacts, SwAssumption
  <2>3. /\ Len(inputs[u]) = Count(q, u) + One(Taken(u)) + One(InSpawn(u))
        /\ Len(inputs[u]) <= Capacity[u]
    BY <1>2, <2>1 DEF IInv, Balanced
  <2>4. /\ One(Taken(u)) \in {0, 1} /\ One(InSpawn(u)) \in {0, 1}
        /\ u = t => One(InSpawn(u)) = 1
    BY <1>1 DEF One, InSpawn
  <2>5. QED
    BY <2>2, <2>3, <2>4
<1>5. RoomIn(q, TasksOf(g), Capacity, t)
  BY <1>1, <1>3, <1>4 DEF RoomIn
<1>6. IsFiniteSet(TasksOf(g))
  BY SwAssumption, FS_Subset DEF TasksOf
<1>7. Len(q) < Cardinality(PlacesOf(TasksOf(g), Capacity))
  BY <1>5, <1>6, RoomLeft
<1>8. QED
  BY <1>1, <1>2, <1>7 DEF ReadyCapacity, ReadyPlaces, PlacesOf

LEMMA IInvRoom == IInv => ReadyHasRoom
  BY RoomForSpawn DEF ReadyHasRoom

LEMMA IInvTypes == IInv => TypeOK
<1> SUFFICES ASSUME IInv PROVE TypeOK
  OBVIOUS
<1>1. Types /\ \A t \in Spawnable : Len(inputs[t]) <= Capacity[t]
  BY DEF IInv, Balanced
<1>2. QED
  BY <1>1 DEF Types, TypeOK, CallType

-----------------------------------------------------------------------------
(* The invariant holds at first.                                           *)

LEMMA InitIInv == Init => IInv
<1> SUFFICES ASSUME Init PROVE IInv
  OBVIOUS
<1>1. Types
  <2>1. /\ \A S : <<>> \in Seq(S)
        /\ Out \in CallType
    BY DEF CallType, Out
  <2>2. inputs \in [Spawnable -> Seq(Values)]
    BY <2>1 DEF Init
  <2>3. DOMAIN ready = Groups /\ \A g \in Groups : ready[g] \in Seq(TasksOf(g))
    BY <2>1 DEF Init
  <2>4. cs \in [Cores -> CallType]
    BY <2>1 DEF Init
  <2>5. QED
    BY <2>2, <2>3, <2>4 DEF Init, Types
<1>2. Accepted
  BY DEF Init, Accepted
<1>3. Spawning
  BY DEF Init, Spawning, Out
<1>4. Dispatching
  BY DEF Init, Dispatching
<1>5. Balanced
  <2>1. SUFFICES ASSUME NEW t \in Spawnable
                 PROVE  /\ Len(inputs[t]) = Count(ready[Group(t)], t)
                              + One(Taken(t)) + One(InSpawn(t))
                        /\ Len(inputs[t]) <= Capacity[t]
    BY DEF Balanced
  <2>2. Group(t) \in Groups /\ spawn_by[t] \in Cores
    BY GroupFacts DEF Init
  <2>3. inputs[t] = <<>> /\ ready[Group(t)] = <<>>
    BY <2>2 DEF Init
  <2>4. One(Taken(t)) = 0 /\ One(InSpawn(t)) = 0
    BY <2>2 DEF Init, Taken, InSpawn, One, Out
  <2>5. Len(<<>>) = 0 /\ Count(<<>>, t) = 0
    <3>1. <<>> \in Seq(Spawnable)
      OBVIOUS
    <3>2. QED
      BY <3>1, CountFacts
  <2>6. Capacity[t] \in Nat
    BY SwAssumption
  <2>7. QED
    BY <2>3, <2>4, <2>5, <2>6
<1>6. NoLostWakeup
  BY DEF Init, NoLostWakeup
<1>7. QED
  BY <1>1, <1>2, <1>3, <1>4, <1>5, <1>6 DEF IInv
-----------------------------------------------------------------------------
(* Every step keeps it.                                                    *)

LEMMA AcceptedKept ==
  ASSUME Accepted, UNCHANGED spawn_by
  PROVE  Accepted'
BY DEF Accepted, check_current_core_id, check_disjoint_priorities,
       check_uniform_spawn_by, Cross

LEMMA BalancedKept ==
  ASSUME Balanced, UNCHANGED <<inputs, ready>>,
         \A t \in Spawnable : /\ Taken(t)' <=> Taken(t)
                              /\ InSpawn(t)' <=> InSpawn(t)
  PROVE  Balanced'
<1>1. ASSUME NEW t \in Spawnable
      PROVE  /\ One(Taken(t))' = One(Taken(t))
             /\ One(InSpawn(t))' = One(InSpawn(t))
  BY DEF One
<1>2. \A t : Count(ready[Group(t)], t)' = Count(ready[Group(t)], t)
  BY DEF Count, Among
<1>3. QED
  BY <1>1, <1>2 DEF Balanced

LEMMA BootIInv ==
  ASSUME IInv, NEW c \in Cores, Boot(c)
  PROVE  IInv'
<1>1. UNCHANGED <<spawn_by, inputs, ready, irq, unpended, cs, dpc, cur, arg>>
  BY DEF Boot, SetInitialized, EnableInterrupts
<1>2. Types'
  BY <1>1 DEF IInv, Types, Boot, SetInitialized, EnableInterrupts
<1>3. Accepted'
  BY <1>1, AcceptedKept DEF IInv
<1>4. Spawning' /\ Dispatching'
  BY <1>1 DEF IInv, Spawning, Dispatching
<1>5. Balanced'
  BY <1>1, BalancedKept DEF IInv, Taken, InSpawn
<1>6. NoLostWakeup'
  BY <1>1 DEF IInv, NoLostWakeup
<1>7. QED
  BY <1>2, <1>3, <1>4, <1>5, <1>6 DEF IInv

(* Who is not refused is the task's spawner, by the core check or, without *)
(* one, because no task is spawned from another core and the application   *)
(* calls each at home.                                                     *)
LEMMA CallerIsSpawner ==
  ASSUME SpawnedAtHome, check_current_core_id, NEW c \in Cores,
         NEW t \in Spawnable, <<c, t>> \in Calls, ~ Refused(c, t)
  PROVE  spawn_by[t] = c
<1>1. CASE HasCoreId
  BY <1>1 DEF Refused
<1>2. CASE ~ HasCoreId
  <2>1. spawn_by[t] = Core[t]
    BY <1>2 DEF check_current_core_id, Cross
  <2>2. PICK call \in Calls : call = <<c, t>>
    OBVIOUS
  <2>3. c = Core[t]
    BY <1>2, <2>2 DEF SpawnedAtHome
  <2>4. QED
    BY <2>1, <2>3
<1>3. QED
  BY <1>1, <1>2

(* The new input is accounted for by the spawn itself.                     *)
LEMMA SpawnInputIInv ==
  ASSUME SpawnedAtHome, IInv, NEW c \in Cores, NEW t \in Spawnable, NEW v \in Values,
         SpawnInput(c, t, v)
  PROVE  IInv'
<1>1. /\ cs[c] = Out /\ spawn_by[t] = c
      /\ Len(inputs[t]) # Capacity[t]
      /\ inputs' = [inputs EXCEPT ![t] = Append(@, v)]
      /\ cs' = [cs EXCEPT ![c] = [pc |-> "ready", task |-> t]]
      /\ UNCHANGED <<spawn_by, system_initialized, phase, ready, irq,
                     unpended, dpc, cur, arg>>
  <2>1. spawn_by[t] = c
    BY CallerIsSpawner DEF SpawnInput, IInv, Accepted
  <2>2. QED
    BY <2>1 DEF SpawnInput, Refused
<1>2. /\ inputs \in [Spawnable -> Seq(Values)] /\ cs \in [Cores -> CallType]
      /\ spawn_by \in [Spawnable -> Cores]
  BY DEF IInv, Types
<1>3. Types'
  <2>1. inputs' \in [Spawnable -> Seq(Values)]
    BY <1>1, <1>2
  <2>2. cs' \in [Cores -> CallType]
    BY <1>1, <1>2 DEF CallType
  <2>3. QED
    BY <1>1, <2>1, <2>2 DEF IInv, Types
<1>4. Accepted'
  BY <1>1, AcceptedKept DEF IInv
<1>5. Spawning'
  BY <1>1, <1>2 DEF IInv, Spawning
<1>6. Dispatching'
  BY <1>1 DEF IInv, Dispatching
<1>7. Balanced'
  <2>1. SUFFICES ASSUME NEW u \in Spawnable
                 PROVE  /\ Len(inputs'[u]) = Count(ready'[Group(u)], u)
                              + One(Taken(u)') + One(InSpawn(u)')
                        /\ Len(inputs'[u]) <= Capacity[u]
    BY DEF Balanced
  <2>2. /\ Len(inputs[u]) = Count(ready[Group(u)], u)
                              + One(Taken(u)) + One(InSpawn(u))
        /\ Len(inputs[u]) <= Capacity[u]
    BY DEF IInv, Balanced
  <2>3. ready'[Group(u)] = ready[Group(u)] /\ (Taken(u)' <=> Taken(u))
    BY <1>1 DEF Taken
  <2>4. One(Taken(u)') = One(Taken(u)) /\ One(Taken(u)) \in Nat
    BY <2>3 DEF One
  <2>5. Count(ready[Group(u)], u) \in Nat /\ Capacity[u] \in Nat
    <3>1. ready[Group(u)] \in Seq(TasksOf(Group(u)))
      BY GroupFacts DEF IInv, Types
    <3>2. QED
      BY <3>1, CountFacts, SwAssumption
  <2>6. CASE u = t
    <3>1. ~ InSpawn(u) /\ InSpawn(u)'
      BY <1>1, <1>2, <2>6 DEF InSpawn, Out
    <3>2. One(InSpawn(u)) = 0 /\ One(InSpawn(u)') = 1
      BY <3>1 DEF One
    <3>3. Len(inputs'[u]) = Len(inputs[u]) + 1 /\ Len(inputs[u]) \in Nat
      BY <1>1, <1>2, <2>6
    <3>4. Len(inputs[u]) + 1 <= Capacity[u]
      BY <1>1, <2>2, <2>5, <2>6, <3>3
    <3>5. QED
      BY <2>2, <2>3, <2>4, <2>5, <3>2, <3>3, <3>4
  <2>7. CASE u # t
    <3>1. InSpawn(u)' <=> InSpawn(u)
      BY <1>1, <1>2, <2>7 DEF InSpawn, Out
    <3>2. One(InSpawn(u)') = One(InSpawn(u)) /\ inputs'[u] = inputs[u]
      BY <1>1, <1>2, <2>7, <3>1 DEF One
    <3>3. QED
      BY <2>2, <2>3, <2>4, <3>2
  <2>8. QED
    BY <2>6, <2>7
<1>8. NoLostWakeup'
  <2>1. ASSUME NEW d \in Cores, cs[d].pc = "pend"
        PROVE  cs'[d] = cs[d]
    BY <1>1, <1>2, <2>1 DEF Out
  <2>2. QED
    BY <1>1, <2>1 DEF IInv, NoLostWakeup
<1>9. QED
  BY <1>3, <1>4, <1>5, <1>6, <1>7, <1>8 DEF IInv

(* There is room, so that the spawn is now accounted for by the ready      *)
(* queue.                                                                  *)
LEMMA SpawnReadyIInv ==
  ASSUME IInv, NEW c \in Cores, SpawnReady(c)
  PROVE  IInv'
<1>1. PICK t, g : t = cs[c].task /\ g = Group(t)
  OBVIOUS
<1>2. /\ cs[c].pc = "ready"
      /\ ready' = [ready EXCEPT
                     ![g] = EnqueueUnchecked(@, t, ReadyCapacity(g))]
      /\ cs' = [cs EXCEPT ![c].pc = "pend"]
      /\ UNCHANGED <<spawn_by, system_initialized, phase, inputs, irq,
                     unpended, dpc, cur, arg>>
  BY <1>1 DEF SpawnReady
<1>3. /\ t \in Spawnable /\ g \in Groups /\ t \in TasksOf(g) /\ spawn_by[t] = c
      /\ Len(ready[g]) < ReadyCapacity(g)
  BY <1>1, <1>2, RoomForSpawn, GroupFacts DEF IInv, Spawning
<1>4. /\ cs \in [Cores -> CallType] /\ spawn_by \in [Spawnable -> Cores]
      /\ DOMAIN ready = Groups
      /\ \A h \in Groups : ready[h] \in Seq(TasksOf(h))
  BY DEF IInv, Types
<1>5. /\ DOMAIN ready' = Groups
      /\ \A h \in Groups :
           ready'[h] = IF h = g THEN Append(ready[h], t) ELSE ready[h]
  BY <1>2, <1>3, <1>4 DEF EnqueueUnchecked
<1>6. \A d \in Cores :
        /\ cs'[d] \in CallType
        /\ cs'[d].task = cs[d].task
        /\ cs'[d].pc = IF d = c THEN "pend" ELSE cs[d].pc
        /\ d # c => cs'[d] = cs[d]
  BY <1>2, <1>4 DEF CallType
<1>7. Types'
  <2>1. \A h \in Groups : ready'[h] \in Seq(TasksOf(h))
    BY <1>3, <1>4, <1>5
  <2>2. cs' \in [Cores -> CallType]
    BY <1>2, <1>4, <1>6
  <2>3. QED
    BY <1>2, <1>5, <2>1, <2>2 DEF IInv, Types
<1>8. Accepted'
  BY <1>2, AcceptedKept DEF IInv
<1>9. Spawning'
  BY <1>1, <1>2, <1>3, <1>6 DEF IInv, Spawning
<1>10. Dispatching'
  BY <1>2 DEF IInv, Dispatching
<1>11. Balanced'
  <2>1. SUFFICES ASSUME NEW u \in Spawnable
                 PROVE  /\ Len(inputs'[u]) = Count(ready'[Group(u)], u)
                              + One(Taken(u)') + One(InSpawn(u)')
                        /\ Len(inputs'[u]) <= Capacity[u]
    BY DEF Balanced
  <2>2. /\ Len(inputs[u]) = Count(ready[Group(u)], u)
                              + One(Taken(u)) + One(InSpawn(u))
        /\ Len(inputs[u]) <= Capacity[u]
    BY DEF IInv, Balanced
  <2>3. inputs'[u] = inputs[u] /\ (Taken(u)' <=> Taken(u))
    BY <1>2 DEF Taken
  <2>4. One(Taken(u)') = One(Taken(u)) /\ One(Taken(u)) \in Nat
    BY <2>3 DEF One
  <2>5. /\ Count(ready[Group(u)], u) \in Nat
        /\ Count(ready'[Group(u)], u) =
             Count(ready[Group(u)], u) + IF t = u THEN 1 ELSE 0
    <3>1. Group(u) \in Groups /\ ready[Group(u)] \in Seq(TasksOf(Group(u)))
      BY <1>4, GroupFacts
    <3>2. Count(ready[Group(u)], u) \in Nat
      BY <3>1, CountFacts
    <3>3. CASE Group(u) = g
      <4>1. ready'[Group(u)] = Append(ready[Group(u)], t)
        BY <1>5, <3>1, <3>3
      <4>2. t \in TasksOf(Group(u))
        BY <1>3, <3>3
      <4>3. QED
        BY <3>1, <3>2, <4>1, <4>2, CountFacts
    <3>4. CASE Group(u) # g
      <4>1. ready'[Group(u)] = ready[Group(u)] /\ t # u
        BY <1>1, <1>5, <3>1, <3>4
      <4>2. QED
        BY <3>2, <4>1
    <3>5. QED
      BY <3>3, <3>4
  <2>6. CASE u = t
    <3>1. InSpawn(u) /\ ~ InSpawn(u)'
      BY <1>1, <1>2, <1>3, <1>6, <2>6 DEF InSpawn
    <3>2. One(InSpawn(u)) = 1 /\ One(InSpawn(u)') = 0
      BY <3>1 DEF One
    <3>3. QED
      BY <2>2, <2>3, <2>4, <2>5, <2>6, <3>2
  <2>7. CASE u # t
    <3>1. InSpawn(u)' <=> InSpawn(u)
      BY <1>1, <1>2, <1>3, <1>4, <1>6, <2>7 DEF InSpawn
    <3>2. One(InSpawn(u)') = One(InSpawn(u))
      BY <3>1 DEF One
    <3>3. QED
      BY <2>2, <2>3, <2>4, <2>5, <2>7, <3>2
  <2>8. QED
    BY <2>6, <2>7
<1>12. NoLostWakeup'
  <2>1. \A d \in Cores : cs[d].pc = "pend" =>
          cs'[d].pc = "pend" /\ cs'[d].task = cs[d].task
    BY <1>6
  <2>2. cs'[c].pc = "pend" /\ Group(cs'[c].task) = g
    BY <1>1, <1>6
  <2>3. ASSUME NEW h \in Groups, ready'[h] # <<>>, h # g
        PROVE  \/ dpc'[h] \in {"loop", "take", "exec"} \/ irq'[h]
               \/ \E d \in Cores : cs'[d].pc = "pend" /\ Group(cs'[d].task) = h
               \/ unpended'[h]
    BY <1>2, <1>5, <2>1, <2>3 DEF IInv, NoLostWakeup
  <2>4. QED
    BY <2>2, <2>3 DEF NoLostWakeup
<1>13. QED
  BY <1>7, <1>8, <1>9, <1>10, <1>11, <1>12 DEF IInv

LEMMA SpawnEndsIInv ==
  ASSUME IInv, NEW c \in Cores, SpawnPend(c) \/ CrossPendFails(c)
  PROVE  IInv'
<1>1. PICK g : g = Group(cs[c].task)
  OBVIOUS
<1>2. /\ cs[c].pc = "pend" /\ cs' = [cs EXCEPT ![c] = Out]
      /\ \/ irq' = [irq EXCEPT ![g] = TRUE]
            /\ unpended' = [unpended EXCEPT ![g] = FALSE]
         \/ irq' = irq /\ unpended' = [unpended EXCEPT ![g] = TRUE]
      /\ UNCHANGED <<spawn_by, system_initialized, phase, inputs, ready, dpc,
                     cur, arg>>
  <2>1. cs[c].pc = "pend"
    BY DEF SpawnPend, CrossPendFails
  <2>2. Cross(cs[c].task) \/ c = Core[cs[c].task]
    BY <2>1 DEF IInv, Spawning, Cross
  <2>3. QED
    BY <1>1, <2>2 DEF SpawnPend, CrossPendFails
<1>3. /\ g \in Groups /\ cs \in [Cores -> CallType]
      /\ irq \in [Groups -> BOOLEAN] /\ unpended \in [Groups -> BOOLEAN]
      /\ spawn_by \in [Spawnable -> Cores]
  BY <1>1, <1>2, GroupFacts DEF IInv, Types, Spawning
<1>4. Types'
  <2>1. cs' \in [Cores -> CallType]
    BY <1>2, <1>3 DEF CallType, Out
  <2>2. irq' \in [Groups -> BOOLEAN] /\ unpended' \in [Groups -> BOOLEAN]
    BY <1>2, <1>3
  <2>3. QED
    BY <1>2, <2>1, <2>2 DEF IInv, Types
<1>5. Accepted'
  BY <1>2, AcceptedKept DEF IInv
<1>6. Spawning'
  BY <1>2, <1>3 DEF IInv, Spawning, Out
<1>7. Dispatching'
  BY <1>2 DEF IInv, Dispatching
<1>8. Balanced'
  <2>1. \A t \in Spawnable : Taken(t)' <=> Taken(t)
    BY <1>2 DEF Taken
  <2>2. \A t \in Spawnable : InSpawn(t)' <=> InSpawn(t)
    BY <1>2, <1>3 DEF InSpawn, Out
  <2>3. QED
    BY <1>2, <2>1, <2>2, BalancedKept DEF IInv
<1>9. NoLostWakeup'
  <2>1. irq'[g] \/ unpended'[g]
    BY <1>2, <1>3
  <2>2. ASSUME NEW h \in Groups, ready'[h] # <<>>, h # g
        PROVE  \/ dpc'[h] \in {"loop", "take", "exec"} \/ irq'[h]
               \/ \E d \in Cores : cs'[d].pc = "pend" /\ Group(cs'[d].task) = h
               \/ unpended'[h]
    <3>1. irq'[h] = irq[h] /\ unpended'[h] = unpended[h]
      BY <1>2, <1>3, <2>2
    <3>2. \A d \in Cores : cs[d].pc = "pend" /\ Group(cs[d].task) = h =>
            cs'[d] = cs[d]
      BY <1>1, <1>2, <1>3, <2>2
    <3>3. QED
      BY <1>2, <2>2, <3>1, <3>2 DEF IInv, NoLostWakeup
  <2>3. QED
    BY <2>1, <2>2 DEF NoLostWakeup
<1>10. QED
  BY <1>4, <1>5, <1>6, <1>7, <1>8, <1>9 DEF IInv

LEMMA RependIInv ==
  ASSUME IInv, NEW g \in Groups, Repend(g)
  PROVE  IInv'
<1>1. UNCHANGED <<spawn_by, system_initialized, phase, inputs, ready, cs, dpc,
                  cur, arg>>
  BY DEF Repend
<1>2. Types'
  BY DEF IInv, Types, Repend
<1>3. Accepted'
  BY <1>1, AcceptedKept DEF IInv
<1>4. Spawning' /\ Dispatching'
  BY <1>1 DEF IInv, Spawning, Dispatching
<1>5. Balanced'
  BY <1>1, BalancedKept DEF IInv, Taken, InSpawn
<1>6. NoLostWakeup'
  <2>1. irq \in [Groups -> BOOLEAN] /\ unpended \in [Groups -> BOOLEAN]
    BY DEF IInv, Types
  <2>2. irq'[g] /\ \A h \in Groups \ {g} :
                     irq'[h] = irq[h] /\ unpended'[h] = unpended[h]
    BY <2>1 DEF Repend
  <2>3. QED
    BY <1>1, <2>2 DEF IInv, NoLostWakeup
<1>7. QED
  BY <1>2, <1>3, <1>4, <1>5, <1>6 DEF IInv
(* Entering the handler, returning from exec and from the handler.         *)
LEMMA RunIInv ==
  ASSUME IInv, NEW g \in Groups, Dispatch(g) \/ ExecReturns(g) \/ Return(g)
  PROVE  IInv'
<1>1. /\ dpc[g] \in {"off", "exec", "return"}
      /\ dpc[g] = "exec" => dpc'[g] = "loop"
      /\ dpc[g] = "off" => dpc'[g] = "loop"
      /\ dpc'[g] \in {"loop", "off"}
      /\ \A h \in Groups \ {g} :
           dpc'[h] = dpc[h] /\ cur'[h] = cur[h] /\ arg'[h] = arg[h]
                            /\ irq'[h] = irq[h]
      /\ dpc[g] = "return" => irq'[g] = irq[g]
      /\ UNCHANGED <<spawn_by, system_initialized, phase, inputs, ready,
                     unpended, cs>>
  BY DEF IInv, Types, Dispatch, ExecReturns, Return
<1>2. Types'
  <2>1. CASE Dispatch(g)
    BY <2>1 DEF IInv, Types, Dispatch
  <2>2. CASE ExecReturns(g)
    BY <2>2 DEF IInv, Types, ExecReturns
  <2>3. CASE Return(g)
    BY <2>3 DEF IInv, Types, Return
  <2>4. QED
    BY <2>1, <2>2, <2>3
<1>3. Accepted'
  BY <1>1, AcceptedKept DEF IInv
<1>4. Spawning' /\ Dispatching'
  BY <1>1 DEF IInv, Spawning, Dispatching
<1>5. Balanced'
  <2>1. \A t \in Spawnable : Taken(t)' <=> Taken(t)
    BY <1>1, GroupFacts DEF Taken
  <2>2. \A t \in Spawnable : InSpawn(t)' <=> InSpawn(t)
    BY <1>1 DEF InSpawn
  <2>3. QED
    BY <1>1, <2>1, <2>2, BalancedKept DEF IInv
<1>6. NoLostWakeup'
  BY <1>1 DEF IInv, NoLostWakeup
<1>7. QED
  BY <1>2, <1>3, <1>4, <1>5, <1>6 DEF IInv

(* What was ready is now taken.                                            *)
LEMMA DequeueReadyIInv ==
  ASSUME IInv, NEW g \in Groups, DequeueReady(g)
  PROVE  IInv'
<1>1. /\ dpc[g] = "loop"
      /\ UNCHANGED <<spawn_by, system_initialized, phase, inputs, irq,
                     unpended, cs, arg>>
  BY DEF DequeueReady
<1>2. /\ dpc \in [Groups -> {"off", "loop", "take", "exec", "return"}]
      /\ cur \in [Groups -> Spawnable \cup {Nothing}]
      /\ DOMAIN ready = Groups
      /\ \A h \in Groups : ready[h] \in Seq(TasksOf(h))
  BY DEF IInv, Types
<1>3. Accepted' /\ Spawning'
  BY <1>1, AcceptedKept DEF IInv, Spawning
<1>4. CASE ready[g] = <<>>
  <2>1. dpc' = [dpc EXCEPT ![g] = "return"] /\ UNCHANGED <<ready, cur>>
    BY <1>4 DEF DequeueReady
  <2>2. Types' /\ Dispatching'
    BY <1>1, <1>2, <2>1 DEF IInv, Types, Dispatching
  <2>3. \A t \in Spawnable : Taken(t)' <=> Taken(t)
    BY <1>1, <1>2, <2>1, GroupFacts DEF Taken
  <2>4. \A t \in Spawnable : InSpawn(t)' <=> InSpawn(t)
    BY <1>1 DEF InSpawn
  <2>5. Balanced'
    BY <1>1, <2>1, <2>3, <2>4, BalancedKept DEF IInv
  <2>6. NoLostWakeup'
    BY <1>1, <1>2, <1>4, <2>1 DEF IInv, NoLostWakeup
  <2>7. QED
    BY <1>3, <2>2, <2>5, <2>6 DEF IInv
<1>5. CASE ready[g] # <<>>
  <2>1. PICK t : t = Head(ready[g])
    OBVIOUS
  <2>2. /\ t \in TasksOf(g) /\ Tail(ready[g]) \in Seq(TasksOf(g))
        /\ t \in Spawnable /\ Group(t) = g
    BY <1>2, <1>5, <2>1, GroupFacts, HeadTailProperties
  <2>3. /\ cur' = [cur EXCEPT ![g] = t]
        /\ dpc' = [dpc EXCEPT ![g] = "take"]
        /\ ready' = [ready EXCEPT ![g] = Tail(@)]
    BY <1>5, <2>1 DEF DequeueReady
  <2>4. /\ DOMAIN ready' = Groups
        /\ \A h \in Groups :
             ready'[h] = IF h = g THEN Tail(ready[h]) ELSE ready[h]
    BY <1>2, <2>3
  <2>5. Types'
    <3>1. \A h \in Groups : ready'[h] \in Seq(TasksOf(h))
      BY <1>2, <2>2, <2>4
    <3>2. /\ cur' \in [Groups -> Spawnable \cup {Nothing}]
          /\ dpc' \in [Groups -> {"off", "loop", "take", "exec", "return"}]
      BY <1>2, <2>2, <2>3
    <3>3. QED
      BY <1>1, <2>4, <3>1, <3>2 DEF IInv, Types
  <2>6. Dispatching'
    BY <1>1, <1>2, <2>2, <2>3 DEF IInv, Dispatching
  <2>7. Balanced'
    <3>1. SUFFICES ASSUME NEW u \in Spawnable
                   PROVE  /\ Len(inputs'[u]) = Count(ready'[Group(u)], u)
                                + One(Taken(u)') + One(InSpawn(u)')
                          /\ Len(inputs'[u]) <= Capacity[u]
      BY DEF Balanced
    <3>2. /\ Len(inputs[u]) = Count(ready[Group(u)], u)
                                + One(Taken(u)) + One(InSpawn(u))
          /\ Len(inputs[u]) <= Capacity[u]
      BY DEF IInv, Balanced
    <3>3. inputs'[u] = inputs[u] /\ (InSpawn(u)' <=> InSpawn(u))
      BY <1>1 DEF InSpawn
    <3>4. One(InSpawn(u)') = One(InSpawn(u)) /\ One(InSpawn(u)) \in Nat
      BY <3>3 DEF One
    <3>5. Group(u) \in Groups /\ ready[Group(u)] \in Seq(TasksOf(Group(u)))
      BY <1>2, GroupFacts
    <3>6. CASE Group(u) = g
      <4>1. ready'[Group(u)] = Tail(ready[Group(u)])
        BY <2>4, <3>5, <3>6
      <4>2. Count(ready[Group(u)], u) =
              Count(ready'[Group(u)], u) + IF t = u THEN 1 ELSE 0
        BY <1>5, <2>1, <3>5, <3>6, <4>1, CountFacts
      <4>3. Count(ready'[Group(u)], u) \in Nat
        BY <2>2, <3>6, <4>1, CountFacts
      <4>4. ~ Taken(u) /\ (Taken(u)' <=> t = u)
        BY <1>1, <1>2, <2>3, <3>6 DEF Taken
      <4>5. One(Taken(u)) = 0 /\ One(Taken(u)') = IF t = u THEN 1 ELSE 0
        BY <4>4 DEF One
      <4>6. QED
        BY <3>2, <3>3, <3>4, <4>2, <4>3, <4>5
    <3>7. CASE Group(u) # g
      <4>1. ready'[Group(u)] = ready[Group(u)] /\ (Taken(u)' <=> Taken(u))
        BY <1>2, <2>3, <2>4, <3>5, <3>7 DEF Taken
      <4>2. One(Taken(u)') = One(Taken(u))
        BY <4>1 DEF One
      <4>3. QED
        BY <3>2, <3>3, <3>4, <4>1, <4>2
    <3>8. QED
      BY <3>6, <3>7
  <2>8. NoLostWakeup'
    BY <1>1, <1>2, <2>3, <2>4 DEF IInv, NoLostWakeup
  <2>9. QED
    BY <1>3, <2>5, <2>6, <2>7, <2>8 DEF IInv
<1>6. QED
  BY <1>4, <1>5

(* What was taken has its input.                                           *)
LEMMA DequeueInputIInv ==
  ASSUME IInv, NEW g \in Groups, DequeueInput(g)
  PROVE  IInv'
<1>1. PICK t : t = cur[g]
  OBVIOUS
<1>2. /\ dpc[g] = "take" /\ t \in TasksOf(g) /\ t \in Spawnable /\ Group(t) = g
      /\ inputs[t] # <<>>
  BY <1>1, GroupFacts, IInvInputs
     DEF IInv, Dispatching, DequeueInput, InputIsThere
<1>3. /\ arg' = [arg EXCEPT ![g] = Head(inputs[t])]
      /\ inputs' = [inputs EXCEPT ![t] = Tail(@)]
      /\ dpc' = [dpc EXCEPT ![g] = "exec"]
      /\ UNCHANGED <<spawn_by, system_initialized, phase, ready, irq, unpended,
                     cs, cur>>
  BY <1>1, <1>2 DEF DequeueInput
<1>4. /\ dpc \in [Groups -> {"off", "loop", "take", "exec", "return"}]
      /\ arg \in [Groups -> Values \cup {Nothing}]
      /\ inputs \in [Spawnable -> Seq(Values)]
  BY DEF IInv, Types
<1>5. /\ inputs[t] \in Seq(Values)
      /\ Head(inputs[t]) \in Values /\ Tail(inputs[t]) \in Seq(Values)
      /\ Len(inputs[t]) \in Nat /\ Len(Tail(inputs[t])) = Len(inputs[t]) - 1
  BY <1>2, <1>4, HeadTailProperties
<1>6. Types'
  <2>1. /\ inputs' \in [Spawnable -> Seq(Values)]
        /\ arg' \in [Groups -> Values \cup {Nothing}]
        /\ dpc' \in [Groups -> {"off", "loop", "take", "exec", "return"}]
    BY <1>3, <1>4, <1>5
  <2>2. QED
    BY <1>3, <2>1 DEF IInv, Types
<1>7. Accepted' /\ Spawning'
  BY <1>3, AcceptedKept DEF IInv, Spawning
<1>8. Dispatching'
  BY <1>1, <1>2, <1>3, <1>4, <1>5 DEF IInv, Dispatching
<1>9. Balanced'
  <2>1. SUFFICES ASSUME NEW u \in Spawnable
                 PROVE  /\ Len(inputs'[u]) = Count(ready'[Group(u)], u)
                              + One(Taken(u)') + One(InSpawn(u)')
                        /\ Len(inputs'[u]) <= Capacity[u]
    BY DEF Balanced
  <2>2. /\ Len(inputs[u]) = Count(ready[Group(u)], u)
                              + One(Taken(u)) + One(InSpawn(u))
        /\ Len(inputs[u]) <= Capacity[u]
    BY DEF IInv, Balanced
  <2>3. /\ ready'[Group(u)] = ready[Group(u)]
        /\ InSpawn(u)' <=> InSpawn(u)
    BY <1>3 DEF InSpawn
  <2>4. One(InSpawn(u)') = One(InSpawn(u)) /\ One(InSpawn(u)) \in Nat
    BY <2>3 DEF One
  <2>5. Count(ready[Group(u)], u) \in Nat /\ Capacity[u] \in Nat
    <3>1. ready[Group(u)] \in Seq(TasksOf(Group(u)))
      BY GroupFacts DEF IInv, Types
    <3>2. QED
      BY <3>1, CountFacts, SwAssumption
  <2>6. CASE u = t
    <3>1. Taken(u) /\ ~ Taken(u)'
      BY <1>1, <1>2, <1>3, <1>4, <2>6 DEF Taken
    <3>2. One(Taken(u)) = 1 /\ One(Taken(u)') = 0
      BY <3>1 DEF One
    <3>3. Len(inputs'[u]) = Len(inputs[u]) - 1 /\ Len(inputs[u]) \in Nat
      BY <1>3, <1>4, <1>5, <2>6
    <3>4. QED
      BY <2>2, <2>3, <2>4, <2>5, <3>2, <3>3
  <2>7. CASE u # t
    <3>1. Taken(u)' <=> Taken(u)
      BY <1>1, <1>2, <1>3, <1>4, <2>7, GroupFacts DEF Taken
    <3>2. One(Taken(u)') = One(Taken(u)) /\ inputs'[u] = inputs[u]
      BY <1>3, <1>4, <2>7, <3>1 DEF One
    <3>3. QED
      BY <2>2, <2>3, <2>4, <3>2
  <2>8. QED
    BY <2>6, <2>7
<1>10. NoLostWakeup'
  BY <1>2, <1>3, <1>4 DEF IInv, NoLostWakeup
<1>11. QED
  BY <1>6, <1>7, <1>8, <1>9, <1>10 DEF IInv

LEMMA NextIInv ==
  ASSUME SpawnedAtHome
  PROVE  IInv /\ [Next]_vars => IInv'
<1> SUFFICES ASSUME IInv, [Next]_vars PROVE IInv'
  OBVIOUS
<1>1. CASE UNCHANGED vars
  BY <1>1, AcceptedKept, BalancedKept
     DEF vars, IInv, Types, Spawning, Dispatching, NoLostWakeup, Taken, InSpawn
<1>2. ASSUME NEW c \in Cores, Boot(c)
      PROVE  IInv'
  BY <1>2, BootIInv
<1>3. ASSUME NEW c \in Cores, EndSpawn(c)
      PROVE  IInv'
  BY <1>3, SpawnReadyIInv, SpawnEndsIInv DEF EndSpawn
<1>4. ASSUME NEW c \in Cores, NEW t \in Spawnable, NEW v \in Values,
             SpawnInput(c, t, v)
      PROVE  IInv'
  BY <1>4, SpawnInputIInv
<1>5. ASSUME NEW g \in Groups, Repend(g)
      PROVE  IInv'
  BY <1>5, RependIInv
<1>6. ASSUME NEW g \in Groups, Dispatcher(g)
      PROVE  IInv'
  BY <1>6, RunIInv, DequeueReadyIInv, DequeueInputIInv DEF Dispatcher
<1>7. QED
  BY <1>1, <1>2, <1>3, <1>4, <1>5, <1>6 DEF Next

-----------------------------------------------------------------------------
(* The theorems.                                                           *)

(* The invariant of spawn and the dispatchers of every application that    *)
(* the pass accepts and, where no core check is generated, that spawns its *)
(* tasks on their own core only.  All theorems below are about these.      *)
THEOREM IInvAlways ==
  ASSUME SpawnedAtHome
  PROVE  Spec => []IInv
<1>1. IInv /\ [Next]_vars => IInv'
  BY NextIInv
<1>2. QED
  BY InitIInv, <1>1, PTL DEF Spec

(* Every queue holds tasks and inputs of its own, and an input queue never *)
(* more than its capacity.                                                 *)
THEOREM TypeCorrect ==
  ASSUME SpawnedAtHome
  PROVE  Spec => []TypeOK
BY IInvAlways, IInvTypes, PTL

(* The Safety contract of enqueue_unchecked: whatever the capacities, and  *)
(* however many tasks share the group, an accepted spawn finds room in the *)
(* ready queue, whose size is the sum of the capacities plus one.          *)
THEOREM RoomAlways ==
  ASSUME SpawnedAtHome
  PROVE  Spec => []ReadyHasRoom
BY IInvAlways, IInvRoom, PTL

(* The Safety contract of dequeue_unchecked: a dispatcher that has taken a *)
(* task off the ready queue finds an input of that task.                   *)
THEOREM InputsThere ==
  ASSUME SpawnedAtHome
  PROVE  Spec => []InputIsThere
BY IInvAlways, IInvInputs, PTL

(* Two cores are never inside spawns of one group: by the uniformity       *)
(* checks of the pass and the core check of spawn, or, where a backend     *)
(* without core id gives no such check, because the application itself     *)
(* calls spawn on the task's core only.                                    *)
THEOREM OneProducer ==
  ASSUME SpawnedAtHome
  PROVE  Spec => []SingleProducer
BY IInvAlways, IInvProducers, PTL

(* While something is ready its dispatcher will look again, unless the     *)
(* spawner was told Err(None) and has not repended.                        *)
THEOREM NoWakeupLost ==
  ASSUME SpawnedAtHome
  PROVE  Spec => []NoLostWakeup
<1>1. IInv => NoLostWakeup
  BY DEF IInv
<1>2. QED
  BY IInvAlways, <1>1, PTL
-----------------------------------------------------------------------------
(* The order of the spawns: the backlog of a group, from its ready queue,  *)
(* the task it has taken and the inputs.                                   *)

HandOf(d, t) == IF d = "take" THEN {t} ELSE {}

(* Which input of its task the i-th of the ready queue will be given.      *)
Place(q, hand, i) ==
  Cardinality(Among(q, i - 1, q[i])) + One(q[i] \in hand) + 1

BacklogOf(q, hand, ins) ==
  [i \in 1 .. Len(q) |-> <<q[i], ins[q[i]][Place(q, hand, i)]>>]

CurrentOf(d, t, a, ins) ==
  CASE d = "take" -> <<t, Head(ins[t])>>
    [] d = "exec" -> <<t, a>>
    [] OTHER -> Nothing

LEMMA BacklogIs ==
  /\ Backlog = [g \in Groups |->
       BacklogOf(ready[g], HandOf(dpc[g], cur[g]), inputs)]
  /\ Backlog' = [g \in Groups |->
       BacklogOf(ready'[g], HandOf(dpc'[g], cur'[g]), inputs')]
  /\ Current = [g \in Groups |-> CurrentOf(dpc[g], cur[g], arg[g], inputs)]
  /\ Current' = [g \in Groups |->
       CurrentOf(dpc'[g], cur'[g], arg'[g], inputs')]
<1>1. \A d, c, t, k : k + (IF d = "take" /\ c = t THEN 1 ELSE 0) + 1
                        = k + One(t \in HandOf(d, c)) + 1
  BY DEF One, HandOf
<1>2. QED
  BY <1>1 DEF Backlog, Current, BacklogOf, CurrentOf, Place, Among

(* The tasks in the queue are of S, their inputs of V, and each has its    *)
(* own.                                                                    *)
Supplied(S, V, q, hand, ins) ==
  /\ q \in Seq(S)
  /\ \A t \in S : ins[t] \in Seq(V)
  /\ \A i \in 1 .. Len(q) : Place(q, hand, i) \in 1 .. Len(ins[q[i]])

Added(S, ins, t, v, new) ==
  \A u \in S : new[u] = IF u = t THEN Append(ins[u], v) ELSE ins[u]

Removed(S, ins, t, new) ==
  \A u \in S : new[u] = IF u = t THEN Tail(ins[u]) ELSE ins[u]

LEMMA BacklogLen ==
  ASSUME NEW q, NEW hand, NEW ins, Len(q) \in Nat
  PROVE  Len(BacklogOf(q, hand, ins)) = Len(q)
BY DEF BacklogOf

LEMMA BacklogShape ==
  ASSUME NEW S, NEW V, NEW q, NEW hand, NEW ins,
         Supplied(S, V, q, hand, ins)
  PROVE  BacklogOf(q, hand, ins) \in Seq(S \X V)
<1>0. q \in Seq(S)
  BY DEF Supplied
<1>1. ASSUME NEW i \in 1 .. Len(q)
      PROVE  <<q[i], ins[q[i]][Place(q, hand, i)]>> \in S \X V
  <2>1. q[i] \in S
    BY <1>0, ElementOfSeq
  <2>2. ins[q[i]] \in Seq(V) /\ Place(q, hand, i) \in 1 .. Len(ins[q[i]])
    BY <2>1 DEF Supplied
  <2>3. ins[q[i]][Place(q, hand, i)] \in V
    BY <2>2, ElementOfSeq
  <2>4. QED
    BY <2>1, <2>3
<1>2. QED
  BY <1>0, <1>1 DEF BacklogOf

(* A task comes last into the ready queue: so does its spawn.              *)
LEMMA BacklogAppend ==
  ASSUME NEW S, NEW V, NEW q, NEW hand, NEW ins, NEW t \in S,
         Supplied(S, V, q, hand, ins),
         Count(q, t) + One(t \in hand) + 1 \in 1 .. Len(ins[t])
  PROVE  BacklogOf(Append(q, t), hand, ins) =
           Append(BacklogOf(q, hand, ins),
                  <<t, ins[t][Count(q, t) + One(t \in hand) + 1]>>)
<1>0. q \in Seq(S) /\ BacklogOf(q, hand, ins) \in Seq(S \X V)
  BY BacklogShape DEF Supplied
<1> DEFINE n == Len(q)
           b == BacklogOf(q, hand, ins)
           x == <<t, ins[t][Count(q, t) + One(t \in hand) + 1]>>
           qq == Append(q, t)
           bb == BacklogOf(qq, hand, ins)
<1>1. /\ n \in Nat /\ Len(qq) = n + 1 /\ qq[n + 1] = t
      /\ \A i \in 1 .. n : qq[i] = q[i]
  BY <1>0
<1>2. b \in Seq(S \X V) /\ Len(b) = n
  BY <1>0, <1>1, BacklogLen
<1>3. x \in S \X V
  <2>1. ins[t] \in Seq(V)
    BY DEF Supplied
  <2>2. QED
    BY <2>1, ElementOfSeq
<1>4. /\ Append(b, x) = [i \in 1 .. n + 1 |-> IF i = n + 1 THEN x ELSE b[i]]
  BY <1>1, <1>2, <1>3
<1>5. \A i \in 1 .. n + 1 : Among(qq, i - 1, qq[i]) = Among(q, i - 1, qq[i])
  BY <1>1 DEF Among
<1>6. Place(qq, hand, n + 1) = Count(q, t) + One(t \in hand) + 1
  <2>1. Among(qq, (n + 1) - 1, qq[n + 1]) = Among(q, Len(q), t)
    BY <1>1, <1>5
  <2>2. QED
    BY <1>1, <2>1 DEF Place, Count
<1>7. ASSUME NEW i \in 1 .. n
      PROVE  Place(qq, hand, i) = Place(q, hand, i)
  <2>1. qq[i] = q[i] /\ i \in 1 .. n + 1
    BY <1>1
  <2>2. Among(qq, i - 1, qq[i]) = Among(q, i - 1, q[i])
    BY <1>5, <2>1
  <2>3. QED
    BY <2>1, <2>2 DEF Place
<1>8. bb = [i \in 1 .. n + 1 |-> IF i = n + 1 THEN x ELSE b[i]]
  BY <1>1, <1>6, <1>7 DEF BacklogOf
<1>9. QED
  BY <1>4, <1>8

(* A new input, at the end, is nobody's who is ready.                      *)
LEMMA BacklogNewInput ==
  ASSUME NEW S, NEW V, NEW q, NEW hand, NEW ins, NEW t, NEW v \in V,
         Supplied(S, V, q, hand, ins), NEW new, Added(S, ins, t, v, new)
  PROVE  BacklogOf(q, hand, new) = BacklogOf(q, hand, ins)
<1>0. q \in Seq(S)
  BY DEF Supplied
<1>1. ASSUME NEW i \in 1 .. Len(q)
      PROVE  new[q[i]][Place(q, hand, i)] = ins[q[i]][Place(q, hand, i)]
  <2>1. q[i] \in S
    BY <1>0, ElementOfSeq
  <2>2. ins[q[i]] \in Seq(V) /\ Place(q, hand, i) \in 1 .. Len(ins[q[i]])
    BY <2>1 DEF Supplied
  <2>3. \A s \in Seq(V) : \A k \in 1 .. Len(s) : Append(s, v)[k] = s[k]
    OBVIOUS
  <2>4. QED
    BY <2>1, <2>2, <2>3 DEF Added
<1>2. QED
  BY <1>1 DEF BacklogOf

(* The oldest is taken, and its input is the first of its task.            *)
TakesOldest(q, hand, ins) ==
  /\ BacklogOf(q, hand, ins) # <<>>
  /\ Head(BacklogOf(q, hand, ins)) = <<Head(q), Head(ins[Head(q)])>>
  /\ Tail(BacklogOf(q, hand, ins)) = BacklogOf(Tail(q), {Head(q)}, ins)

LEMMA BacklogTake ==
  ASSUME NEW S, NEW V, NEW q, NEW hand, NEW ins,
         Supplied(S, V, q, hand, ins), hand = {}, Len(q) # 0
  PROVE  TakesOldest(q, hand, ins)
<1> DEFINE b == BacklogOf(q, hand, ins)
<1>0. q \in Seq(S) /\ q # <<>>
  BY DEF Supplied
<1>1. /\ Len(q) \in Nat \ {0} /\ Head(q) = q[1] /\ q[1] \in S
      /\ Len(Tail(q)) = Len(q) - 1
      /\ \A i \in 1 .. Len(q) - 1 : Tail(q)[i] = q[i + 1]
  BY <1>0, HeadTailProperties, EmptySeq
<1>2. b \in Seq(S \X V) /\ Len(b) = Len(q)
  <2>1. b \in Seq(S \X V)
    BY BacklogShape
  <2>2. QED
    BY <1>1, <2>1, BacklogLen
<1>3. b # <<>> /\ Head(b) = b[1]
  BY <1>1, <1>2
<1>4. Place(q, hand, 1) = 1
  <2>1. One(q[1] \in hand) = 0 /\ Cardinality(Among(q, 1 - 1, q[1])) = 0
    BY AmongNone DEF One
  <2>2. QED
    BY <2>1 DEF Place
<1>5. b[1] = <<q[1], ins[q[1]][1]>>
  BY <1>1, <1>4 DEF BacklogOf
<1>6. ins[q[1]][1] = Head(ins[q[1]])
  <2>1. ins[q[1]] \in Seq(V) /\ 1 \in 1 .. Len(ins[q[1]])
    BY <1>1, <1>4 DEF Supplied
  <2>2. QED
    BY <2>1
<1>7. Tail(b) = [i \in 1 .. Len(q) - 1 |-> b[i + 1]]
  <2>1. /\ Tail(b) \in Seq(S \X V) /\ Len(Tail(b)) = Len(q) - 1
        /\ \A i \in 1 .. Len(q) - 1 : Tail(b)[i] = b[i + 1]
    BY <1>2, <1>3, HeadTailProperties
  <2>2. Tail(b) \in [1 .. Len(q) - 1 -> S \X V]
    BY <2>1, LenProperties
  <2>3. QED
    BY <2>1, <2>2
<1>8. ASSUME NEW i \in 1 .. Len(q) - 1
      PROVE  Place(Tail(q), {Head(q)}, i) = Place(q, hand, i + 1)
  <2>1. PICK u : u = q[i + 1]
    OBVIOUS
  <2>2. PICK m : m = i - 1
    OBVIOUS
  <2>3. m \in 0 .. Len(q) - 1 /\ i = m + 1 /\ (i + 1) - 1 = m + 1
    BY <1>1, <2>2
  <2>4. Cardinality(Among(q, m + 1, u)) =
          Cardinality(Among(Tail(q), m, u)) + IF Head(q) = u THEN 1 ELSE 0
    BY <1>0, <2>3, AmongTail
  <2>5. Cardinality(Among(Tail(q), m, u)) \in Nat
    BY <2>3, AmongFinite
  <2>6. /\ One(u \in {Head(q)}) = IF Head(q) = u THEN 1 ELSE 0
        /\ One(u \in hand) = 0
    BY DEF One
  <2>7. Place(Tail(q), {Head(q)}, i)
          = Cardinality(Among(Tail(q), m, u)) + One(u \in {Head(q)}) + 1
    BY <1>1, <2>1, <2>2 DEF Place
  <2>8. Place(q, hand, i + 1)
          = Cardinality(Among(q, m + 1, u)) + One(u \in hand) + 1
    BY <2>1, <2>3 DEF Place
  <2>9. QED
    BY <2>4, <2>5, <2>6, <2>7, <2>8
<1>9. BacklogOf(Tail(q), {Head(q)}, ins) = [i \in 1 .. Len(q) - 1 |-> b[i + 1]]
  <2>1. ASSUME NEW i \in 1 .. Len(q) - 1
        PROVE  b[i + 1] = <<Tail(q)[i],
                            ins[Tail(q)[i]][Place(Tail(q), {Head(q)}, i)]>>
    <3>1. i + 1 \in 1 .. Len(q) /\ q[i + 1] = Tail(q)[i]
      BY <1>1
    <3>2. b[i + 1] = <<q[i + 1], ins[q[i + 1]][Place(q, hand, i + 1)]>>
      BY <3>1 DEF BacklogOf
    <3>3. QED
      BY <1>8, <3>1, <3>2
  <2>2. QED
    BY <1>1, <2>1 DEF BacklogOf
<1>10. QED
  BY <1>1, <1>3, <1>5, <1>6, <1>7, <1>9 DEF TakesOldest

(* Its input is taken, and those of its task move to the front.            *)
LEMMA BacklogInput ==
  ASSUME NEW S, NEW V, NEW q, NEW ins, NEW t,
         Supplied(S, V, q, {t}, ins), NEW new, Removed(S, ins, t, new)
  PROVE  BacklogOf(q, {}, new) = BacklogOf(q, {t}, ins)
<1>0. q \in Seq(S)
  BY DEF Supplied
<1>1. ASSUME NEW i \in 1 .. Len(q)
      PROVE  new[q[i]][Place(q, {}, i)] = ins[q[i]][Place(q, {t}, i)]
  <2>1. q[i] \in S
    BY <1>0, ElementOfSeq
  <2>2. ins[q[i]] \in Seq(V) /\ Place(q, {t}, i) \in 1 .. Len(ins[q[i]])
    BY <2>1 DEF Supplied
  <2>3. Cardinality(Among(q, i - 1, q[i])) \in Nat
    BY AmongFinite
  <2>4. CASE q[i] = t
    <3>1. One(q[i] \in {}) = 0 /\ One(q[i] \in {t}) = 1
      BY <2>4 DEF One
    <3>2. /\ Place(q, {t}, i) = Place(q, {}, i) + 1
          /\ Place(q, {}, i) \in Nat \ {0}
      BY <2>3, <3>1 DEF Place
    <3>3. Place(q, {}, i) \in 1 .. Len(ins[q[i]]) - 1 /\ ins[q[i]] # <<>>
      BY <2>2, <3>2
    <3>4. Tail(ins[q[i]])[Place(q, {}, i)] = ins[q[i]][Place(q, {}, i) + 1]
      BY <2>2, <3>3, HeadTailProperties
    <3>5. QED
      BY <2>1, <2>4, <3>2, <3>4 DEF Removed
  <2>5. CASE q[i] # t
    <3>1. One(q[i] \in {}) = One(q[i] \in {t})
      BY <2>5 DEF One
    <3>2. QED
      BY <2>1, <2>5, <3>1 DEF Place, Removed
  <2>6. QED
    BY <2>4, <2>5
<1>2. QED
  BY <1>1 DEF BacklogOf

(* What is ready has its input.                                            *)
LEMMA BacklogSupplied ==
  ASSUME IInv, NEW g \in Groups
  PROVE  /\ ready[g] \in Seq(TasksOf(g))
         /\ Supplied(TasksOf(g), Values, ready[g], HandOf(dpc[g], cur[g]),
                     inputs)
<1>1. /\ ready[g] \in Seq(TasksOf(g))
      /\ \A u \in TasksOf(g) : inputs[u] \in Seq(Values)
  BY GroupFacts DEF IInv, Types
<1>2. PICK q : q = ready[g]
  OBVIOUS
<1>3. ASSUME NEW i \in 1 .. Len(q)
      PROVE  Place(q, HandOf(dpc[g], cur[g]), i) \in 1 .. Len(inputs[q[i]])
  <2>1. PICK u : u = q[i]
    OBVIOUS
  <2>2. /\ u \in TasksOf(g) /\ u \in Spawnable /\ Group(u) = g
        /\ i \in Nat /\ i - 1 \in Nat /\ i - 1 < i /\ i <= Len(q)
        /\ Len(q) \in Nat
    BY <1>1, <1>2, <2>1, ElementOfSeq, GroupFacts
  <2>3. Cardinality(Among(q, i - 1, u)) < Cardinality(Among(q, i, u))
    BY <2>1, <2>2, AmongGrows
  <2>4. Cardinality(Among(q, i, u)) <= Count(q, u)
    BY <2>2, AmongMonotone DEF Count
  <2>5. /\ Cardinality(Among(q, i - 1, u)) \in Nat
        /\ Cardinality(Among(q, i, u)) \in Nat /\ Count(q, u) \in Nat
    BY <2>2, AmongFinite DEF Count
  <2>6. One(Taken(u)) = One(u \in HandOf(dpc[g], cur[g]))
    BY <2>2 DEF One, Taken, HandOf
  <2>7. One(Taken(u)) \in Nat /\ One(InSpawn(u)) \in Nat
    BY DEF One
  <2>8. /\ Len(inputs[u]) = Count(q, u) + One(Taken(u)) + One(InSpawn(u))
    BY <1>2, <2>2 DEF IInv, Balanced
  <2>9. Place(q, HandOf(dpc[g], cur[g]), i)
          = Cardinality(Among(q, i - 1, u)) + One(Taken(u)) + 1
    BY <2>1, <2>6 DEF Place
  <2>10. Len(inputs[u]) \in Nat
    BY <1>1, <2>2
  <2>11. QED
    BY <2>1, <2>3, <2>4, <2>5, <2>7, <2>8, <2>9, <2>10
<1>4. QED
  BY <1>1, <1>2, <1>3 DEF Supplied
-----------------------------------------------------------------------------
(* Every step accepts, starts or finishes a spawn, or is not seen.         *)

LEMMA Unseen ==
  ASSUME \A g \in Groups :
           /\ BacklogOf(ready'[g], HandOf(dpc'[g], cur'[g]), inputs')
                = BacklogOf(ready[g], HandOf(dpc[g], cur[g]), inputs)
           /\ CurrentOf(dpc'[g], cur'[g], arg'[g], inputs')
                = CurrentOf(dpc[g], cur[g], arg[g], inputs)
  PROVE  UNCHANGED Abstract!vars
<1>1. Backlog' = Backlog /\ Current' = Current
  BY BacklogIs
<1>2. QED
  BY <1>1 DEF Abstract!vars

LEMMA QuietMaps ==
  ASSUME IInv,
         \/ \E c \in Cores : Boot(c) \/ SpawnPend(c) \/ CrossPendFails(c)
         \/ \E g \in Groups : Repend(g) \/ Dispatch(g) \/ Return(g)
         \/ UNCHANGED vars
  PROVE  UNCHANGED Abstract!vars
<1>1. UNCHANGED <<inputs, ready, cur, arg>>
  BY DEF Boot, SetInitialized, EnableInterrupts, SpawnPend, CrossPendFails,
         Repend, Dispatch, Return, vars
<1>2. ASSUME NEW g \in Groups
      PROVE  /\ HandOf(dpc'[g], cur'[g]) = HandOf(dpc[g], cur[g])
             /\ CurrentOf(dpc'[g], cur'[g], arg'[g], inputs')
                  = CurrentOf(dpc[g], cur[g], arg[g], inputs)
  <2>1. \/ dpc'[g] = dpc[g]
        \/ /\ dpc[g] \in {"off", "return"} /\ dpc'[g] \in {"loop", "off"}
    BY DEF IInv, Types, Boot, SetInitialized, EnableInterrupts, SpawnPend,
           CrossPendFails, Repend, Dispatch, Return, vars
  <2>2. QED
    BY <1>1, <2>1 DEF HandOf, CurrentOf
<1>3. QED
  BY <1>1, <1>2, Unseen

LEMMA SpawnInputMaps ==
  ASSUME IInv, NEW c \in Cores, NEW t \in Spawnable, NEW v \in Values,
         SpawnInput(c, t, v)
  PROVE  UNCHANGED Abstract!vars
<1>1. /\ inputs' = [inputs EXCEPT ![t] = Append(@, v)]
      /\ UNCHANGED <<ready, dpc, cur, arg>>
  BY DEF SpawnInput
<1>2. /\ inputs \in [Spawnable -> Seq(Values)]
      /\ \A u \in Spawnable :
           inputs'[u] = IF u = t THEN Append(inputs[u], v) ELSE inputs[u]
  BY <1>1 DEF IInv, Types
<1>3. ASSUME NEW g \in Groups
      PROVE  BacklogOf(ready'[g], HandOf(dpc'[g], cur'[g]), inputs')
               = BacklogOf(ready[g], HandOf(dpc[g], cur[g]), inputs)
  <2>1. PICK q, hand, ins, new :
          /\ q = ready[g] /\ hand = HandOf(dpc[g], cur[g])
          /\ ins = inputs /\ new = inputs'
    OBVIOUS
  <2>2. Supplied(TasksOf(g), Values, q, hand, ins)
    BY <2>1, BacklogSupplied
  <2>3. Added(TasksOf(g), ins, t, v, new)
    BY <1>2, <2>1, GroupFacts DEF Added
  <2>4. BacklogOf(q, hand, new) = BacklogOf(q, hand, ins)
    BY <2>2, <2>3, BacklogNewInput
  <2>5. QED
    BY <1>1, <2>1, <2>4
<1>4. ASSUME NEW g \in Groups
      PROVE  CurrentOf(dpc'[g], cur'[g], arg'[g], inputs')
               = CurrentOf(dpc[g], cur[g], arg[g], inputs)
  <2>1. CASE dpc[g] = "take"
    <3>1. cur[g] \in Spawnable /\ inputs[cur[g]] # <<>>
      BY <2>1, GroupFacts, IInvInputs DEF IInv, Dispatching, InputIsThere
    <3>2. \A s \in Seq(Values) : s # <<>> => Head(Append(s, v)) = Head(s)
      OBVIOUS
    <3>3. Head(inputs'[cur[g]]) = Head(inputs[cur[g]])
      BY <1>2, <3>1, <3>2
    <3>4. QED
      BY <1>1, <2>1, <3>3 DEF CurrentOf
  <2>2. CASE dpc[g] # "take"
    BY <1>1, <2>2 DEF CurrentOf
  <2>3. QED
    BY <2>1, <2>2
<1>5. QED
  BY <1>3, <1>4, Unseen

(* How many of a task wait in the backlog.                                 *)
LEMMA WaitingIs ==
  ASSUME IInv, NEW t \in Spawnable
  PROVE  Abstract!Waiting(t) = Count(ready[Group(t)], t)
<1>1. PICK g, b, q : g = Group(t) /\ b = Backlog[g] /\ q = ready[g]
  OBVIOUS
<1>2. g \in Groups
  BY <1>1, GroupFacts
<1>3. PICK hand, ins : hand = HandOf(dpc[g], cur[g]) /\ ins = inputs
  OBVIOUS
<1>4. b = BacklogOf(q, hand, ins) /\ Len(b) = Len(q)
  <2>1. b = BacklogOf(q, hand, ins)
    BY <1>1, <1>2, <1>3, BacklogIs
  <2>2. q \in Seq(TasksOf(g))
    BY <1>1, <1>2, BacklogSupplied
  <2>3. Len(BacklogOf(q, hand, ins)) = Len(q)
    BY <2>2, BacklogLen
  <2>4. QED
    BY <2>1, <2>3
<1>5. \A i \in 1 .. Len(q) : b[i][1] = q[i]
  BY <1>4 DEF BacklogOf
<1>6. {i \in 1 .. Len(b) : b[i][1] = t} = Among(q, Len(q), t)
  BY <1>4, <1>5 DEF Among
<1>7. Abstract!Waiting(t)
        = Abstract!Cardinality({i \in 1 .. Len(b) : b[i][1] = t})
  BY <1>1 DEF Abstract!Waiting
<1>8. \A S : Abstract!Cardinality(S) = Cardinality(S)
  BY DEF Abstract!Cardinality, Cardinality
<1>9. QED
  BY <1>1, <1>6, <1>7, <1>8 DEF Count

LEMMA SpawnReadyMaps ==
  ASSUME IInv, NEW c \in Cores, SpawnReady(c)
  PROVE  Abstract!Next
<1>1. PICK t, g : t = cs[c].task /\ g = Group(t)
  OBVIOUS
<1>2. /\ cs[c].pc = "ready"
      /\ ready' = [ready EXCEPT
                     ![g] = EnqueueUnchecked(@, t, ReadyCapacity(g))]
      /\ UNCHANGED <<inputs, dpc, cur, arg>>
  BY <1>1 DEF SpawnReady
<1>3. /\ t \in Spawnable /\ g \in Groups /\ t \in TasksOf(g) /\ spawn_by[t] = c
      /\ Len(ready[g]) < ReadyCapacity(g)
  BY <1>1, <1>2, RoomForSpawn, GroupFacts DEF IInv, Spawning
<1>4. \A h \in Groups :
        ready'[h] = IF h = g THEN Append(ready[h], t) ELSE ready[h]
  BY <1>2, <1>3 DEF IInv, Types, EnqueueUnchecked
<1>5. PICK q, hand, ins :
        q = ready[g] /\ hand = HandOf(dpc[g], cur[g]) /\ ins = inputs
  OBVIOUS
<1>6. q \in Seq(TasksOf(g)) /\ Supplied(TasksOf(g), Values, q, hand, ins)
  BY <1>3, <1>5, BacklogSupplied
<1>7. PICK k : k = Count(q, t) + One(t \in hand) + 1
  OBVIOUS
<1>8. /\ Count(q, t) \in Nat /\ k = Len(ins[t]) /\ k \in 1 .. Len(ins[t])
      /\ Count(q, t) < Capacity[t]
  <2>1. InSpawn(t) /\ (Taken(t) <=> t \in hand)
    BY <1>1, <1>2, <1>3, <1>5 DEF InSpawn, Taken, HandOf
  <2>2. One(InSpawn(t)) = 1 /\ One(Taken(t)) = One(t \in hand)
        /\ One(t \in hand) \in Nat
    BY <2>1 DEF One
  <2>3. /\ Len(ins[t]) = Count(q, t) + One(Taken(t)) + One(InSpawn(t))
        /\ Len(ins[t]) <= Capacity[t]
    BY <1>1, <1>3, <1>5 DEF IInv, Balanced
  <2>4. Count(q, t) \in Nat
    BY <1>6, CountFacts
  <2>5. Capacity[t] \in Nat
    BY <1>3, SwAssumption
  <2>6. QED
    BY <1>7, <2>2, <2>3, <2>4, <2>5
<1>9. PICK v : v = ins[t][k]
  OBVIOUS
<1>10. v \in Values
  <2>1. ins[t] \in Seq(Values)
    BY <1>3, <1>6 DEF Supplied
  <2>2. QED
    BY <1>8, <1>9, <2>1, ElementOfSeq
<1>11. BacklogOf(Append(q, t), hand, ins)
         = Append(BacklogOf(q, hand, ins), <<t, v>>)
  <2>1. Count(q, t) + One(t \in hand) + 1 \in 1 .. Len(ins[t])
    BY <1>7, <1>8
  <2>2. BacklogOf(Append(q, t), hand, ins)
          = Append(BacklogOf(q, hand, ins),
                   <<t, ins[t][Count(q, t) + One(t \in hand) + 1]>>)
    BY <1>3, <1>6, <2>1, BacklogAppend
  <2>3. QED
    BY <1>7, <1>9, <2>2
<1>12. Backlog' = [Backlog EXCEPT ![g] = Append(@, <<t, v>>)]
  <2>1. ASSUME NEW h \in Groups
        PROVE  BacklogOf(ready'[h], HandOf(dpc'[h], cur'[h]), inputs')
                 = IF h = g THEN Append(Backlog[h], <<t, v>>) ELSE Backlog[h]
    <3>1. Backlog[h] = BacklogOf(ready[h], HandOf(dpc[h], cur[h]), inputs)
      BY BacklogIs
    <3>2. QED
      BY <1>2, <1>4, <1>5, <1>11, <3>1
  <2>2. Backlog' = [h \in Groups |->
                      IF h = g THEN Append(Backlog[h], <<t, v>>)
                      ELSE Backlog[h]]
    BY <2>1, BacklogIs
  <2>3. DOMAIN Backlog = Groups
    BY BacklogIs
  <2>4. QED
    BY <1>3, <2>2, <2>3
<1>13. Current' = Current
  BY <1>2, BacklogIs
<1>14. Abstract!Waiting(t) < Capacity[t]
  BY <1>1, <1>3, <1>5, <1>8, WaitingIs
<1>15. Abstract!Accept(t, v)
  BY <1>1, <1>3, <1>12, <1>13, <1>14 DEF Abstract!Accept
<1>16. QED
  BY <1>3, <1>10, <1>15 DEF Abstract!Next

LEMMA DequeueReadyMaps ==
  ASSUME IInv, NEW g \in Groups, DequeueReady(g)
  PROVE  Abstract!Next \/ UNCHANGED Abstract!vars
<1>1. dpc[g] = "loop" /\ UNCHANGED <<inputs, arg>>
  BY DEF DequeueReady
<1>2. /\ dpc \in [Groups -> {"off", "loop", "take", "exec", "return"}]
      /\ cur \in [Groups -> Spawnable \cup {Nothing}]
      /\ DOMAIN ready = Groups
      /\ \A h \in Groups : ready[h] \in Seq(TasksOf(h))
  BY DEF IInv, Types
<1>3. CASE ready[g] = <<>>
  <2>1. dpc' = [dpc EXCEPT ![g] = "return"] /\ UNCHANGED <<ready, cur>>
    BY <1>3 DEF DequeueReady
  <2>2. ASSUME NEW h \in Groups
        PROVE  /\ HandOf(dpc'[h], cur'[h]) = HandOf(dpc[h], cur[h])
               /\ CurrentOf(dpc'[h], cur'[h], arg'[h], inputs')
                    = CurrentOf(dpc[h], cur[h], arg[h], inputs)
    BY <1>1, <1>2, <2>1 DEF HandOf, CurrentOf
  <2>3. QED
    BY <1>1, <2>1, <2>2, Unseen
<1>4. CASE ready[g] # <<>>
  <2>1. PICK q, t : q = ready[g] /\ t = Head(q)
    OBVIOUS
  <2>2. /\ q \in Seq(TasksOf(g)) /\ q # <<>> /\ Len(q) # 0
        /\ t \in TasksOf(g) /\ t \in Spawnable /\ Group(t) = g
    BY <1>2, <1>4, <2>1, GroupFacts, HeadTailProperties, EmptySeq
  <2>3. /\ cur' = [cur EXCEPT ![g] = t]
        /\ dpc' = [dpc EXCEPT ![g] = "take"]
        /\ ready' = [ready EXCEPT ![g] = Tail(q)]
    BY <1>4, <2>1 DEF DequeueReady
  <2>4. HandOf(dpc[g], cur[g]) = {} /\ HandOf(dpc'[g], cur'[g]) = {t}
    BY <1>1, <1>2, <2>3 DEF HandOf
  <2>5. /\ BacklogOf(q, {}, inputs) # <<>>
        /\ Head(BacklogOf(q, {}, inputs)) = <<t, Head(inputs[t])>>
        /\ Tail(BacklogOf(q, {}, inputs)) = BacklogOf(Tail(q), {t}, inputs)
    <3>1. Supplied(TasksOf(g), Values, q, {}, inputs)
      BY <2>1, <2>4, BacklogSupplied
    <3>2. PICK hand, ins : hand = {} /\ ins = inputs
      OBVIOUS
    <3>3. Len(q) # 0 /\ hand = {} /\ Supplied(TasksOf(g), Values, q, hand, ins)
      BY <2>2, <3>1, <3>2
    <3>4. TakesOldest(q, hand, ins)
      BY <3>3, BacklogTake
    <3>5. QED
      BY <2>1, <3>2, <3>4 DEF TakesOldest
  <2>6. Backlog[g] = BacklogOf(q, {}, inputs)
    BY <2>1, <2>4, BacklogIs
  <2>7. Backlog' = [Backlog EXCEPT ![g] = Tail(@)]
    <3>1. ASSUME NEW h \in Groups
          PROVE  BacklogOf(ready'[h], HandOf(dpc'[h], cur'[h]), inputs')
                   = IF h = g THEN Tail(Backlog[h]) ELSE Backlog[h]
      <4>1. Backlog[h] = BacklogOf(ready[h], HandOf(dpc[h], cur[h]), inputs)
        BY BacklogIs
      <4>2. CASE h = g
        BY <1>1, <1>2, <2>3, <2>4, <2>5, <2>6, <4>2
      <4>3. CASE h # g
        BY <1>1, <1>2, <2>3, <4>1, <4>3
      <4>4. QED
        BY <4>2, <4>3
    <3>2. Backlog' = [h \in Groups |->
                        IF h = g THEN Tail(Backlog[h]) ELSE Backlog[h]]
      BY <3>1, BacklogIs
    <3>3. DOMAIN Backlog = Groups
      BY BacklogIs
    <3>4. QED
      BY <3>2, <3>3
  <2>8. Current' = [Current EXCEPT ![g] = Head(Backlog[g])]
    <3>1. ASSUME NEW h \in Groups
          PROVE  CurrentOf(dpc'[h], cur'[h], arg'[h], inputs')
                   = IF h = g THEN Head(Backlog[g]) ELSE Current[h]
      <4>1. Current[h] = CurrentOf(dpc[h], cur[h], arg[h], inputs)
        BY BacklogIs
      <4>2. CASE h = g
        BY <1>1, <1>2, <2>3, <2>5, <2>6, <4>2 DEF CurrentOf
      <4>3. CASE h # g
        BY <1>1, <1>2, <2>3, <4>1, <4>3
      <4>4. QED
        BY <4>2, <4>3
    <3>2. Current' = [h \in Groups |->
                        IF h = g THEN Head(Backlog[g]) ELSE Current[h]]
      BY <3>1, BacklogIs
    <3>3. DOMAIN Current = Groups
      BY BacklogIs
    <3>4. QED
      BY <3>2, <3>3
  <2>9. Current[g] = Nothing
    <3>1. Current[g] = CurrentOf(dpc[g], cur[g], arg[g], inputs)
      BY BacklogIs
    <3>2. QED
      BY <1>1, <3>1 DEF CurrentOf
  <2>10. Abstract!Start(g)
    BY <2>5, <2>6, <2>7, <2>8, <2>9 DEF Abstract!Start
  <2>11. QED
    BY <2>10 DEF Abstract!Next
<1>5. QED
  BY <1>3, <1>4

LEMMA DequeueInputMaps ==
  ASSUME IInv, NEW g \in Groups, DequeueInput(g)
  PROVE  UNCHANGED Abstract!vars
<1>1. PICK t : t = cur[g]
  OBVIOUS
<1>2. /\ dpc[g] = "take" /\ t \in TasksOf(g) /\ t \in Spawnable /\ Group(t) = g
      /\ inputs[t] # <<>>
  BY <1>1, GroupFacts, IInvInputs
     DEF IInv, Dispatching, DequeueInput, InputIsThere
<1>3. /\ arg' = [arg EXCEPT ![g] = Head(inputs[t])]
      /\ inputs' = [inputs EXCEPT ![t] = Tail(@)]
      /\ dpc' = [dpc EXCEPT ![g] = "exec"]
      /\ UNCHANGED <<ready, cur>>
  BY <1>1, <1>2 DEF DequeueInput
<1>4. /\ dpc \in [Groups -> {"off", "loop", "take", "exec", "return"}]
      /\ arg \in [Groups -> Values \cup {Nothing}]
      /\ inputs \in [Spawnable -> Seq(Values)]
  BY DEF IInv, Types
<1>5. \A u \in Spawnable :
        inputs'[u] = IF u = t THEN Tail(inputs[u]) ELSE inputs[u]
  BY <1>3, <1>4
<1>6. ASSUME NEW h \in Groups
      PROVE  BacklogOf(ready'[h], HandOf(dpc'[h], cur'[h]), inputs')
               = BacklogOf(ready[h], HandOf(dpc[h], cur[h]), inputs)
  <2>1. PICK q, ins, new : q = ready[h] /\ ins = inputs /\ new = inputs'
    OBVIOUS
  <2>2. /\ q \in Seq(TasksOf(h))
        /\ Supplied(TasksOf(h), Values, q, HandOf(dpc[h], cur[h]), ins)
    BY <2>1, BacklogSupplied
  <2>3. CASE h = g
    <3>1. HandOf(dpc[h], cur[h]) = {t} /\ HandOf(dpc'[h], cur'[h]) = {}
      BY <1>1, <1>2, <1>3, <1>4, <2>3 DEF HandOf
    <3>2. Removed(TasksOf(h), ins, t, new)
      BY <1>5, <2>1, GroupFacts DEF Removed
    <3>3. BacklogOf(q, {}, new) = BacklogOf(q, {t}, ins)
      BY <2>2, <3>1, <3>2, BacklogInput
    <3>4. QED
      BY <1>3, <2>1, <3>1, <3>3
  <2>4. CASE h # g
    <3>1. HandOf(dpc'[h], cur'[h]) = HandOf(dpc[h], cur[h])
      BY <1>3, <1>4, <2>4
    <3>2. ASSUME NEW i \in 1 .. Len(q)
          PROVE  new[q[i]] = ins[q[i]]
      <4>1. q[i] \in TasksOf(h)
        BY <2>2, ElementOfSeq
      <4>2. q[i] \in Spawnable /\ q[i] # t
        BY <1>2, <2>4, <4>1, GroupFacts
      <4>3. QED
        BY <1>5, <2>1, <4>2
    <3>3. \A hand : BacklogOf(q, hand, new) = BacklogOf(q, hand, ins)
      BY <3>2 DEF BacklogOf
    <3>4. QED
      BY <1>3, <2>1, <3>1, <3>3
  <2>5. QED
    BY <2>3, <2>4
<1>7. ASSUME NEW h \in Groups
      PROVE  CurrentOf(dpc'[h], cur'[h], arg'[h], inputs')
               = CurrentOf(dpc[h], cur[h], arg[h], inputs)
  <2>1. CASE h = g
    BY <1>1, <1>2, <1>3, <1>4, <2>1 DEF CurrentOf
  <2>2. CASE h # g
    <3>1. dpc'[h] = dpc[h] /\ cur'[h] = cur[h] /\ arg'[h] = arg[h]
      BY <1>3, <1>4, <2>2
    <3>2. dpc[h] = "take" => inputs'[cur[h]] = inputs[cur[h]]
      BY <1>2, <1>5, <2>2, GroupFacts DEF IInv, Dispatching
    <3>3. QED
      BY <3>1, <3>2 DEF CurrentOf
  <2>3. QED
    BY <2>1, <2>2
<1>8. QED
  BY <1>6, <1>7, Unseen

LEMMA ExecReturnsMaps ==
  ASSUME IInv, NEW g \in Groups, ExecReturns(g)
  PROVE  Abstract!Next
<1>1. /\ dpc[g] = "exec"
      /\ dpc' = [dpc EXCEPT ![g] = "loop"]
      /\ cur' = [cur EXCEPT ![g] = Nothing]
      /\ arg' = [arg EXCEPT ![g] = Nothing]
      /\ UNCHANGED <<inputs, ready>>
  BY DEF ExecReturns
<1>2. /\ dpc \in [Groups -> {"off", "loop", "take", "exec", "return"}]
      /\ cur \in [Groups -> Spawnable \cup {Nothing}]
      /\ arg \in [Groups -> Values \cup {Nothing}]
  BY DEF IInv, Types
<1>3. ASSUME NEW h \in Groups
      PROVE  /\ HandOf(dpc'[h], cur'[h]) = HandOf(dpc[h], cur[h])
             /\ CurrentOf(dpc'[h], cur'[h], arg'[h], inputs')
                  = IF h = g THEN Nothing
                    ELSE CurrentOf(dpc[h], cur[h], arg[h], inputs)
  <2>1. CASE h = g
    BY <1>1, <1>2, <2>1 DEF HandOf, CurrentOf
  <2>2. CASE h # g
    BY <1>1, <1>2, <2>2
  <2>3. QED
    BY <2>1, <2>2
<1>4. Backlog' = Backlog
  BY <1>1, <1>3, BacklogIs
<1>5. Current' = [Current EXCEPT ![g] = Nothing]
  <2>1. Current' = [h \in Groups |-> IF h = g THEN Nothing ELSE Current[h]]
    BY <1>3, BacklogIs
  <2>2. DOMAIN Current = Groups
    BY BacklogIs
  <2>3. QED
    BY <2>1, <2>2
<1>6. Current[g] # Nothing
  <2>1. Current[g] = <<cur[g], arg[g]>>
    <3>1. Current[g] = CurrentOf(dpc[g], cur[g], arg[g], inputs)
      BY BacklogIs
    <3>2. QED
      BY <1>1, <3>1 DEF CurrentOf
  <2>2. cur[g] \in Spawnable /\ arg[g] \in Values
    BY <1>1, GroupFacts DEF IInv, Dispatching
  <2>3. QED
    BY <2>1, <2>2, NothingIsNoSpawn
<1>7. Abstract!Finish(g)
  BY <1>4, <1>5, <1>6 DEF Abstract!Finish
<1>8. QED
  BY <1>7 DEF Abstract!Next

LEMMA InitMaps == Init => Abstract!Init
<1> SUFFICES ASSUME Init PROVE Abstract!Init
  OBVIOUS
<1>1. ASSUME NEW g \in Groups
      PROVE  /\ BacklogOf(ready[g], HandOf(dpc[g], cur[g]), inputs) = <<>>
             /\ CurrentOf(dpc[g], cur[g], arg[g], inputs) = Nothing
  <2>1. ready[g] = <<>> /\ dpc[g] = "off"
    BY DEF Init
  <2>2. Len(<<>>) = 0
    OBVIOUS
  <2>3. QED
    BY <2>1, <2>2 DEF BacklogOf, CurrentOf
<1>2. QED
  BY <1>1, BacklogIs DEF Abstract!Init

(* Each group executes its spawns one at a time, each with its own input,  *)
(* in the order in which they were accepted: the two queues that spawn     *)
(* fills and the dispatcher empties one after the other are one FIFO.      *)
THEOREM SpawnsInOrder ==
  ASSUME SpawnedAtHome
  PROVE  Spec => ImplementsSpawnOrder
<1>1. IInv /\ [Next]_vars => [Abstract!Next]_(Abstract!vars)
  <2> SUFFICES ASSUME IInv, [Next]_vars
               PROVE  Abstract!Next \/ UNCHANGED Abstract!vars
    OBVIOUS
  <2>1. ASSUME NEW c \in Cores, Boot(c) \/ SpawnPend(c) \/ CrossPendFails(c)
        PROVE  UNCHANGED Abstract!vars
    BY <2>1, QuietMaps
  <2>2. ASSUME NEW g \in Groups, Repend(g) \/ Dispatch(g) \/ Return(g)
        PROVE  UNCHANGED Abstract!vars
    BY <2>2, QuietMaps
  <2>3. CASE UNCHANGED vars
    BY <2>3, QuietMaps
  <2>4. CASE Next
    BY <2>1, <2>2, <2>4, SpawnInputMaps, SpawnReadyMaps, DequeueReadyMaps,
       DequeueInputMaps, ExecReturnsMaps DEF Next, EndSpawn, Dispatcher
  <2>5. QED
    BY <2>3, <2>4
<1>2. Spec => Abstract!Spec
  BY <1>1, InitMaps, IInvAlways, PTL DEF Spec, Abstract!Spec
<1>3. QED
  BY <1>2 DEF ImplementsSpawnOrder
=============================================================================
