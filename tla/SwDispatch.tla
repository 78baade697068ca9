----------------------------- MODULE SwDispatch -----------------------------
(***************************************************************************)
(* Software tasks: spawn and cross_spawn on one side, the dispatchers on   *)
(* the other (rticx-sw-pass: common/codegen.rs, codegen/mod.rs), on one or *)
(* more cores.  Between them, for every task an input queue and for every  *)
(* priority group of a core a ready queue, both rticx-spsc queues taken    *)
(* here as the FIFO that SpscQueue implements.                             *)
(*                                                                         *)
(* spawn runs in interrupt_free: on its own core nothing happens between   *)
(* its statements, on another core anything may.                           *)
(***************************************************************************)
EXTENDS Naturals, Sequences, FiniteSets

CONSTANTS
  Cores,
  Spawnable,   \* the software tasks
  Core,        \* `core = N` of each task
  Priority,    \* `priority = N` of each task
  Capacity,    \* `capacity = N` of each task
  Values,      \* spawn inputs
  Garbage,     \* what dequeue_unchecked returns from an empty queue
  Nothing,
  HasCoreId,   \* whether the backend has a `current_core_id`
  Calls,       \* <<c, t>>: the application calls t's spawn on core c
  PendMayFail  \* whether the backend's cross-core pend may fail

ASSUME SwAssumption ==
  /\ IsFiniteSet(Spawnable)
  /\ Core \in [Spawnable -> Cores]
  /\ Priority \in [Spawnable -> Nat]
  /\ Capacity \in [Spawnable -> Nat \ {0}]
  /\ Garbage \notin Values
  /\ HasCoreId \in BOOLEAN
  /\ Calls \subseteq Cores \X Spawnable
  /\ PendMayFail \in BOOLEAN

ASSUME NothingIsNoSpawn == Nothing \notin Spawnable \X Values

VARIABLES
  spawn_by,  \* `spawn_by = N` of each task, fixed by the application
  system_initialized,  \* the flag, one static for all cores
  phase,     \* core -> "init", "flagged" (flag set) or "on" (interrupts on)
  inputs,    \* task -> its input queue
  ready,     \* group -> its ready queue
  irq,       \* group -> the dispatcher's interrupt is pending
  unpended,  \* group -> the last pend failed: Err(None)
  cs,        \* core -> where its spawn is: [pc, task]
  dpc,       \* group -> "off", "loop", "take" (task known), "exec", "return"
  cur,       \* group -> the task matched on
  arg        \* group -> its input

vars == <<spawn_by, system_initialized, phase, inputs, ready, irq, unpended,
          cs, dpc, cur, arg>>

-----------------------------------------------------------------------------
(* Analysis.                                                               *)

(* group_by_priority, per core.                                            *)
Group(t) == <<Core[t], Priority[t]>>
Groups == {Group(t) : t \in Spawnable}
TasksOf(g) == {t \in Spawnable : Group(t) = g}

Cross(t) == spawn_by[t] # Core[t]

(* Without a core id run_pass refuses cross-core tasks, but no others.     *)
check_current_core_id == HasCoreId \/ \A t \in Spawnable : ~ Cross(t)

check_disjoint_priorities ==
  \A t, u \in Spawnable : Group(t) = Group(u) => (Cross(t) <=> Cross(u))

(* Mutant: the check is left out.                                          *)
NoUniformCheck == TRUE

check_uniform_spawn_by ==
  \A t, u \in Spawnable :
    Group(t) = Group(u) /\ Cross(t) /\ Cross(u) => spawn_by[t] = spawn_by[u]

(* Mutant: one slot per task, whatever its capacity.                       *)
ReadySlotPerTask(g) == Cardinality(TasksOf(g))

(* How many the ready queue holds, the sum of the capacities: a place for  *)
(* each spawn that may be accepted.  Its size is one more.                 *)
ReadyPlaces(g) == UNION {{t} \X (1 .. Capacity[t]) : t \in TasksOf(g)}
ReadyCapacity(g) == Cardinality(ReadyPlaces(g))

-----------------------------------------------------------------------------
Out == [pc |-> "out", task |-> Nothing]

TypeOK ==
  /\ spawn_by \in [Spawnable -> Cores]
  /\ system_initialized \in BOOLEAN
  /\ phase \in [Cores -> {"init", "flagged", "on"}]
  /\ \A t \in Spawnable :
       /\ inputs[t] \in Seq(Values)
       /\ Len(inputs[t]) <= Capacity[t]
  /\ \A g \in Groups : ready[g] \in Seq(TasksOf(g))
  /\ irq \in [Groups -> BOOLEAN] /\ unpended \in [Groups -> BOOLEAN]
  /\ cs \in [Cores -> [pc : {"out", "ready", "pend"}, task : Spawnable \cup {Nothing}]]
  /\ dpc \in [Groups -> {"off", "loop", "take", "exec", "return"}]
  /\ cur \in [Groups -> Spawnable \cup {Nothing}]
  /\ arg \in [Groups -> Values \cup {Nothing}]

(* An application the pass accepts.                                        *)
Init ==
  /\ spawn_by \in [Spawnable -> Cores]
  /\ check_current_core_id
  /\ check_disjoint_priorities
  /\ check_uniform_spawn_by
  /\ system_initialized = FALSE
  /\ phase = [c \in Cores |-> "init"]
  /\ inputs = [t \in Spawnable |-> <<>>]
  /\ ready = [g \in Groups |-> <<>>]
  /\ irq = [g \in Groups |-> FALSE]
  /\ unpended = [g \in Groups |-> FALSE]
  /\ cs = [c \in Cores |-> Out]
  /\ dpc = [g \in Groups |-> "off"]
  /\ cur = [g \in Groups |-> Nothing]
  /\ arg = [g \in Groups |-> Nothing]

-----------------------------------------------------------------------------
(* The entry function of a core: the injection before post_init sets the   *)
(* flag, the end of the interrupt-free block turns interrupts on.          *)
SetInitialized(c) ==
  /\ phase[c] = "init"
  /\ cs[c] = Out
  /\ system_initialized' = TRUE
  /\ phase' = [phase EXCEPT ![c] = "flagged"]
  /\ UNCHANGED <<spawn_by, inputs, ready, irq, unpended, cs, dpc, cur, arg>>

EnableInterrupts(c) ==
  /\ phase[c] = "flagged"
  /\ phase' = [phase EXCEPT ![c] = "on"]
  /\ UNCHANGED <<spawn_by, system_initialized, inputs, ready, irq, unpended,
                 cs, dpc, cur, arg>>

-----------------------------------------------------------------------------
(* spawn and cross_spawn, called by any code of core c.                    *)

(* Mutant: the input queue is not asked.                                   *)
RefusedUnlessFull(c, t) ==
  \/ HasCoreId /\ c # spawn_by[t]
  \/ ~ system_initialized

(* The core check, the flag and the input queue refuse a spawn with        *)
(* Err(input) and change nothing.  The core check is generated only from a *)
(* core id; without one, any core that calls spawn goes ahead.             *)
Refused(c, t) ==
  \/ HasCoreId /\ c # spawn_by[t]
  \/ ~ system_initialized
  \/ Len(inputs[t]) = Capacity[t]

SpawnInput(c, t, v) ==
  /\ <<c, t>> \in Calls
  /\ phase[c] # "flagged"
  /\ cs[c] = Out
  /\ ~ Refused(c, t)
  /\ inputs' = [inputs EXCEPT ![t] = Append(@, v)]
  /\ cs' = [cs EXCEPT ![c] = [pc |-> "ready", task |-> t]]
  /\ UNCHANGED <<spawn_by, system_initialized, phase, ready, irq, unpended,
                 dpc, cur, arg>>

(* Mutant: the newest spawn is put first.                                  *)
EnqueueInFront(queue, x, capacity) == <<x>> \o queue

(* enqueue_unchecked: on a full ring the indices meet, and it looks empty. *)
EnqueueUnchecked(queue, x, capacity) ==
  IF Len(queue) < capacity THEN Append(queue, x) ELSE <<>>

SpawnReady(c) ==
  /\ cs[c].pc = "ready"
  /\ LET t == cs[c].task
         g == Group(t)
     IN  ready' = [ready EXCEPT ![g] = EnqueueUnchecked(@, t, ReadyCapacity(g))]
  /\ cs' = [cs EXCEPT ![c].pc = "pend"]
  /\ UNCHANGED <<spawn_by, system_initialized, phase, inputs, irq, unpended,
                 dpc, cur, arg>>

(* Mutant: no pend while the dispatcher is active, it is draining anyway.  *)
PendUnlessActive(c) ==
  /\ cs[c].pc = "pend"
  /\ LET g == Group(cs[c].task) IN
       /\ irq' = [irq EXCEPT ![g] = @ \/ dpc[g] = "off"]
       /\ unpended' = [unpended EXCEPT ![g] = FALSE]
  /\ cs' = [cs EXCEPT ![c] = Out]
  /\ UNCHANGED <<spawn_by, system_initialized, phase, inputs, ready, dpc, cur, arg>>

(* Ok(()).  The local pend writes the NVIC of the calling core: on another *)
(* core than the task's it does not reach the dispatcher.                  *)
SpawnPend(c) ==
  /\ cs[c].pc = "pend"
  /\ LET t == cs[c].task
     IN  irq' = [irq EXCEPT ![Group(t)] = @ \/ Cross(t) \/ c = Core[t]]
  /\ unpended' = [unpended EXCEPT ![Group(cs[c].task)] = FALSE]
  /\ cs' = [cs EXCEPT ![c] = Out]
  /\ UNCHANGED <<spawn_by, system_initialized, phase, inputs, ready, dpc, cur, arg>>

(* Mutant: the input is taken back when the pend fails.                    *)
FailedPendTakesBack(c) ==
  /\ PendMayFail
  /\ cs[c].pc = "pend"
  /\ Cross(cs[c].task)
  /\ inputs[cs[c].task] # <<>>
  /\ inputs' = [inputs EXCEPT ![cs[c].task] = SubSeq(@, 1, Len(@) - 1)]
  /\ unpended' = [unpended EXCEPT ![Group(cs[c].task)] = TRUE]
  /\ cs' = [cs EXCEPT ![c] = Out]
  /\ UNCHANGED <<spawn_by, system_initialized, phase, ready, irq, dpc, cur, arg>>

(* Err(None): the input stays queued.                                      *)
CrossPendFails(c) ==
  /\ PendMayFail
  /\ cs[c].pc = "pend"
  /\ Cross(cs[c].task)
  /\ unpended' = [unpended EXCEPT ![Group(cs[c].task)] = TRUE]
  /\ cs' = [cs EXCEPT ![c] = Out]
  /\ UNCHANGED <<spawn_by, system_initialized, phase, inputs, ready, irq, dpc, cur, arg>>

(* After Err(None) the application "repends it manually" (external: the    *)
(* doc comment of cross_spawn leaves it to the caller).                    *)
Repend(g) ==
  /\ unpended[g]
  /\ irq' = [irq EXCEPT ![g] = TRUE]
  /\ unpended' = [unpended EXCEPT ![g] = FALSE]
  /\ UNCHANGED <<spawn_by, system_initialized, phase, inputs, ready, cs, dpc, cur, arg>>

-----------------------------------------------------------------------------
(* The dispatcher of a group, an interrupt of the group's priority.        *)

CoreOf(g) == g[1]
Above(g) == {h \in Groups : CoreOf(h) = CoreOf(g) /\ h[2] > g[2]}

Runs(g) ==
  /\ cs[CoreOf(g)] = Out
  /\ \A h \in Above(g) : dpc[h] = "off"

(* The handler is entered; a second pend while it runs is remembered.      *)
Dispatch(g) ==
  /\ irq[g]
  /\ phase[CoreOf(g)] = "on"
  /\ Runs(g)
  /\ dpc[g] = "off"
  /\ irq' = [irq EXCEPT ![g] = FALSE]
  /\ dpc' = [dpc EXCEPT ![g] = "loop"]
  /\ UNCHANGED <<spawn_by, system_initialized, phase, inputs, ready, unpended,
                 cs, cur, arg>>

(* while let Some(task) = ready_consumer.dequeue()                         *)
DequeueReady(g) ==
  /\ dpc[g] = "loop"
  /\ Runs(g)
  /\ IF ready[g] = <<>>
     THEN dpc' = [dpc EXCEPT ![g] = "return"] /\ UNCHANGED <<ready, cur>>
     ELSE /\ cur' = [cur EXCEPT ![g] = Head(ready[g])]
          /\ ready' = [ready EXCEPT ![g] = Tail(@)]
          /\ dpc' = [dpc EXCEPT ![g] = "take"]
  /\ UNCHANGED <<spawn_by, system_initialized, phase, inputs, irq, unpended, cs, arg>>

(* input_consumer.dequeue_unchecked(): on an empty ring read_idx passes    *)
(* write_idx, and it looks full.                                           *)
DequeueInput(g) ==
  /\ dpc[g] = "take"
  /\ Runs(g)
  /\ LET t == cur[g] IN
       IF inputs[t] # <<>>
       THEN /\ arg' = [arg EXCEPT ![g] = Head(inputs[t])]
            /\ inputs' = [inputs EXCEPT ![t] = Tail(@)]
       ELSE /\ arg' = [arg EXCEPT ![g] = Garbage]
            /\ inputs' = [inputs EXCEPT ![t] = [i \in 1 .. Capacity[t] |-> Garbage]]
  /\ dpc' = [dpc EXCEPT ![g] = "exec"]
  /\ UNCHANGED <<spawn_by, system_initialized, phase, ready, irq, unpended, cs, cur>>

(* exec(input) returns; meanwhile it, like any code, may have spawned.     *)
ExecReturns(g) ==
  /\ dpc[g] = "exec"
  /\ Runs(g)
  /\ dpc' = [dpc EXCEPT ![g] = "loop"]
  /\ cur' = [cur EXCEPT ![g] = Nothing]
  /\ arg' = [arg EXCEPT ![g] = Nothing]
  /\ UNCHANGED <<spawn_by, system_initialized, phase, inputs, ready, irq, unpended, cs>>

(* The loop has ended and the handler returns.                             *)
Return(g) ==
  /\ dpc[g] = "return"
  /\ Runs(g)
  /\ dpc' = [dpc EXCEPT ![g] = "off"]
  /\ UNCHANGED <<spawn_by, system_initialized, phase, inputs, ready, irq, unpended,
                 cs, cur, arg>>

-----------------------------------------------------------------------------
Boot(c) == SetInitialized(c) \/ EnableInterrupts(c)
EndSpawn(c) == SpawnReady(c) \/ SpawnPend(c) \/ CrossPendFails(c)
Dispatcher(g) ==
  Dispatch(g) \/ DequeueReady(g) \/ DequeueInput(g) \/ ExecReturns(g) \/ Return(g)

Next ==
  \/ \E c \in Cores : \/ Boot(c) \/ EndSpawn(c)
                      \/ \E t \in Spawnable, v \in Values : SpawnInput(c, t, v)
  \/ \E g \in Groups : Repend(g) \/ Dispatcher(g)

(* Every core boots and leaves its critical sections; a dispatcher is not  *)
(* kept out forever by the critical sections of its core, and exec         *)
(* returns; a caller that was told Err(None) repends.                      *)
Fairness ==
  /\ \A c \in Cores : WF_vars(Boot(c)) /\ WF_vars(EndSpawn(c))
  /\ \A g \in Groups : WF_vars(Repend(g)) /\ SF_vars(Dispatcher(g))

Spec == Init /\ [][Next]_vars
FairSpec == Spec /\ Fairness

-----------------------------------------------------------------------------
(* The Safety contract of enqueue_unchecked, as the comment at             *)
(* codegen/mod.rs:174-177 argues: the ready queue always has room for the  *)
(* task whose input was accepted, whoever else spawned in the same group.  *)
ReadyHasRoom ==
  \A c \in Cores : cs[c].pc = "ready" =>
    Len(ready[Group(cs[c].task)]) < ReadyCapacity(Group(cs[c].task))

(* The Safety contract of dequeue_unchecked: a dispatcher that took a task *)
(* off the ready queue finds an input for it, also when it overtakes the   *)
(* spawn on another core.                                                  *)
InputIsThere ==
  \A g \in Groups : dpc[g] = "take" => inputs[cur[g]] # <<>>

(* What is left to the application where no core check is generated: to    *)
(* call spawn on the task's own core only.                                 *)
SpawnedAtHome == HasCoreId \/ \A call \in Calls : call[1] = Core[call[2]]

(* The single-producer contract of the queues: two cores are never inside  *)
(* spawns of tasks that share a ready queue.  It takes SpawnedAtHome: the  *)
(* core check where there is one, and the application where there is none. *)
SingleProducer ==
  \A c, d \in Cores :
    c # d /\ cs[c] # Out /\ cs[d] # Out => Group(cs[c].task) # Group(cs[d].task)

(* No lost wakeup: while something is ready, the dispatcher will look      *)
(* again, or its interrupt is pending or about to be pended, or the spawner *)
(* was told Err(None).                                                     *)
NoLostWakeup ==
  \A g \in Groups : ready[g] # <<>> =>
    \/ dpc[g] \in {"loop", "take", "exec"}
    \/ irq[g]
    \/ \E c \in Cores : cs[c].pc = "pend" /\ Group(cs[c].task) = g
    \/ unpended[g]

(* A spawn accepted for the most urgent group of a core is executed,       *)
(* however the cores interleave, also after pends that failed and were     *)
(* made up for.                                                            *)
Served ==
  \A t \in Spawnable : Above(Group(t)) = {} =>
    (inputs[t] # <<>> ~> dpc[Group(t)] = "exec" /\ cur[Group(t)] = t)

(* The two queues together are one FIFO of spawns per group: the i-th task *)
(* of the ready queue will be given the input it was spawned with, in the  *)
(* order of the spawns.                                                    *)
Backlog == [g \in Groups |-> [i \in 1 .. Len(ready[g]) |->
  LET t == ready[g][i]
      earlier == Cardinality({j \in 1 .. i - 1 : ready[g][j] = t})
                 + IF dpc[g] = "take" /\ cur[g] = t THEN 1 ELSE 0
  IN  <<t, inputs[t][earlier + 1]>>]]

Current == [g \in Groups |->
  CASE dpc[g] = "take" -> <<cur[g], Head(inputs[cur[g]])>>
    [] dpc[g] = "exec" -> <<cur[g], arg[g]>>
    [] OTHER -> Nothing]

Abstract == INSTANCE SpawnOrder WITH
  GroupOf <- [t \in Spawnable |-> Group(t)], backlog <- Backlog, current <- Current

ImplementsSpawnOrder == Abstract!Spec
=============================================================================
