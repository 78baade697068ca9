---------------------------- MODULE AsyncExecutor ----------------------------
(***************************************************************************)
(* The executor of one priority group of async tasks (rticx-async-pass:    *)
(* codegen/mod.rs; rticx-async: executor.rs): a dispatcher interrupt, or,  *)
(* for priority 0, the generated idle task.  It installs spawned futures   *)
(* into one ExecSlot per task, defers the spawns of a task that is still   *)
(* running to an overflow queue, and polls the futures that were woken.    *)
(* Spawners and wakers run concurrently with it, the ones on its own core  *)
(* by preempting it or being preempted by it.  The state begins after the  *)
(* slots are allocated and the initialised flag is set.  All spawns come   *)
(* from one core, the one that the core check lets through; without a core *)
(* id there is no check and the application must keep to one (as           *)
(* SwDispatch!SpawnedAtHome says).  The slots, locals of an entry function *)
(* that does not return, are taken to live forever.                        *)
(***************************************************************************)
EXTENDS Naturals, Sequences, FiniteSets

CONSTANTS
  Tasks,         \* the async tasks of the group
  Order,         \* the same tasks in declaration order
  Capacity,      \* `capacity = N` of each task
  Values,        \* spawn inputs
  SpawnInputs,   \* the ones of the input type of each task
  Garbage,       \* what dequeue_unchecked returns from an empty queue
  Nothing,
  PendMayFail    \* whether the backend's cross-core pend may fail

ASSUME AsyncAssumption ==
  /\ Order \in Seq(Tasks)
  /\ \A t \in Tasks : \E i \in 1 .. Len(Order) : Order[i] = t
  /\ Len(Order) = Cardinality(Tasks)
  /\ Capacity \in [Tasks -> Nat \ {0}]
  /\ SpawnInputs \in [Tasks -> SUBSET Values]
  /\ Garbage \notin Values
  /\ Nothing \notin Values \cup Tasks \cup (Tasks \X Values)
  /\ PendMayFail \in BOOLEAN

VARIABLES
  kind,       \* of the group, fixed by the application: "idle" for priority
              \* 0, "cross" when another core spawns its tasks, or "local";
              \* analyse_subapp refuses a priority 0 that is spawned across
  inputs,     \* task -> its input queue
  ready,      \* the ready queue
  overflow,   \* the overflow queue
  running,    \* ExecSlot.running of each task
  pending,    \* ExecSlot.pending of each task
  future,     \* ExecSlot.future: the input it was made from, or Nothing
  irq,        \* the dispatcher's interrupt is pending
  unpended,   \* the last cross-core pend failed
  dpc,        \* where the executor is
  hand,       \* the task it took from the ready queue
  cursor,     \* the task it polls, an index of Order
  deferred,   \* its local array, what is left of it
  installed,  \* its local flag
  spawning,   \* where the spawner is: [pc, task]
  wakers,     \* tasks whose waker somebody holds
  waking      \* tasks whose wake function has set pending and not pended yet

IdleExecutor == kind = "idle"
Cross == kind = "cross"

exec == <<dpc, hand, cursor, deferred, installed>>
slots == <<running, pending, future>>
vars == <<kind, inputs, ready, overflow, slots, irq, unpended, exec, spawning,
          wakers, waking>>

Out == [pc |-> "out", task |-> Nothing]

(* Mutant: one slot per task, whatever its capacity.                       *)
SlotPerTask == Cardinality(Tasks)

(* The sum of the capacities: what the ready queue and the overflow queue  *)
(* hold each.                                                              *)
QueuePlaces == UNION {{t} \X (1 .. Capacity[t]) : t \in Tasks}
sum_capacity == Cardinality(QueuePlaces)

TypeOK ==
  /\ kind \in {"idle", "local", "cross"}
  /\ \A t \in Tasks : inputs[t] \in Seq(Values) /\ Len(inputs[t]) <= Capacity[t]
  /\ ready \in Seq(Tasks) /\ overflow \in Seq(Tasks) /\ deferred \in Seq(Tasks)
  /\ running \in [Tasks -> BOOLEAN] /\ pending \in [Tasks -> BOOLEAN]
  /\ future \in [Tasks -> Values \cup {Nothing}]
  /\ irq \in BOOLEAN /\ unpended \in BOOLEAN /\ installed \in BOOLEAN
  /\ dpc \in {"off", "drain", "install", "poll", "polling", "reinstall"}
  /\ hand \in Tasks \cup {Nothing}
  /\ cursor \in 1 .. Len(Order) + 1
  /\ spawning \in [pc : {"out", "ready", "pend"}, task : Tasks \cup {Nothing}]
  /\ wakers \subseteq Tasks /\ waking \subseteq Tasks

Init ==
  /\ kind \in {"idle", "local", "cross"}
  /\ inputs = [t \in Tasks |-> <<>>]
  /\ ready = <<>> /\ overflow = <<>>
  /\ running = [t \in Tasks |-> FALSE]
  /\ pending = [t \in Tasks |-> FALSE]
  /\ future = [t \in Tasks |-> Nothing]
  /\ irq = FALSE /\ unpended = FALSE
  /\ dpc = IF IdleExecutor THEN "drain" ELSE "off"
  /\ hand = Nothing /\ cursor = 1 /\ deferred = <<>> /\ installed = FALSE
  /\ spawning = Out
  /\ wakers = {} /\ waking = {}

(* enqueue_unchecked: on a full ring the indices meet, and it looks empty. *)
EnqueueUnchecked(queue, x) ==
  IF Len(queue) < sum_capacity THEN Append(queue, x) ELSE <<>>

-----------------------------------------------------------------------------
(* spawn and cross_spawn.                                                  *)

(* Mutant: the input queue is not asked.                                   *)
NeverRefused(t) == FALSE

Refused(t) == Len(inputs[t]) = Capacity[t]

SpawnInput(t, v) ==
  /\ spawning = Out
  /\ ~ Refused(t)
  /\ inputs' = [inputs EXCEPT ![t] = Append(@, v)]
  /\ spawning' = [pc |-> "ready", task |-> t]
  /\ UNCHANGED <<kind, ready, overflow, slots, irq, unpended, exec, wakers,
                 waking>>

SpawnReady ==
  /\ spawning.pc = "ready"
  /\ ready' = EnqueueUnchecked(ready, spawning.task)
  /\ spawning' = [spawning EXCEPT !.pc = "pend"]
  /\ UNCHANGED <<kind, inputs, overflow, slots, irq, unpended, exec, wakers,
                 waking>>

(* The idle executor polls all the time: pend_stmt is None for it.         *)
SpawnPend ==
  /\ spawning.pc = "pend"
  /\ irq' = ~ IdleExecutor
  /\ unpended' = FALSE
  /\ spawning' = Out
  /\ UNCHANGED <<kind, inputs, ready, overflow, slots, exec, wakers, waking>>

(* Err(None)                                                               *)
CrossPendFails ==
  /\ Cross /\ PendMayFail
  /\ spawning.pc = "pend"
  /\ unpended' = TRUE
  /\ spawning' = Out
  /\ UNCHANGED <<kind, inputs, ready, overflow, slots, irq, exec, wakers,
                 waking>>

(* After Err(None) the application "repends it manually" (external).       *)
Repend ==
  /\ unpended
  /\ irq' = TRUE /\ unpended' = FALSE
  /\ UNCHANGED <<kind, inputs, ready, overflow, slots, exec, spawning, wakers,
                 waking>>

-----------------------------------------------------------------------------
(* The generated wake function, called by whoever holds the waker: the     *)
(* future itself while it is polled (yield_now), an interrupt, another     *)
(* core; perhaps long after the future completed, and as often as the      *)
(* holder likes, since a waker can be cloned.                              *)
WakeSetPending(t) ==
  /\ t \in wakers
  /\ t \notin waking
  /\ pending' = [pending EXCEPT ![t] = TRUE]
  /\ wakers' \in {wakers, wakers \ {t}}
  /\ waking' = IF IdleExecutor THEN waking ELSE waking \cup {t}
  /\ UNCHANGED <<kind, inputs, ready, overflow, running, future, irq, unpended,
                 exec, spawning>>

WakePend(t) ==
  /\ t \in waking
  /\ irq' = TRUE
  /\ waking' = waking \ {t}
  /\ UNCHANGED <<kind, inputs, ready, overflow, slots, unpended, exec,
                 spawning, wakers>>

-----------------------------------------------------------------------------
(* The executor.  A spawn of its own core is a critical section to it.     *)
Runs == Cross \/ spawning = Out

Dispatch ==
  /\ dpc = "off" /\ irq /\ Runs
  /\ irq' = FALSE
  /\ dpc' = "drain"
  /\ UNCHANGED <<kind, inputs, ready, overflow, slots, unpended, hand, cursor,
                 deferred, installed, spawning, wakers, waking>>

(* Phase A: while let Some(task) = ready_consumer.dequeue()                *)
DrainReady ==
  /\ dpc = "drain" /\ Runs
  /\ IF ready = <<>>
     THEN dpc' = "poll" /\ cursor' = 1 /\ UNCHANGED <<ready, hand>>
     ELSE /\ hand' = Head(ready) /\ ready' = Tail(ready)
          /\ dpc' = "install" /\ UNCHANGED cursor
  /\ UNCHANGED <<kind, inputs, overflow, slots, irq, unpended, deferred,
                 installed, spawning, wakers, waking>>

(* Mutant: the slot is taken although its future is running.               *)
AllocateAlways(t) == TRUE

try_allocate(t) == ~ running[t]

(* The install function: allocate the slot, take the input, make the       *)
(* future, set pending; or defer the task.  dequeue_unchecked on an empty  *)
(* ring returns garbage, and the ring looks full.                          *)
install(t) ==
  IF try_allocate(t)
  THEN /\ running' = [running EXCEPT ![t] = TRUE]
       /\ pending' = [pending EXCEPT ![t] = TRUE]
       /\ IF inputs[t] # <<>>
          THEN /\ future' = [future EXCEPT ![t] = Head(inputs[t])]
               /\ inputs' = [inputs EXCEPT ![t] = Tail(@)]
          ELSE /\ future' = [future EXCEPT ![t] = Garbage]
               /\ inputs' = [inputs EXCEPT ![t] = [i \in 1 .. Capacity[t] |-> Garbage]]
       /\ UNCHANGED overflow
  ELSE /\ overflow' = EnqueueUnchecked(overflow, t)
       /\ UNCHANGED <<inputs, slots>>

(* Mutant: the input is taken before the slot is asked.                    *)
InstallTakesFirst ==
  /\ dpc = "install" /\ Runs
  /\ IF running[hand] /\ inputs[hand] # <<>>
     THEN /\ inputs' = [inputs EXCEPT ![hand] = Tail(@)]
          /\ overflow' = EnqueueUnchecked(overflow, hand)
          /\ UNCHANGED slots
     ELSE install(hand)
  /\ dpc' = "drain" /\ hand' = Nothing
  /\ UNCHANGED <<kind, ready, irq, unpended, cursor, deferred, installed,
                 spawning, wakers, waking>>

Install ==
  /\ dpc = "install" /\ Runs
  /\ install(hand)
  /\ dpc' = "drain" /\ hand' = Nothing
  /\ UNCHANGED <<kind, ready, irq, unpended, cursor, deferred, installed,
                 spawning, wakers, waking>>

(* ExecSlot::poll: not running or not pending, nothing is done; otherwise  *)
(* pending is cleared before the future is polled with a new waker.        *)
PollStart ==
  /\ dpc = "poll" /\ Runs
  /\ cursor <= Len(Order)
  /\ LET t == Order[cursor] IN
       IF running[t] /\ pending[t]
       THEN /\ pending' = [pending EXCEPT ![t] = FALSE]
            /\ wakers' = wakers \cup {t}
            /\ dpc' = "polling" /\ UNCHANGED cursor
       ELSE cursor' = cursor + 1 /\ UNCHANGED <<pending, wakers, dpc>>
  /\ UNCHANGED <<kind, inputs, ready, overflow, running, future, irq, unpended,
                 hand, deferred, installed, spawning, waking>>

(* Poll::Ready: the future is dropped and the slot is free.                *)
PollReady ==
  /\ dpc = "polling" /\ Runs
  /\ running' = [running EXCEPT ![Order[cursor]] = FALSE]
  /\ future' = [future EXCEPT ![Order[cursor]] = Nothing]
  /\ dpc' = "poll" /\ cursor' = cursor + 1
  /\ UNCHANGED <<kind, inputs, ready, overflow, pending, irq, unpended, hand,
                 deferred, installed, spawning, wakers, waking>>

(* Mutant: pending is cleared after the poll.                              *)
PollPendingClears ==
  /\ dpc = "polling" /\ Runs
  /\ pending' = [pending EXCEPT ![Order[cursor]] = FALSE]
  /\ dpc' = "poll" /\ cursor' = cursor + 1
  /\ UNCHANGED <<kind, inputs, ready, overflow, running, future, irq, unpended,
                 hand, deferred, installed, spawning, wakers, waking>>

PollPending ==
  /\ dpc = "polling" /\ Runs
  /\ dpc' = "poll" /\ cursor' = cursor + 1
  /\ UNCHANGED <<kind, inputs, ready, overflow, slots, irq, unpended, hand,
                 deferred, installed, spawning, wakers, waking>>

(* Mutant: phase B is left to the next time.                               *)
SkipsPhaseB ==
  /\ dpc = "poll" /\ Runs
  /\ cursor > Len(Order)
  /\ dpc' = "reinstall" /\ installed' = FALSE
  /\ UNCHANGED <<kind, inputs, ready, overflow, deferred, slots, irq, unpended,
                 hand, cursor, spawning, wakers, waking>>

(* Phase B: what was deferred is taken out of the overflow queue ...       *)
CollectDeferred ==
  /\ dpc = "poll" /\ Runs
  /\ cursor > Len(Order)
  /\ deferred' = overflow /\ overflow' = <<>>
  /\ dpc' = "reinstall" /\ installed' = FALSE
  /\ UNCHANGED <<kind, inputs, ready, slots, irq, unpended, hand, cursor,
                 spawning, wakers, waking>>

(* ... and installed, or deferred again.                                   *)
Reinstall ==
  /\ dpc = "reinstall" /\ Runs
  /\ deferred # <<>>
  /\ installed' = (installed \/ try_allocate(Head(deferred)))
  /\ install(Head(deferred))
  /\ deferred' = Tail(deferred)
  /\ UNCHANGED <<kind, ready, irq, unpended, dpc, hand, cursor, spawning,
                 wakers, waking>>

(* Mutant: what was installed waits for the next interrupt.                *)
NoRunAgain == FALSE

(* "Newly installed futures must be polled: run again."                    *)
RunAgain == installed

Finish ==
  /\ dpc = "reinstall" /\ Runs
  /\ deferred = <<>>
  /\ IF IdleExecutor
     THEN dpc' = "drain" /\ UNCHANGED irq
     ELSE dpc' = "off" /\ irq' = (irq \/ RunAgain)
  /\ installed' = FALSE
  /\ UNCHANGED <<kind, inputs, ready, overflow, slots, unpended, hand, cursor,
                 deferred, spawning, wakers, waking>>

-----------------------------------------------------------------------------
Execute ==
  \/ Dispatch \/ DrainReady \/ Install
  \/ PollStart \/ PollReady \/ PollPending
  \/ CollectDeferred \/ Reinstall \/ Finish

Next ==
  \/ \E t \in Tasks : \/ \E v \in SpawnInputs[t] : SpawnInput(t, v)
                      \/ WakeSetPending(t) \/ WakePend(t)
  \/ SpawnReady \/ SpawnPend \/ CrossPendFails \/ Repend
  \/ Execute

(* Spawns and wakes run to their end.  The executor is not kept out        *)
(* forever by the critical sections of its core.  A future that waits is   *)
(* woken, and one that is polled again and again completes.                *)
Fairness ==
  /\ WF_vars(SpawnReady) /\ WF_vars(SpawnPend)
  /\ \A t \in Tasks :
       /\ WF_vars(WakeSetPending(t)) /\ WF_vars(WakePend(t))
       /\ SF_vars(PollReady /\ Order[cursor] = t)
  /\ SF_vars(Execute)

Spec == Init /\ [][Next]_vars
FairSpec == Spec /\ Fairness

-----------------------------------------------------------------------------
(* Whom the executor is about to install.                                  *)
Installing(t) ==
  \/ dpc = "install" /\ hand = t
  \/ dpc = "reinstall" /\ deferred # <<>> /\ Head(deferred) = t

(* The Safety contract of dequeue_unchecked in the install function: when  *)
(* a task's slot is free its input is there, however often the task was    *)
(* deferred before and wherever the spawner on another core is.            *)
InputIsThere ==
  \A t \in Tasks : Installing(t) /\ ~ running[t] => inputs[t] # <<>>

(* The contract of enqueue_unchecked on both queues (the comment at        *)
(* codegen/mod.rs:439-441 argues it for the ready queue), which also keeps *)
(* `deferred[deferred_len]` inside the array.                              *)
QueuesHaveRoom ==
  /\ spawning.pc = "ready" => Len(ready) < sum_capacity
  /\ \A t \in Tasks : Installing(t) /\ running[t] => Len(overflow) < sum_capacity

(* A spawn is deferred only while the future before it runs: when the      *)
(* executor is off, whatever is in the overflow queue has a busy slot,     *)
(* whose completion will come with another phase B.                        *)
DeferredOnlyWhileRunning ==
  dpc = "off" => \A i \in 1 .. Len(overflow) : running[overflow[i]]

StillToDrain == dpc \in {"drain", "install"} \/ IdleExecutor

StillToPoll(t) ==
  \/ StillToDrain
  \/ dpc \in {"poll", "polling"} /\ \E i \in cursor .. Len(Order) :
       Order[i] = t /\ (dpc = "polling" => i > cursor)
  \/ dpc = "reinstall" /\ installed

(* No lost wake: a future that was installed or woken will be polled, and  *)
(* a queued spawn looked at, because the executor is still to come by it   *)
(* or its interrupt is pending or about to be (or the pend failed, and     *)
(* Err(None) said so).                                                     *)
NoLostWake ==
  /\ \A t \in Tasks :
       running[t] /\ pending[t] => StillToPoll(t) \/ irq \/ t \in waking
  /\ ready # <<>> => StillToDrain \/ irq \/ spawning.pc = "pend" \/ unpended

(* Every future completes, provided what it waits for happens.             *)
FutureCompletes == \A t \in Tasks : running[t] ~> ~ running[t]

(* Every accepted spawn becomes a future (pends do not fail).              *)
SpawnServed == \A t \in Tasks : inputs[t] # <<>> ~> running[t]

(* To the callers of spawn each task is a FIFO of its accepted spawns,     *)
(* executed one at a time, each with its own input.                        *)
Backlog == [t \in Tasks |-> [i \in 1 .. Len(inputs[t]) |-> <<t, inputs[t][i]>>]]
Current == [t \in Tasks |-> IF running[t] THEN <<t, future[t]>> ELSE Nothing]

Abstract == INSTANCE SpawnOrder WITH
  Groups <- Tasks, Spawnable <- Tasks, GroupOf <- [t \in Tasks |-> t],
  backlog <- Backlog, current <- Current

ImplementsSpawnOrder == Abstract!Spec
=============================================================================
