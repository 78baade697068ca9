# Verification of RTICx

TLA+ models of RTICx, a framework that compiles an application of interrupt
handlers, software tasks and async tasks into code for bare-metal, possibly
multicore, microcontrollers. The models are translated from the source in
`src/`; `PROJECT.json` maps every definition to the lines it models.

## Inventory of the system

RTICx has two halves. *Compilation passes* rewrite the application module and
decide everything static: priorities, ceilings, queue sizes, which interrupt
dispatches which tasks. The *generated and run-time code* then runs on the
device, preempted by interrupts at any instruction and, on multicore devices,
in parallel. Almost everything that is hard to test is in the second half and
rests on decisions of the first.

| Component | Source | State | Operations | What makes it correct |
|---|---|---|---|---|
| Core analysis | `rticx-core/src/parser/ast.rs`, `analysis/mod.rs` | priority per task, ceiling per resource | `TaskArgs::parse`, `update_resource_priorities`, `SubAnalysis::run` | ceilings bound the *interrupt* priority of every user of a resource |
| BASEPRI locking (armv7-m) | `rticx-cortex-m/src/export.rs`, `rticx-macro/src/lib.rs` | BASEPRI, PRIMASK, locals of `run` and `lock` | `run`, `lock` | mutual exclusion, no mask dropped or left behind, bounded inversion, no deadlock |
| Source-mask locking (armv6-m) | same files, `mod source_mask` | NVIC enable bits, PRIMASK | `lock`, `compute_mask`, `set/clear_enable_mask` | the same |
| SPSC queue | `rticx-spsc/src/lib.rs` | buffer, `read_idx`, `write_idx` | `enqueue(_unchecked)`, `dequeue(_unchecked)`, `split` | a bounded FIFO although both sides interleave and the indices wrap |
| Software tasks | `rticx-sw-pass` | input queue per task, ready queue and interrupt per priority group, initialised flag | `spawn`, `cross_spawn`, dispatcher `exec` | contracts of the unchecked operations, one producer per queue, no lost wakeup, order of spawns |
| Async dispatchers and executor | `rticx-async-pass`, `rticx-async/src/executor.rs` | executor slots, overflow queue, ready queue | spawn, poll, wake, idle executor | no lost wake, no slot polled by two contexts, every accepted spawn gets a slot |
| Channel, wait list, waker registration | `rticx-async/src` | free and ready queues, waiting senders, ends | `send`, `recv`, `try_*`, drops | no slot lost or handed out twice, no message lost, no sender forgotten |
| Compilation passes | `rticx-auto-assign`, `rticx-deadline-pass`, `rticx-sw-pass`, `rticx-async-pass`: `parse`, `analyze` | the application, rewritten by each | place tasks, rank deadlines, group, assign dispatchers | every task has one server of its priority on its core, one spawner per group |
| Core parser, pipeline, info bus | `rticx-core/src/parser`, `lib.rs`, `info_bus.rs`, `expand_log.rs` | the stage, the bus, snapshot files | the passes in order, parse, analyse, validate, generate | what one stage relies on holds after all others, each key is published once, the files tell what happened |
| Boot | `rticx-core/src/codegen` | progress of each core's entry function, statics written | injections, init, `post_init`, enabling interrupts | nothing runs before what it reads is initialised |
| `rticx-expand` | `tools/rticx-expand` | sources, backups, expansions and snapshots on disk | `expand`, `--merge`, `--expand-passes`, `restore` | the developer's text is never lost, what is merged is this run's result of this file |
| Attribute parsing, text of expansions | `parse_utils`, `beautify.rs`, `detect.rs` | none | token and character handling | not modelled |

Interaction: the passes run in sequence (software and async tasks, then core)
and hand tokens to each other; the generated dispatchers are ordinary hardware
tasks of the core pass. At run time tasks share resources through `lock`, spawn
each other through two SPSC queues and a pended interrupt, and async tasks
exchange messages through channels and wakers.

The hard behaviours are: preemption between any two register accesses; another
core between any two statements of a critical section, since a critical section
only stops its own core; operations whose safety contract is argued in a comment
(`enqueue_unchecked`, `dequeue_unchecked`, `basepri::write(0)`); 8-bit and
`usize` arithmetic at its limits; a pend that fails half way through a spawn;
a wakeup that races with a handler that is about to return; a future dropped
while it is on a list; passes that each know a part of what the generated code
relies on; files that survive the run that wrote them. `PROJECT.json`
lists each of them under `hazards` at the line where it bites.

## Modules

```
CoreAnalysis ── BasepriLock ── MCBasepriLock
     │               └──────── BasepriProofs
     └───────── SourceMaskLock ── MCSourceMask
                     └──────── SourceMaskProofs
Fifo           <- refinement -  SpscQueue ── SpscProofs
SpawnOrder     <- refinement -  SwDispatch ── MCSwDispatch
     │                               └──────── SwDispatchProofs
     └────     <- refinement -  AsyncExecutor ── MCAsync
                                     └──────── AsyncProofs
BoundedChannel <- refinement -  Channel ── WaitList
                                     └──────── ChannelProofs
FrontEnd ── Boot ── Pipeline ── Toolchain ── MCToolchain
                                      └──── ToolchainProofs
Lemmas: extended by all proof modules but SpscProofs and ToolchainProofs
```

**CoreAnalysis** (operators only). The application is given by constants: tasks
(interrupt handlers), idle, which tasks are software dispatchers or bound to
exceptions, the resources each one uses and the priority each one declares.
`CorePriority` and `SwPriority` are the two defaults of an omitted `priority`,
1 in the core pass and 0 in the software passes. `Ceiling` is the maximum over
the tasks, without idle. `cortex_logical2hw` keeps its u8 arithmetic.

**BasepriLock.** State: NVIC pending bits, the phase of each handler (`off`,
`entry` before `run` has read BASEPRI, `body`), `run`'s local `initial`, the stack
of calls of `lock` of each actor with the value each saved, BASEPRI and PRIMASK.
Each action is one access to a register: `LockRead` and `LockRaise` are the two
halves of `lock`, so a handler may come in between and change and restore BASEPRI
itself. Closures may lock anything the task declares, also the resource it
already holds, because `shared(&self)` returns new proxies each time. The NVIC
(`Pend`, `Preempt`, what a mask keeps out, BASEPRI_MAX) is external.

**SourceMaskLock.** The same handlers on armv6-m, where `lock` clears enable bits
in the NVIC. A mask is the set of interrupts whose bits are set. `Nests` says
which lock an application takes inside which, since nesting is where this
scheme depends on the application.

**SpscQueue / Fifo.** Producer and consumer as two processes whose steps are the
accesses to the fields the other side writes. The consumer's two accesses (read
the slot, advance the index) are taken in both orders, because nothing orders
them. Indices count modulo `IndexMod`, the 2^w of `usize`. `Fifo` is the queue
the users of the crate reason with; it is implemented with the element published
by the index update.

**SwDispatch / SpawnOrder.** Per core the phase of its boot and the position
inside `spawn` or `cross_spawn`; per task an input queue; per priority group a ready
queue, the pending bit of its interrupt and the position of its dispatcher. On
its own core a spawn is atomic (`interrupt_free`), towards other cores each
statement is a step. `spawn_by` is chosen in `Init` among all assignments the
analysis accepts. `Calls` says which cores the application calls which spawn on;
the core check that refuses a call on the wrong core is there only if the backend
has a `current_core_id` (`HasCoreId`), without which only applications free of
cross-core tasks are accepted (`check_current_core_id`). What such an application must keep to
itself is `SpawnedAtHome`. Contract violations have the effect they have in the code: an
unchecked enqueue on a full ring makes it look empty, an unchecked dequeue on an
empty one returns garbage and makes it look full. `SpawnOrder` is the promise:
per group one FIFO of accepted spawns, run one at a time with their own inputs.

**AsyncExecutor.** One priority group of async tasks: an input queue and an
`ExecSlot` (`running`, `pending`, `future`) per task, the ready and the overflow queue,
and the executor with its local variables, one statement per step. Whoever holds
a waker may call `wake` at any time, also during the poll itself (`yield_now`) and
long after the future has completed; setting the flag and pending the interrupt
are two steps. `kind`, chosen in `Init`, says whether the tasks are spawned on
their own core, by another one, or have priority 0; in the last case
the executor is the idle loop, which has the same phases and pends nothing.
Whether a polled future is ready is a choice. The model starts when the slots exist and the initialised flag is set.
It implements `SpawnOrder` per task instead of per group: a deferred spawn may be
overtaken by other tasks of its group, not by later spawns of its own task.
All spawns come from one core: it is `SwDispatch` that models the core check and
what happens without it.

**Channel / WaitList / BoundedChannel.** Each critical section of `channel.rs` is
one action, everything between two of them a point where the other end, or
another sender, may run; a future may be dropped at every await. A sender's record
is its `send` future: whether its link exists, the slot handed to it, where it is.
`WaitList` keeps the links with their `prev`, `next` and `is_popped` and does the
pointer surgery of `push`, `pop` and `remove_from_list` case by case; `ListIsLine`
relates it to the line of waiting senders the code has in mind. `BoundedChannel`
is the promise: a bounded FIFO whose free slots go to waiting senders in the order
of their arrival. What an end is told of the other's absence is no part of it:
`NoSender` may come while a message lies inside (see below).

**FrontEnd** (operators only). An application is its items with the arguments
written in their attributes. `AutoAssign`, `Deadline`, `Software` and `Async` are
the four passes as functions from an application to an application, an error or a
panic; `Lower` is what the two spawning passes share. `Parse`, `Analyse`,
`pre_codegen_validation` are the stages of the core pass and the distribution, and
`TypeChecks` what rustc refuses afterwards.

**Boot.** `EntryFunction(c)` is the sequence of statements that `generate_sub_app`
puts together for core c. `Execute` does the next one, and `MayRun` are the
handlers that an interrupt could start now. Cores run in parallel.

**Pipeline.** One expansion of the macro: each step is a stage, each outcome an
action (`PassOutput`, `PassError`, `PassPanic`), with the snapshot it leaves behind.
`EveryTaskHasItsPlace` is what the run-time models above take for granted:
`SwDispatch` and `AsyncExecutor` begin where it ends. It is about distributions
whose passes decide before they lower (`DecidedBeforeLowered`, see below).

**Toolchain.** The composition: a developer, cargo, the macro, a device, and
`rticx-expand` with one file operation per step. The tool may be interrupted
between two steps, or inside a write, which then leaves a torn file, and the
developer may save a source while `cargo check` runs.

## Runs

| Run | Instance | Shows |
|---|---|---|
| `basepri_lock` | 4 levels; idle, one task at level 1, two at 2, one at 4; ceilings 0, 1, 2, 4; 2 nested locks | mutual exclusion, BASEPRI equals the system ceiling, one blocker, handlers start with resources free |
| `basepri_live` | three tasks, 1 lock | no mask stays behind |
| `source_mask` | idle, an exception, tasks at 1 to 4; ceilings 1 to 4; nests that change no mask | exclusion and exact masks, *for such applications* |
| `spsc` | 4 slots, indices mod 8, 3 values | FIFO, slot exclusion, through four wraps of the ring per wrap of the index |
| `sw_dispatch` | 3 cores, each calling every spawn, with the core check; a group of two tasks with capacities 2 and 1, pends may fail | contracts, single producer, no lost wakeup, order, accepted spawns are executed |
| `async` | two tasks with capacities 2 and 1, spawned locally, by another core, or at priority 0; pends may fail | contracts of the unchecked operations on all queues, no lost wake, nothing deferred without a running future, order and inputs per task |
| `async_live` | the same with capacities 1 and 1, one input, pends succeed | futures complete, accepted spawns are served |
| `channel` | two senders, two slots | slots conserved, the list is the line, no lost wake, nobody waits forever, a bounded FIFO that serves waiting senders in order |
| `toolchain` | some 1200 applications of one to three cores built and booted; a package of two targets worked on with three calls, an edit and two interrupts | tasks, dispatchers and statics fit together; the tool keeps the developer's text, merges this run's result of this file or, if there is none, an earlier one under its stem, and leaves the snapshots of one run |

Three runs expect a violation; each one is a disagreement between the code and
what the repository says of it (`findings` in `PROJECT.json` has the quotes):

- `basepri_sw_default`: a software task without `priority` is dispatched at logical
  0, hardware 0, the most urgent level, while ceilings count it as 1.
- `source_mask_nested`: the inner unlock re-enables what the outer lock disabled.
- `spsc_wrap`: with a number of slots that does not divide 2^w the wrap of the
  index lets an element into the slot that is "always unused". (A debug build
  panics at that addition instead; the model is the release build.)

Further disagreements and surprises met while modelling, each excluded from a
property or from an instance as said:

- Source masking protects less than `src/README.md:116` says in two more cases.
  Idle without `priority` has priority 1, not the 0 of the comment at
  `ast.rs:92`, so its locks mask nothing against tasks of priority 1; and an
  exception has no enable bit, so it may use what the closure it preempts holds,
  or take a lock of its own between the closure's priority and ceiling and
  re-enable, when it returns, what that closure had disabled. `SafeUses` and
  `MCDeclared` avoid all of it, and `Suits` says in general what must be avoided.
- The comment of `cross_spawn` (`common/codegen.rs:182`) says that after `Err(None)`
  the caller may "repend it manually or try at a later time". The pend comes after
  the enqueue, so once the input queue is full, at once with the default capacity
  1, every later try is refused before it pends anything. The models have the
  first remedy only (`Repend`).
- The core check of `spawn` is optional, although `SwPassBackend` says that the
  generated functions "start with a runtime check" (`rticx-sw-pass/src/lib.rs:184`; likewise
  `rticx-async-pass/README.md:67`, "in multicore"). It is generated from
  `current_core_id`, which is `None` by default and required by `run_pass` only for
  applications with cross-core tasks. In a multicore application of core-local tasks
  on such a backend, any core may call `spawn`: two cores are then producers of one
  queue, which `interrupt_free` does not prevent, and the local pend goes to the
  wrong core. With `HasCoreId = FALSE` in the instance of `sw_dispatch`
  TLC finds `SingleProducer` violated; with calls on core 0 only, nothing.
  The theorems assume `SpawnedAtHome`.
- `try_recv` pops and looks at `is_closed` in two critical sections
  (`channel.rs:370`). A last sender that sends and drops in between makes it return
  `NoSender` while the message lies inside; the next call would return the
  message. Nothing in the repository says that `NoSender` means an empty channel, so no property
  forbids it.
- The deadline pass ranks the shortest deadline first and calls that "higher
  priority (lower number)" (`deadline_pass/mod.rs:64`), but 1 is the least urgent
  priority (`ast.rs:10`): the shorter a deadline, the less urgent its task.
  Deadlines are also ranked over all cores, and a task without one takes up a
  level although it keeps the default. `DeadlinesRanked` states what is computed.
- Nothing removes an old `<stem>_expanded.rs` before `cargo check`. If the macro
  fails or panics this time, or the compiler does not get to it, the previous
  expansion is taken for the result and merged, where the tool's message
  (`flow.rs:104`) speaks of untouched sources. If the target has none of its own, it may
  even be that of another target whose stem begins alike, if it is the only
  one. `FreshMerge` has both cases: what this call's macro generated, if it did, and
  otherwise something left under the file's stem or one that begins alike.
- `restore` removes the source and puts the backup in its place without looking
  at either: a backup torn by an interrupted `--merge`, or older than edits made
  since, replaces the intact file. `SourceSurvives` exempts restore for that.
- A pass that panics leaves no snapshot, unlike one that returns an error, and so
  does a failure in analysis or validation.
- The core parser drops items of a core that the application does not have, all
  items with `cores = 0`. The spawning passes refuse both; a hardware task is
  dropped silently (`ParserApps` has such applications).
- The passes do not commute, and nothing says so or refuses an order. A pass that
  places or ranks tasks and is bound after one that lowers them still finds the
  lowered tasks: auto-assign moves one to the core of its resources, away from its
  dispatcher, and the deadline pass gives one a priority that is not its dispatcher's.
  The application builds. `DecidedBeforeLowered` excludes such an order; the
  distribution for cortex-m, which binds the software and then the async pass
  (`rticx-macro/src/lib.rs:53`), satisfies it.
- Auto-assign does not look at `#[async_task]`, nor checks the `core` that a task
  names against its resources. In the core analysis a task may name resources
  on a core that has no `#[shared]` struct.

### Bounds

Interference in a lock needs an actor inside it, one that preempts it and one
that preempts both; the instance has five actors, two of equal priority, and
every kind of ceiling (none, lowest, middle shared by three, top by PRIMASK).
`MaxNest` = 2 gives an inner lock with lower, equal and higher ceiling than the
outer one. Pending bits are single bits, so interrupts recur without a counter.
In `spsc`, `IndexMod` = 8 stands for 2^w: what matters is whether the number of
slots divides it, and the two runs take one case each. In `sw_dispatch` capacities 2
and 1 distinguish the sum of capacities from the number of tasks, and three
cores give two that are not the dispatcher's own; preemption of one dispatcher by
another is in the model (`Above`), but two groups on one core and three cores
together exceed the time a run may take. In `async` capacities 2 and 1 let a task
be spawned twice more while its future runs, so that deferral, deferral again and
a full overflow queue happen; the task that can queue has two inputs. The runs
for liveness alone use smaller instances, because the liveness graph is the
product with the fairness conditions.
In `channel` two slots and two senders let one wait while the other overtakes,
cancels or drops, and let a slot be handed over while another comes back. A link is
never removed from between two others: that case of `remove_from_list` takes three
senders that wait at once, and rests on the proof (`RemoveFacts`).

In `toolchain` the applications are families (`MCToolchain`), each varying what one
group of decisions depends on: cores, spawners, priorities and numbers of
dispatchers of two spawned tasks; what an interrupt, an exception or idle shares and
which passes are bound, also one twice; placement; deadlines; what
the parser refuses; and every order of one to four passes over tasks to be placed,
ranked and lowered (`OrderApps`). `TypeChecks` and every refusal have applications on both sides.
A second target whose stem begins like the first's is what prefix matching
(`StartsWith`) can confuse. `MaxCalls` = 3 gives a merge, a restore or a second
merge, and one more after it; `MaxEdits` = 1 an edit before or during any of them;
`MaxInterrupts` = 2 a merge and the restore after it both interrupted. The
applications that are worked on (`Workbench`) stand for the four ways an expansion
ends: code, a pass that panics, a pass that fails, a parser that fails.

No run uses symmetry: the actors differ in priority.

### Fairness

`BasepriLock`: handlers and closures terminate (`RunEntry`, `LockRaise` weakly,
`RunExit` and `Unlock` strongly fair: they are disabled while a more urgent handler
runs, and the body may lock again in between), and the NVIC takes a pending
interrupt that is unmasked again and again (`Preempt`, strong). This is the
framework's own premise: a task runs to completion. Nothing is assumed of
`Pend` or of taking locks. `SwDispatch`: cores boot and leave their critical sections
(weak), dispatchers progress although critical sections of their core interrupt
them (strong). A caller that was told `Err(None)` repends (weak),
as the comment of `cross_spawn` tells it to; nothing is assumed of spawning.
`AsyncExecutor`: spawns and wakes finish, the executor makes its next step unless
critical sections keep it out for good (strong), a future that returned pending
is woken, and one polled infinitely often completes. The last two are promises of
the application's futures, without which nothing can be served.
`Channel`: an end that is between two critical sections, or has been woken, makes its
next step (weak; nothing disables it), which is the executor's promise to a future
it has been asked to poll. The receiver keeps
receiving until it is dropped: a sender can only wait for room that somebody makes.
Nothing is assumed of sending, cancelling or dropping an end. `toolchain` checks safety only: calls of the tool
may be interrupted for good.

## Proofs

### Locks (`BasepriProofs`)

About `BasepriLock`, for any tasks, resources, uses,
nesting depth and 1 to 7 priority bits:

| Theorem | Statement |
|---|---|
| `TypeCorrect` | `Spec => []TypeOK` |
| `LocksExclude` | `Spec => []MutualExclusion` |
| `OneBlocker` | `Spec => []SingleBlocker` |
| `HandlersStartFree` | `Spec => StartsWithResourcesFree` |
| `MasksAreTheCeiling` | `Spec => []SystemCeiling` |
| `IInvAlways` | `Spec => []IInv`, the inductive invariant the first four follow from |
| `MasksAreBacked` | `Spec => []Exact`, what the last one needs besides |

All assume `WellPrioritised`: every dispatcher runs at the priority the ceilings
were computed with, and priorities are in 1 .. 2^bits. The upper end is what the
compile-time assertion of `post_init` enforces; the rest is not enforced by the
code, and `basepri_sw_default` shows what happens without it.

Mutual exclusion is not inductive: `lock` and `run` write back values they read
long before, so one must know that *every saved value* still protects whatever
was protected when it was read. `IInv` therefore says, besides typing:

- calls of `lock` are made by active bodies on resources they declare, and only
  the innermost may not have raised the ceiling yet (`CallsOK`);
- active actors have different priorities (`Nested`), and whoever preempted an
  actor inside a closure is above its ceiling (`AboveCeilings`);
- BASEPRI and PRIMASK protect all closures being run (`Protected`);
- so does the value each `lock` will restore, for the closures around it
  (`SavedOuter`) and for those of preempted actors (`SavedBelow`), and the value
  each `run` will restore (`InitialBelow`). The 0 that `run` writes for priority 1 is
  right because only idle can be below, and the ceilings of a closure that a
  level-1 task could preempt are 0.

Each action preserves it in a lemma of its own (`PreemptStep`, `RunEntryStep`,
`RunExitStep`, `LockStep`, `LockRaiseStep`, `UnlockStep`). The theorems follow
because the ceiling of a resource is at least the priority of each of its users
(`CeilingFacts`) and the hardware encoding reverses the order (`HwAntitone`).

`Protected` says that the masks are high enough. That they are no higher than some
closure needs, so that none is left behind, is the other half of `SystemCeiling` and
has an invariant of its own, `Exact`. Each level that is in force, or will be
written back, is the ceiling of a closure that is being run then: BASEPRI of any
(`BasepriBacked`), the value saved by a call of `lock` of one around it or of a
preempted actor (`SavedBacked`), the value saved by `run` of a preempted one
(`InitialBacked`); and likewise PRIMASK (`PrimaskBacked`, `SavedBitBacked`). The
delicate step is `ExactUnlock`: the closure that backed BASEPRI is gone, and what is
written back must have a backer among those that remain. `Backed` therefore
does not only name one but says where it is (`Outside`): an inner call, or a
preempting actor, ends before it does.

That a maximum exists, which a ceiling is defined to be, is `Maximum` of the module
`Lemmas`. It has what several components need: numbers, sequences without
repetitions, counting in a queue, and `RoomLeft`, the room in a queue whose size is
the sum of its users' capacities.

### Source masking (`SourceMaskProofs`)

About `SourceMaskLock`, for any tasks, resources, uses and nesting depth, on a
device with 2 priority bits:

| Theorem | Statement |
|---|---|
| `TypeCorrect` | `Spec => []TypeOK` |
| `LocksExclude` | `Spec => []MutualExclusion` |
| `MasksAreExact` | `Spec => []MaskExact` |
| `IInvAlways` | `Spec => []IInv` |

All assume `Suits`, which is the answer to the question for which applications the
scheme is sound: priorities as for BASEPRI, idle at 0, no lock that disables
interrupts inside another lock (`MasksNotNested`), and no exception that could
preempt such a closure and use its resource, or reach into the levels that it has
disabled (`ExceptionsApart`). None of it is enforced by the code. The instance of
`source_mask` satisfies `Suits`; that of `source_mask_nested` does not.

`IInv` replaces the stack of closures by what the static priorities say about each
(`CallsOK`): at most the outermost has disabled anything, exactly the interrupts from
above its task up to the ceiling (`MaskIs`). Whoever preempted an actor found
PRIMASK clear and its own bit set, so it uses none of the resources held and is not
below a ceiling (`AboveCalls`, by `KeptOut`). Masks of different actors are therefore
disjoint (`MasksApart`), which is why unlocking enables what it disabled
and no more. `PrimaskOK` tracks what the nested `interrupt::free` restore.

### Software tasks (`SwDispatchProofs`)

About `SwDispatch`, for any number of cores, any finite set of tasks, any
priorities, capacities and inputs, with or without failing pends:

| Theorem | Statement |
|---|---|
| `TypeCorrect` | `Spec => []TypeOK` |
| `RoomAlways` | `Spec => []ReadyHasRoom` |
| `InputsThere` | `Spec => []InputIsThere` |
| `OneProducer` | `Spec => []SingleProducer` |
| `NoWakeupLost` | `Spec => []NoLostWakeup` |
| `SpawnsInOrder` | `Spec => ImplementsSpawnOrder`, the refinement of `SpawnOrder` |
| `IInvAlways` | `Spec => []IInv` |

All assume `SpawnedAtHome`: the backend has a core id, from which the core check is
generated, or the application calls each spawn on the task's own core only (on a
single core it cannot do otherwise). It is needed for more than `OneProducer`: that a
queue is a FIFO is `SpscProofs`' result for one producer. The rest is what the analysis has
accepted in `Init`. `CallerIsSpawner` is where the two meet: who is not refused is
the one core that spawns the task. The two contracts
that the comments of `generate_dispatcher_tasks` and `spawn` argue are one balance
(`Balanced`): the inputs of a task are as many as its entries in the ready queue,
plus the one that its dispatcher has taken and not yet fetched the input for, plus
the one of a spawn between its two enqueues. The last summand is at most one because
all tasks of a group are spawned by one core (`OneSpawner`), which is also what makes
the queues' producer a single one. A taken task therefore has an input
(`IInvInputs`). That an accepted spawn finds room (`RoomForSpawn`) is the counting
that the capacity of the ready queue, the sum of the tasks' capacities, is meant for
(`RoomLeft` in `Lemmas`): the places are the pairs of a task and a number up to its
capacity; the i-th entry of a task occupies the i-th of them, no two entries the same,
and the spawn in progress has one that no entry occupies. `NoLostWakeup` is inductive by itself.

For the refinement `Supplied` says that each entry of a ready queue has an input of
its own, `BacklogAppend`, `BacklogTake`, `BacklogInput` and `BacklogNewInput` what the
four queue operations do to the pairs: the ready enqueue is the acceptance, the
ready dequeue the start, the return of `exec` the end, everything else a stutter.

### Async executor (`AsyncProofs`)

About `AsyncExecutor`, for any tasks in any polling order, any capacities and
values, and each of the three kinds of spawner:

| Theorem | Statement |
|---|---|
| `TypeCorrect` | `Spec => []TypeOK` |
| `InputsThere` | `Spec => []InputIsThere` |
| `RoomAlways` | `Spec => []QueuesHaveRoom` |
| `DeferredAlways` | `Spec => []DeferredOnlyWhileRunning` |
| `NoWakeLost` | `Spec => []NoLostWake` |
| `SpawnsInOrder` | `Spec => ImplementsSpawnOrder`, the refinement of `SpawnOrder` |
| `IInvAlways` | `Spec => []IInv` |

Nothing is assumed but `AsyncAssumption`, and the one spawning core of the model,
which stands for what `SpawnedAtHome` says of software tasks. The safety of the queues is again one
balance (`Balanced`), over more places than in `SwDispatch`: the inputs of a task are
as many as its entries in the ready queue, the overflow queue and the executor's
array `deferred` together, plus the one in the executor's hand, plus that of a spawn
between its two enqueues. Being put off, however often, only moves an entry from one
place to another. A task whose turn it is has therefore an input (`IInvInputs`), and
since an input queue admits no more than its capacity, neither the ready nor the
overflow queue is full when something is put there (`RoomReady`, `RoomOverflow`, by
`RoomLeft`), although each may receive all the spawns there are. `DeferredBusy` says
why a spawn was put off: outside of the polling round, in which futures end, its
slot is busy, and phase B restores that before the executor returns. `Executing` ties
the executor's locals to the slots. `NoLostWake` is inductive with these.

For the refinement a task's backlog is its input queue. Which queue an entry is
taken from does not matter to its task, because the entries of a task are all alike
and the input is fetched when it is installed: `SpawnInput` is the acceptance, an
install that finds the slot free the start (`InstallMaps`), a poll that returns ready
the end (`PollReadyMaps`), everything else a stutter (`QuietMaps`).

### The ring (`SpscProofs`)

For rings of any number of slots, indices of any width and any values:

| Theorem | Statement |
|---|---|
| `TypeCorrect` | `Spec => []TypeOK` |
| `LastSlotUnused` | `Spec => []OneAlwaysUnused` |
| `SlotsNotShared` | `Spec => []SlotExclusive` |
| `QueueIsFifo` | `Spec => ImplementsFifo`, the refinement of `Fifo` |

All assume `WrapsTogether`: the number of slots divides the 2^w at which an index
wraps. The code does not enforce it, and `spsc_wrap` shows what happens otherwise.
With 64-bit indices nobody lives to see it, with 32-bit ones somebody may.

The indices are only ever compared modulo the ring, so the argument needs to know
how far apart they are. `IInv` says that the distance modulo 2^w is at most
DEPTH - 1, at most DEPTH - 2 once a producer has passed its test, and at least 1
once a consumer has (`Admitted`): each test stays true because the other side only
moves away. `RoomTest` and `EmptyTest` are the lemmas that comparing slots decides
that distance; they are where `WrapsTogether` is used (`SlotTurns`). The third
conjunct, `HalfWay`, tells what has been written or read so far. For the refinement,
`PublishAppends` and `AdvanceTails` say what one step of an index does to the
sequence of the elements between the two; every other step maps to a stutter,
because what it writes is outside of them (`WriteKeeps`).

### The channel (`ChannelProofs`)

For any finite set of senders, 1 to 255 slots and any number of messages:

| Theorem | Statement |
|---|---|
| `TypeCorrect` | `Spec => []TypeOK` |
| `SlotsNeverLost` | `Spec => []SlotsConserved` |
| `LineIsKept` | `Spec => []ListIsLine` |
| `NobodyForgotten` | `Spec => []NoLostWake` |
| `ChannelIsBounded` | `Spec => ImplementsBoundedChannel`, the refinement of `BoundedChannel` |
| `IInvAlways` | `Spec => []IInv` |

Nothing is assumed but that `None` is no slot, sender or message. The parts of
`IInv` that the properties do not have:

- which locals go with which phase (`Locals`): a link exists exactly while a
  sender waits or takes it out, a slot is in hand exactly between taking it and
  publishing it, and one is granted only to a link that was popped;
- the line without repetitions, spelled by the pointers in both directions
  (`Line`). `PushFacts`, `PopFacts` and `RemoveFacts` are what the three list
  operations do to a line, over pointers of any shape;
- every slot in one of the places free, ready, given, sender's, receiver's, and
  no two places sharing one (`SlotsPlaced`). A step moves one slot at most from one
  place to another (`MoveKeeps`, `SlotsMoved`), except that a dropped receiver
  empties the ready queue without giving the slots back (`FewerKeeps`);
- who has been told (`Wakes`). `NoLostWake` speaks of a receiver that waits; the
  invariant must begin earlier, at the look at the ready queue that comes after
  registering: whatever is pushed from there on finds the waker, although the
  receiver has not returned `Pending` yet.

For the refinement `Cargo` says what lies in the slots: a message in each that is
ready, and the right one where a sender has written and not yet published. That
there is room for a sender that takes a slot is a counting argument (`RoomIf`): each
sender that has been given room has a slot of its own, and one more that is not
among the ready ones leaves at most N - 1 for the others. Each action has a
lemma (`SendSlotMaps`, `GiveBackMaps`, `PopReadyMaps`, ...) that names the step of
`BoundedChannel` it is; a critical section that only looks, registers or wakes
maps to a stutter.

### The tool (`ToolchainProofs`)

About `Toolchain`, the composition of the tool, the pipeline of passes and the boot
of a device, for any packages, sources, edits and interrupts:

| Theorem | Statement |
|---|---|
| `TextNeverLost` | `Spec => SourceSurvives` |
| `MergesAreFresh` | `Spec => FreshMerge` |
| `SnapshotsAlwaysTell` | `Spec => []SnapshotsTellTheRun` |
| `AlwaysInitialised` | `Spec => []InitialisedBeforeUse` |
| `PlacesAreKept` | `Spec => []EveryTaskHasItsPlace` |
| `IInvAlways`, `FreshInvAlways`, `RunInvAlways`, `PlaceInvAlways` | the invariants they follow from |

The assumptions on the constants say what an application is when the first pass
sees it (`WellFormed`): finitely many items whose names differ from each other and
from those the passes generate, which rustc would refuse otherwise; numbers in
attributes that are unsigned, as `syn` parses them; and no task that dispatches
others before a pass has made one. The passes of a source are any sequence of the
four, also with repetitions. `BootAssumption` says that the mark for a task without
`binds` is no exception, `FrontEndAssumption` that `U32_MAX` is a number.

**Files.** `IInv` says where the developer's text is at each step of a replacement:
before the backup is written the file holds it, before the file is overwritten the
backup does (`TextIsSafe`), and neither the backups nor the expansions ever hold what
the other is for (`DiskOK`). `FreshInv` adds what the second theorem needs: a call in
progress sees no expansion of the macro but its own (`OwnMacro`), what the call has
chosen to merge lies under the stem of the file, and if its macro has
generated code, the file is the one of its target and the text is its expansion (`FreshText`). Stems that begin alike make
`Collected` larger than one, whatever lies about; the theorem says that preferring
the exact name is enough.

**Snapshots.** `RunInv` ties the macro to a source somebody wrote and to the place
it has reached in its passes. `TellInv` says what the pass directory holds
in each of its states (`Told`): nothing when the check begins, then one output per
pass done, and, in the end, the generated code, the input of the pass that
failed, the input of the parser, or, after a panic or an error of analysis or
validation, nothing more. That each number occurs once is then counting.

**Boot.** The entry function of every core is ten statements in one order
(`EntryFunctionIs`), however many tasks there are. `BootInv` says for each position
what has been written and what may interrupt (`BootedTo`). A handler can start
early only if it is an exception that cannot be held off, which validation refuses
(`Validated`), or after #[init] has enabled one of the others, from where interrupts
are off until all is written (`HandlersWait`, `ReadsAre`).

**Passes.** `EveryTaskHasItsPlace` speaks of the end of all passes; its invariant
must speak of the application between any two of them (`Settled`). It is the image
of the source's items under a function F, together with the items G that the
passes have added (`Trace`): an image has the name and the resources of its
item, keeps its deadline until it is ranked and its spawner until it is lowered, and
a core once it has one (`ImageOf`). F and G are such that
the priorities of the tasks that have lost their deadlines are in the order of the
deadlines (`RankedOK`), the tasks that have been given a core are with their
resources (`PlacedOK`), and of those that have been lowered each is in exactly one
dispatcher of its priority and core (`ServedOK`), with a single spawner for each
dispatcher (`SpawnersOK`) and interrupts in the order of priority (`OrderOK`). There
is a lemma for each pass (`AutoAssignSettles`, `DeadlineSettles`, `LowerSettles` for
both that lower), and `OnePass` puts them together, with the keys on the bus
saying which kinds have been lowered: `publish` panics when a pass comes twice, and
`dispatchers` is gone after the first that takes it. `RankOrder` is the lemma that
counting the elements up to a number keeps the order of the numbers, on which both
the ranks of deadlines and the interrupts of dispatchers rest
(`DispatchersRanked`). `AtLast` and `PlaceInvPlaces` conclude: when rustc
accepts the result nothing is left to be lowered and, if auto-assign was
bound, nothing to be placed.

The proof needed what the run did not show before the family `OrderApps`
was added to it: the order of the passes (`DecidedBeforeLowered`), and that a shared
struct on a core that the application does not have is owned by nobody.

### What is only model-checked

Every safety invariant and action property of a passing run is a theorem, and so are the
refinements. Liveness (`MostUrgentServed`, `ServedOnceQuiet`, `NobodyWaitsForever` and
the other properties under fairness) is out of reach of the prover, as are fairness
and ENABLED.

## Not modelled, and why

- Weak memory between cores in the SPSC producer: the two stores are taken in
  program order (listed as a hazard).
- The u32 chunks of a mask, stack overflow checks, `wfi`, logging.
- Token construction, matching a struct with its impl, trait checks: rustc
  refuses what is wrong there, and nothing of it has state.
- The lifetime of the executor slots: locals of a block of the entry function, kept
  from being dropped, whose address the wakers and the dispatcher go on using
  (`rticx-async-pass/src/codegen/mod.rs:138`). The function does not return;
  `AsyncExecutor` takes the slots to live forever.
- More than one spawning core in `AsyncExecutor`, for which the core check, or the
  application, has to see as in `SwDispatch`.
- The user's `#[post_init]`, which runs when everything is initialised.
- `beautify.rs` and the scanner of `detect.rs`: pure functions on characters.
  `Toolchain` keeps what the scanner answers for a source, an expansion and a torn
  file. Reformatting snapshots and expansions does not change what they are of.
- `rticx-expand --file` in expand, several `#[app]` modules in one file, files that
  cannot be read or written, and snapshots torn by an interrupt, which the next
  call removes.
- `wait_until` of the wait list, which nothing calls.

## What could follow

A composition of two dispatchers of one core with the boot of another (each is in
a model, not both in one), and the weak order of the SPSC producer.
