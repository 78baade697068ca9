---------------------------- MODULE CoreAnalysis ----------------------------
(***************************************************************************)
(* What the compilation passes decide about one core's application before  *)
(* it runs: the priority of every task, the interrupt priority its handler *)
(* is given, and the ceiling of every shared resource (rticx-core:         *)
(* parser/ast.rs, analysis/mod.rs; rticx-sw-pass: common/parse.rs).        *)
(*                                                                         *)
(* A member of Tasks is an interrupt handler: a hardware task, or the      *)
(* dispatcher of the software (or async) tasks of one priority, whose      *)
(* Uses is then the union of the resources of the tasks it dispatches.     *)
(***************************************************************************)
EXTENDS Integers

CONSTANTS
  Tasks,        \* interrupt handlers of this core
  Idle,         \* the idle task: thread mode, not an interrupt
  SwTasks,      \* the members of Tasks that are software-task dispatchers
  Exceptions,   \* the members of Tasks bound to core exceptions (SysTick, ...)
  Resources,    \* fields of the #[shared] struct
  Uses,         \* `shared = [..]` of each task
  Declared,     \* `priority = N` of each task, or NoPriority if omitted
  NoPriority,
  NvicPrioBits  \* NVIC_PRIO_BITS of the device

Actors == Tasks \cup {Idle}

MaxU16 == 65535

ASSUME CoreAssumption ==
  /\ Idle \notin Tasks
  /\ SwTasks \subseteq Tasks
  /\ Exceptions \subseteq Tasks \ SwTasks
  /\ Uses \in [Actors -> SUBSET Resources]
  /\ NoPriority \notin Int
  /\ Declared \in [Actors -> (0 .. MaxU16) \cup {NoPriority}]
  /\ NvicPrioBits \in 1 .. 7

-----------------------------------------------------------------------------
(* TaskArgs::parse: the priority the core pass knows a task by.            *)
DEFAULT_TASK_PRIORITY == 1

CorePriority(a) ==
  IF Declared[a] = NoPriority THEN DEFAULT_TASK_PRIORITY ELSE Declared[a]

(* TaskParams::from_attr: the software passes group tasks by a priority    *)
(* whose default is 0, and do not write it back to the task's attribute.   *)
SwPriority(t) ==
  IF Declared[t] = NoPriority THEN 0 ELSE Declared[t]

(* The `priority` of the #[task(binds = ..)] that owns the interrupt.      *)
IrqPriority(t) == IF t \in SwTasks THEN SwPriority(t) ELSE CorePriority(t)

(* Mutant: the ceiling is the lowest priority.                             *)
LowestPriority == [r \in Resources |->
  CHOOSE c \in 0 .. MaxU16 :
    /\ \A t \in Tasks : r \in Uses[t] => c <= CorePriority(t)
    /\ \/ ~ \E t \in Tasks : r \in Uses[t]
       \/ \E t \in Tasks : r \in Uses[t] /\ CorePriority(t) = c]

(* update_resource_priorities: starts at 0 and is raised by every task     *)
(* (idle is not one of them) that names the resource.                      *)
Ceiling == [r \in Resources |->
  CHOOSE c \in 0 .. MaxU16 :
    /\ \A t \in Tasks : r \in Uses[t] => CorePriority(t) <= c
    /\ c = 0 \/ \E t \in Tasks : r \in Uses[t] /\ CorePriority(t) = c]

-----------------------------------------------------------------------------
(* 1 << NVIC_PRIO_BITS and 1 << (8 - NVIC_PRIO_BITS).                      *)
Pow2 == <<2, 4, 8, 16, 32, 64, 128>>
Levels == Pow2[NvicPrioBits]
Shift == Pow2[8 - NvicPrioBits]

(* Mutant: wider than u8.                                                  *)
logical2hw_wide(logical) == (Levels - logical) * Shift

(* cortex_logical2hw, in u8 arithmetic: a small number is a high priority, *)
(* and logical 0 wraps to hardware 0.                                      *)
cortex_logical2hw(logical) == ((Levels - (logical % 256)) * Shift) % 256

(* post_init refuses at compile time an interrupt priority above the       *)
(* device's range; it does not refuse 0.                                   *)
PostInitAccepts == \A t \in Tasks : IrqPriority(t) <= Levels

(* Hardware execution priority: thread mode is below every interrupt.      *)
ThreadMode == 256
ExecPriority == [a \in Actors |->
  IF a = Idle THEN ThreadMode ELSE cortex_logical2hw(IrqPriority(a))]

(* What the passes must have given every interrupt: the priority the core  *)
(* pass computed the ceilings with, in the range of the device and not 0.  *)
WellPrioritised ==
  \A t \in Tasks :
    IrqPriority(t) = CorePriority(t) /\ CorePriority(t) \in 1 .. Levels
=============================================================================
