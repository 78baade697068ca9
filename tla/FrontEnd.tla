------------------------------ MODULE FrontEnd ------------------------------
(***************************************************************************)
(* What the #[app] macro decides about an application, stage by stage: the *)
(* compilation passes (rticx-auto-assign, rticx-deadline-pass,             *)
(* rticx-sw-pass, rticx-async-pass) and the parsing, analysis and          *)
(* validation of the core pass (rticx-core, rticx-cortex-m).               *)
(*                                                                         *)
(* An application is [args, items].  args and the attr of an item hold the *)
(* arguments of an attribute as RticAttr does: a function whose domain is  *)
(* the arguments that were written.  An item is [name, kind, attr, body]:  *)
(* kind is its attribute, body the fields of a #[shared] struct or the     *)
(* tasks a generated dispatcher serves.                                    *)
(***************************************************************************)
EXTENDS Integers, Sequences, FiniteSets, TLC

CONSTANTS
  max_priority,     \* DeadlineToPriorityPass::new(max_priority)
  HasCoreId,        \* does the backend implement current_core_id
  NON_CONFIGURABLE_EXCEPTIONS,
  U32_MAX           \* u32::MAX: larger than any deadline

Get(attr, key, default) == IF key \in DOMAIN attr THEN attr[key] ELSE default
With(attr, key, value) ==
  [k \in DOMAIN attr \cup {key} |-> IF k = key THEN value ELSE attr[k]]
Without(attr, keys) == [k \in DOMAIN attr \ keys |-> attr[k]]

ASSUME FrontEndAssumption == U32_MAX \in Nat

OfKind(app, kinds) == {i \in app.items : i.kind \in kinds}
cores(app) == Get(app.args, "cores", 1)
CoreOf(i) == Get(i.attr, "core", 0)
shared(i) == Get(i.attr, "shared", {})
binds(i) == Get(i.attr, "binds", "none")

Ok(app) == [tag |-> "ok", app |-> app]
Err == [tag |-> "error"]
Panic == [tag |-> "panic"]

Replace(app, old, new) == [app EXCEPT !.items = (@ \ old) \cup new]

-----------------------------------------------------------------------------
(* AutoAssignPass: every task without `core` goes to the core that owns    *)
(* all its resources.  A task that names its core is not looked at, nor is *)
(* an #[async_task].                                                       *)
Owners(app, r) == {CoreOf(s) : s \in {s \in OfKind(app, {"shared"}) :
                                        r \in s.body}}

(* A shared struct must name its core when there are several, and no two   *)
(* structs may have a field of the same name.                              *)
SharedMapOk(app) ==
  LET structs == OfKind(app, {"shared"})
  IN /\ cores(app) # 1 => \A s \in structs : "core" \in DOMAIN s.attr
     /\ \A s1, s2 \in structs : s1 # s2 => s1.body \cap s2.body = {}

AssumedCore(app, t) ==
  IF cores(app) = 1 THEN {0}
  ELSE {c \in {CoreOf(s) : s \in OfKind(app, {"shared"})} :
          shared(t) # {} /\ \A r \in shared(t) : Owners(app, r) = {c}}

AutoAssign(app) ==
  LET unplaced == {t \in OfKind(app, {"task", "sw_task", "idle"}) :
                     "core" \notin DOMAIN t.attr}
      assign_core(t) == [t EXCEPT !.attr =
                           With(@, "core", CHOOSE c \in AssumedCore(app, t) :
                                             TRUE)]
  IN IF SharedMapOk(app) /\ \A t \in unplaced : AssumedCore(app, t) # {}
     THEN Ok(Replace(app, unplaced, {assign_core(t) : t \in unplaced}))
     ELSE Err

-----------------------------------------------------------------------------
(* DeadlineToPriorityPass: a deadline becomes its rank among the deadlines *)
(* of all tasks of all cores, the shortest first; the tasks without one    *)
(* count as one more level and keep their attribute.                       *)
Deadline(app) ==
  LET tasks == OfKind(app, {"task", "sw_task"})
      timed == {t \in tasks : "deadline" \in DOMAIN t.attr}
      deadlines == {Get(t.attr, "deadline", U32_MAX) : t \in tasks}
      rank(d) == Cardinality({e \in deadlines : e <= d})
      to_priority(t) ==
        [t EXCEPT !.attr = With(Without(@, {"deadline"}),
                                "priority", rank(@["deadline"]))]
  IN IF \/ \E t \in tasks : "priority" \in DOMAIN t.attr
        \/ Cardinality(deadlines) > max_priority
     THEN Panic
     ELSE Ok(Replace(app, timed, {to_priority(t) : t \in timed}))

-----------------------------------------------------------------------------
(* The software-task passes.  `dispatchers` is a sequence of lists of      *)
(* interrupts, one per core; a flat array is one list, that of core 0.     *)
Dispatchers(app, c) ==
  LET lists == Get(app.args, "dispatchers", << >>)
  IN IF c < Len(lists) THEN lists[c + 1] ELSE << >>

AppParametersOk(app) ==
  /\ cores(app) # 0
  /\ Len(Get(app.args, "dispatchers", << >>)) \in {0, cores(app)}

(* TaskParams::from_attr, whose default priority is 0.                     *)
priority(t) == Get(t.attr, "priority", 0)
spawn_by(t) == Get(t.attr, "spawn_by", CoreOf(t))
capacity(t) == Get(t.attr, "capacity", 1)
IsCrossCore(t) == spawn_by(t) # CoreOf(t)

Priorities(tasks) == {priority(t) : t \in tasks}
PriorityGroup(tasks, p) == {t \in tasks : priority(t) = p}

check_disjoint_priorities(sw, mc) == Priorities(sw) \cap Priorities(mc) = {}

(* Mutant: two cores may spawn tasks of one priority.                      *)
check_no_spawn_by(mc) == TRUE

check_uniform_spawn_by(mc) ==
  \A t, u \in mc : priority(t) = priority(u) => spawn_by(t) = spawn_by(u)

(* The dispatcher of priority p: priorities in ascending order take the    *)
(* interrupts in the order of their declaration.                           *)
assign_dispatchers(priorities, irqs) ==
  [p \in priorities |-> irqs[Cardinality({q \in priorities : q <= p})]]

(* SubAnalysis::analyse_subapp: tasks are those of one core that need a    *)
(* dispatcher.                                                             *)
AnalysisOk(tasks, irqs) ==
  LET mc == {t \in tasks : IsCrossCore(t)}
  IN /\ check_disjoint_priorities(tasks \ mc, mc)
     /\ check_uniform_spawn_by(mc)
     /\ Cardinality(Priorities(tasks)) <= Len(irqs)

Names(items) == {i.name : i \in items}

(* into_task_attr: `sw_task` or `async_task` becomes `task`.               *)
IntoTask(t, task_trait) ==
  [t EXCEPT !.kind = "task",
            !.attr = With(Without(@, {"spawn_by", "capacity"}),
                          "task_trait", task_trait)]

(* generate_dispatcher_tasks and generate_idle_executor: what the pass     *)
(* adds for the tasks of core c.                                           *)
DispatcherTask(group, irq, p, c) ==
  [name |-> "Dispatcher", kind |-> "task", body |-> Names(group),
   attr |-> [binds |-> irq, priority |-> p, core |-> c,
             init |-> "generated"]]

IdleExecutor(tasks, c) ==
  [name |-> "IdleExecutor", kind |-> "idle", body |-> Names(tasks),
   attr |-> [core |-> c, init |-> "generated"]]

(* The pass for one kind of task; idle: those that need no dispatcher.     *)
(* It hands the arguments on without `dispatchers`.                        *)
Lower(app, kind, task_trait, idle) ==
  LET all == OfKind(app, {kind})
      waiting == all \ idle
      on(tasks, c) == {t \in tasks : CoreOf(t) = c}
      coreIds == 0 .. cores(app) - 1
      irqs(c) == assign_dispatchers(Priorities(on(waiting, c)),
                                    Dispatchers(app, c))
      generated == UNION {
        {DispatcherTask(PriorityGroup(on(waiting, c), p), irqs(c)[p], p, c) :
           p \in Priorities(on(waiting, c))}
        \cup IF on(idle, c) = {} THEN {}
             ELSE {IdleExecutor(on(idle, c), c)} : c \in coreIds}
      lowered == Replace(app, all,
                   {IntoTask(t, task_trait) : t \in all} \cup generated)
  IN IF /\ AppParametersOk(app)
        /\ \A t \in all : /\ CoreOf(t) \in coreIds
                          /\ spawn_by(t) \in coreIds
                          /\ capacity(t) # 0
                          /\ IsCrossCore(t) => HasCoreId
        /\ \A c \in coreIds : AnalysisOk(on(waiting, c), Dispatchers(app, c))
     THEN Ok([lowered EXCEPT !.args = Without(@, {"dispatchers"})])
     ELSE Err

Software(app) == Lower(app, "sw_task", "RticSwTask", {})

(* Async tasks of priority 0 run on the idle executor: the user may then   *)
(* have no #[idle], on any core, and no other core may spawn them.         *)
Async(app) ==
  LET prio0 == PriorityGroup(OfKind(app, {"async_task"}), 0)
  IN IF \/ prio0 # {} /\ OfKind(app, {"idle"}) # {}
        \/ \E t \in prio0 : IsCrossCore(t)
     THEN Err
     ELSE Lower(app, "async_task", "RticAsyncTask", prio0)

Passes == {"AutoAssign", "deadline_pass", "SoftwareTasks", "AsyncPass"}

run_pass(pass, app) ==
  CASE pass = "AutoAssign" -> AutoAssign(app)
    [] pass = "deadline_pass" -> Deadline(app)
    [] pass = "SoftwareTasks" -> Software(app)
    [] pass = "AsyncPass" -> Async(app)

-----------------------------------------------------------------------------
(* The core pass.  A core's sub-application is the items of each kind for  *)
(* that core; items for a core the application does not have belong to no  *)
(* sub-application.                                                        *)
SubApp(app, kinds, c) == {i \in OfKind(app, kinds) : CoreOf(i) = c}

Singular == {"init", "post_init", "shared", "idle"}

(* ensure_supported: an argument no pass has consumed is refused.          *)
supported(kind) ==
  IF kind \in {"task", "idle"}
  THEN {"binds", "priority", "shared", "core", "task_trait", "init"}
  ELSE {"core"}

Parse(app) ==
  IF /\ \A i \in OfKind(app, Singular \cup {"task"}) :
          DOMAIN i.attr \subseteq supported(i.kind)
     /\ \A i, j \in OfKind(app, Singular) :
          i.kind = j.kind /\ CoreOf(i) = CoreOf(j) => i = j
     /\ OfKind(app, {"init"}) # {}
     /\ \A c \in 0 .. cores(app) - 1 : SubApp(app, {"init"}, c) # {}
  THEN Ok(app)
  ELSE Err

(* update_resource_priorities: a resource a task names must be a field of  *)
(* its core's shared struct, if there is one.                              *)
Analyse(app) ==
  IF \A c \in 0 .. cores(app) - 1 :
       \A s \in SubApp(app, {"shared"}, c), t \in SubApp(app, {"task"}, c) :
         shared(t) \subseteq s.body
  THEN Ok(app)
  ELSE Err

used_irqs(app, c) == {binds(t) : t \in SubApp(app, {"task"}, c)} \ {"none"}

IsGenerated(i) == "init" \in DOMAIN i.attr

(* Mutant: the idle task is forgotten.                                     *)
late_tasks_only(app, c) ==
  {t \in SubApp(app, {"task"}, c) : ~ IsGenerated(t)}

(* The tasks the user's #[init] returns: every task, idle too, that the    *)
(* framework does not construct itself.                                    *)
late_resource_tasks(app, c) ==
  {t \in SubApp(app, {"task", "idle"}, c) : ~ IsGenerated(t)}

(* An exception without a configurable priority may not be a hardware task.*)
pre_codegen_validation(app) ==
  IF \A c \in 0 .. cores(app) - 1 :
       used_irqs(app, c) \cap NON_CONFIGURABLE_EXCEPTIONS = {}
  THEN Ok(app)
  ELSE Err

(* rustc, after the macro: every handler is one #[no_mangle] function and  *)
(* no attribute of a pass that is not bound may be left over.              *)
TypeChecks(app) ==
  LET tasks == UNION {SubApp(app, {"task"}, c) : c \in 0 .. cores(app) - 1}
  IN /\ OfKind(app, {"sw_task", "async_task"}) = {}
     /\ \A t, u \in tasks : binds(t) = binds(u) => t = u \/ binds(t) = "none"

-----------------------------------------------------------------------------
(* What rustc and syn see to before a pass looks at an application: the    *)
(* items of a module have different names, none of them that of an item    *)
(* the passes generate; an attribute's numbers are unsigned.               *)
WellFormed(app) ==
  /\ app = [args |-> app.args, items |-> app.items]
  /\ IsFiniteSet(app.items)
  /\ cores(app) \in Nat
  /\ Get(app.args, "dispatchers", << >>) \in Seq(Seq(STRING))
  /\ \A i, j \in app.items : i.name = j.name => i = j
  /\ \A i \in app.items :
       /\ i = [name |-> i.name, kind |-> i.kind, attr |-> i.attr, body |-> i.body]
       /\ i.name \notin {"Dispatcher", "IdleExecutor"}
       /\ i.kind \in Singular \cup {"task", "sw_task", "async_task"}
       /\ i.kind # "shared" => i.body = {}
       /\ \A key \in {"core", "spawn_by", "priority", "deadline"} :
            key \in DOMAIN i.attr => i.attr[key] \in Nat
=============================================================================
