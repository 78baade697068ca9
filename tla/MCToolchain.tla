---------------------------- MODULE MCToolchain -----------------------------
(***************************************************************************)
(* Families of small applications, each aimed at the decisions of some of  *)
(* the stages, that are built and booted; and a package with a binary and  *)
(* an example, the stem `app_two` beginning with `app_`, that is worked on *)
(* with rticx-expand.                                                      *)
(***************************************************************************)
EXTENDS Toolchain

Item(name, kind, attr) ==
  [name |-> name, kind |-> kind, attr |-> attr, body |-> {}]
Empty == << >>
Shared(name, attr, fields) ==
  [name |-> name, kind |-> "shared", attr |-> attr, body |-> fields]
Start(c) == Item("init" \o ToString(c), "init", [core |-> c])
App(args, items) == [args |-> args, items |-> items]
Src(app, bound) == [app |-> app, passes |-> bound]

TwoCores(lists) == [cores |-> 2, dispatchers |-> lists]
OneCore(irqs) == [dispatchers |-> irqs]

(* Two software or async tasks on two cores: who may spawn whom, which     *)
(* priorities meet, how many dispatchers there are.                        *)
SpawnAttrs == [core : {0, 1}, spawn_by : {0, 1}, priority : {0, 1, 2}]
FirstAttrs == [core : {0}, spawn_by : {0, 1}, priority : {0, 2}]
DispatcherLists == {<<>>, <<<<"A">>, <<"B">>>>, <<<<"A", "B">>, <<"C">>>>,
                    <<<<"A", "B">>>>}

SpawnApps ==
  {Src(App(TwoCores(d),
           {Start(0), Start(1), Item("x", k, a), Item("y", k, b)}),
       <<IF k = "sw_task" THEN "SoftwareTasks" ELSE "AsyncPass">>) :
     d \in DispatcherLists, k \in {"sw_task", "async_task"},
     a \in FirstAttrs, b \in SpawnAttrs}

(* Two tasks of core 0 that two other cores may spawn.                     *)
CrossAttrs == [core : {0}, spawn_by : {1, 2}, priority : {1, 2}]

CrossApps ==
  {Src(App([cores |-> 3, dispatchers |-> <<<<"A", "B">>, <<>>, <<>>>>],
           {Start(0), Start(1), Start(2),
            Item("x", "sw_task", a), Item("y", "sw_task", b)}),
       <<"SoftwareTasks">>) : a, b \in CrossAttrs}

(* One core: what an interrupt or the idle task finds initialised.         *)
Handlers == {[binds |-> "IRQ0", shared |-> {"r"}], [binds |-> "SysTick"],
             [binds |-> "HardFault"], [binds |-> "A"],
             [binds |-> "IRQ0", shared |-> {"q"}]}

BootApps ==
  {Src(App(OneCore(<<<<"A">>>>),
           {Start(0), Item("h", "task", h), Shared("sh", Empty, {"r"})}
           \cup {Item("x", k, p @@ [shared |-> {"r"}])} \cup idle),
       bound) :
     h \in Handlers, k \in {"sw_task", "async_task"},
     p \in {Empty, [priority |-> 2], [priority |-> 1, capacity |-> 0]},
     idle \in {{}, {Item("id", "idle", [shared |-> {"r"}])}},
     bound \in {<<>>, <<"SoftwareTasks">>, <<"AsyncPass">>,
                 <<"SoftwareTasks", "AsyncPass">>,
                 <<"SoftwareTasks", "SoftwareTasks">>}}

(* Two cores, each with its resources, and tasks to be placed.             *)
SharedStructs ==
  {{Shared("s0", [core |-> 0], {"r"}), Shared("s1", [core |-> 1], {"s"})},
   {Shared("s0", [core |-> 0], {"r"}), Shared("s1", [core |-> 1], {"r"})},
   {Shared("s0", Empty, {"r", "s"})}}

PlaceApps ==
  {Src(App(TwoCores(<<<<"A">>, <<"B">>>>),
           {Start(0), Start(1), Item("h", "task", c @@ [binds |-> "IRQ0",
                                                        shared |-> u]),
            Item("x", "sw_task", [shared |-> v])} \cup structs),
       <<"AutoAssign", "SoftwareTasks">>) :
     structs \in SharedStructs, c \in {Empty, [core |-> 0], [core |-> 1]},
     u \in SUBSET {"r", "s"}, v \in {{}, {"s"}, {"q"}}}

(* Deadlines of two hardware tasks and a software task.                    *)
Due == {Empty, [deadline |-> 5], [deadline |-> 9]}

DeadlineApps ==
  {Src(App(OneCore(<<<<"A">>>>),
           {Start(0), Item("h", "task", a @@ [binds |-> "IRQ0"]),
            Item("i", "task", b @@ [binds |-> "IRQ1"]),
            Item("x", "sw_task", c)}),
       bound) :
     a \in Due, b \in Due, c \in Due \cup {[priority |-> 1]},
     bound \in {<<"deadline_pass", "SoftwareTasks">>, <<"SoftwareTasks">>}}

(* What the core parser refuses, drops or lets pass.                       *)
ParserApps ==
  {Src(App([cores |-> n], inits \cup others), <<>>) :
     n \in {0, 1, 2},
     inits \in {{}, {Start(0)}, {Start(0), Start(1)},
                {Start(0), Item("again", "init", Empty)}},
     others \in {{}, {Item("h", "task", [core |-> 1, binds |-> "IRQ0"])},
                 {Item("a", "idle", Empty), Item("b", "idle", [core |-> 0])},
                 {Item("p", "post_init", Empty), Item("i", "idle", Empty)},
                 {Item("h", "task", [spawn_by |-> 0])}}}

(* Every order in which some of the passes may be bound, each once: tasks  *)
(* to be placed, ranked and lowered, on two cores.                         *)
Orders == {o \in UNION {[1 .. n -> Passes] : n \in 1 .. 4} :
             \A i, j \in DOMAIN o : o[i] = o[j] => i = j}

OrderApps ==
  {Src(App(TwoCores(<<<<"A", "B">>, <<"C">>>>),
           {Start(0), Start(1),
            Shared("s0", [core |-> 0], {"r"}), Shared("s1", [core |-> 1], {"s"}),
            Item("h", "task", [binds |-> "IRQ0", shared |-> {"r"}, deadline |-> 4]),
            Item("x", "sw_task", x), Item("y", "async_task", y)}),
       bound) :
     x \in {[core |-> 1, deadline |-> 3], [shared |-> {"s"}, deadline |-> 3]},
     y \in {Empty, [core |-> 1]}, bound \in Orders}

-----------------------------------------------------------------------------
(* The applications that are worked on, of a distribution that binds the   *)
(* deadline pass: one that is fine, one the pass panics at, one the        *)
(* software pass refuses, one without #[init].                             *)
Work(items) == Src(App(OneCore(<<<<"A">>>>), items),
                   <<"deadline_pass", "SoftwareTasks">>)
Fine == Work({Start(0), Item("h", "task", [binds |-> "IRQ0"])})
Fine2 == Work({Start(0), Item("x", "sw_task", [deadline |-> 3])})
Panics == Work({Start(0), Item("h", "task", [priority |-> 1])})
Refused == Work({Start(0), Item("x", "sw_task", [capacity |-> 0])})
NoInit == Work({Item("h", "task", [binds |-> "IRQ0"])})

MCBuilt == SpawnApps \cup CrossApps \cup BootApps \cup PlaceApps
           \cup DeadlineApps \cup ParserApps \cup OrderApps
MCTargets == {"app", "app_two"}
MCWorkbench == {Fine, Fine2, Panics, Refused, NoInit}
MCPackages ==
  {[t \in MCTargets |-> IF t = "app" THEN s ELSE Fine] :
     s \in MCBuilt \cup {Fine2}}
MCEdits == [t \in MCTargets |-> IF t = "app" THEN {Panics, Refused, NoInit}
                                ELSE {Fine2}]
MCStartsWith == [t \in MCTargets |-> IF t = "app" THEN MCTargets ELSE {t}]
=============================================================================
