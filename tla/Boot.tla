-------------------------------- MODULE Boot --------------------------------
(***************************************************************************)
(* The entry function of every core (rticx-core: codegen/mod.rs,           *)
(* generate_sub_app), statement by statement, and the interrupts that may  *)
(* come between them.  A static is <<"task", name>>, <<"slot", name>> (the *)
(* executor slot of an async task) or <<"shared", name>>.                  *)
(***************************************************************************)
EXTENDS FrontEnd

CONSTANTS
  NoImage,
  CONFIGURABLE_EXCEPTIONS

(* "none" stands for a task without `binds`.                               *)
ASSUME BootAssumption == "none" \notin NON_CONFIGURABLE_EXCEPTIONS

VARIABLES
  image,  \* the application the device runs, or NoImage
  chip    \* core -> the state of its entry function

bootVars == <<image, chip>>

CoreIds == 0 .. cores(image) - 1
Tasks(c) == SubApp(image, {"task"}, c)
IdleTask(c) == SubApp(image, {"idle"}, c)
AsyncTasks(c) ==
  {t \in Tasks(c) : Get(t.attr, "task_trait", "RticTask") = "RticAsyncTask"}

TaskStatics(tasks) == {<<"task", t.name>> : t \in tasks}
SharedStatic(c) == {<<"shared", s.name>> : s \in SubApp(image, {"shared"}, c)}

-----------------------------------------------------------------------------
Write(statics) == [do |-> "write", what |-> statics]
Unmask(irqs) == [do |-> "unmask", what |-> irqs]
Do(action) == [do |-> action, what |-> {}]

(* AsyncPass::main_injection(EntryStart): push_slot_inits of the core.     *)
entry_start(c) == <<Write({<<"slot", t.name>> : t \in AsyncTasks(c)})>>

(* task_init_call of the tasks the framework constructs.                   *)
generated_task_inits(c) ==
  <<Write(TaskStatics({t \in Tasks(c) : IsGenerated(t)}))>>

(* #[init] returns the shared resources and the TaskInits, which are       *)
(* written in this order.                                                  *)
init_system(c) ==
  <<Do("init"), Write(SharedStatic(c)),
    Write(TaskStatics(late_resource_tasks(image, c)))>>

(* generate_idle_call: a generated idle task is written where it is run.   *)
idle_call(c) ==
  <<Write(TaskStatics({i \in IdleTask(c) : IsGenerated(i)})), Do("idle")>>

(* The exceptions among the core's handlers: they are never unmasked, but  *)
(* #[init] may enable their sources, e.g. SysTick.                         *)
Exceptions(c) == used_irqs(image, c) \cap CONFIGURABLE_EXCEPTIONS

(* The backend's post_init.                                                *)
post_init(c) == <<Unmask(used_irqs(image, c) \ Exceptions(c))>>

EntryFunction(c) ==
  entry_start(c)
  \o <<Do("interrupts_off")>>
  \o init_system(c)
  \o generated_task_inits(c)
  \o post_init(c)
  \o <<Do("interrupts_on")>>
  \o idle_call(c)

-----------------------------------------------------------------------------
AtReset == [at |-> 1, written |-> {}, unmasked |-> {}, interrupts |-> TRUE]

BootInit == image = NoImage /\ chip = << >>

PowerOn(app) == image' = app /\ chip' = [c \in 0 .. cores(app) - 1 |-> AtReset]

(* One statement of the entry function of core c.                          *)
Perform(c, s) ==
  LET after == [chip[c] EXCEPT !.at = @ + 1]
  IN CASE s.do = "write" -> [after EXCEPT !.written = @ \cup s.what]
       [] s.do = "unmask" -> [after EXCEPT !.unmasked = @ \cup s.what]
       [] s.do = "init" -> [after EXCEPT !.unmasked = Exceptions(c)]
       [] s.do = "interrupts_off" -> [after EXCEPT !.interrupts = FALSE]
       [] s.do = "interrupts_on" -> [after EXCEPT !.interrupts = TRUE]
       [] s.do = "idle" -> after

Execute(c) ==
  /\ image # NoImage
  /\ chip[c].at <= Len(EntryFunction(c))
  /\ chip' = [chip EXCEPT ![c] =
                Perform(c, EntryFunction(c)[chip[c].at])]
  /\ UNCHANGED image

BootNext == image # NoImage /\ \E c \in CoreIds : Execute(c)

-----------------------------------------------------------------------------
(* The handlers that may run now: unmasked and not held off, or of an      *)
(* exception that nothing holds off.                                       *)
MayRun(c) == {t \in Tasks(c) :
  \/ binds(t) \in NON_CONFIGURABLE_EXCEPTIONS
  \/ chip[c].interrupts /\ binds(t) \in chip[c].unmasked}

(* The statics task t reads: its own, those of the tasks it dispatches or  *)
(* polls, their slots, and the shared struct if any of them uses it.       *)
Reads(c, t) ==
  LET served == {u \in Tasks(c) : u.name \in t.body}
  IN TaskStatics({t} \cup served)
     \cup {<<"slot", u.name>> : u \in served \cap AsyncTasks(c)}
     \cup IF \E u \in {t} \cup served : shared(u) # {}
          THEN SharedStatic(c) ELSE {}

(* A handler that an interrupt starts, or the idle task once it is called, *)
(* finds every static it assumes initialised written: rticx generates      *)
(* `assume_init_mut` on all of them, and the passes, the core pass and the *)
(* backend each write a part of them, in the entry function, or refuse the *)
(* application.                                                            *)
InitialisedBeforeUse ==
  image # NoImage => \A c \in CoreIds :
    /\ \A t \in MayRun(c) : Reads(c, t) \subseteq chip[c].written
    /\ chip[c].at > Len(EntryFunction(c)) =>
         \A t \in IdleTask(c) : Reads(c, t) \subseteq chip[c].written
=============================================================================
