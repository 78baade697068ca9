------------------------------ MODULE Pipeline ------------------------------
(***************************************************************************)
(* One expansion of the #[app] macro (rticx-core: lib.rs,                  *)
(* build_rtic_macro2): the passes in the order they were bound, then       *)
(* parsing, analysis, validation and code generation, with the info bus    *)
(* the passes publish on and, when rticx-expand asks for it, the files     *)
(* ExpandLog writes.                                                       *)
(***************************************************************************)
EXTENDS Boot

CONSTANTS
  Targets,  \* binaries of the package, by the stem of their source file
  NoSource

VARIABLES
  macro,       \* the running or last expansion
  expansions,  \* target -> content of <stem>_expanded.rs
  snapshots    \* the files in the pass directory

pipelineVars == <<macro, expansions, snapshots>>

(* The text of a file: the user's source s = [app, passes], an application *)
(* and the passes of its distribution; its expansion; or what an           *)
(* interrupted write leaves.  The macro and rticx-expand find no complete  *)
(* `#[..::app] mod` in the last two.                                       *)
Source(s) == [text |-> "source", of |-> s]
Expansion(s) == [text |-> "expansion", of |-> s]
Torn == [text |-> "torn", of |-> NoSource]
Absent == [text |-> "absent", of |-> NoSource]

NoMacro == [pc |-> "off"]
Finished == {"code", "failed", "panicked"}

PipelineInit ==
  /\ macro = NoMacro
  /\ expansions = [t \in Targets |-> Absent]
  /\ snapshots = {}

-----------------------------------------------------------------------------
Snapshot(s, index, stage, label) ==
  [index |-> index, stage |-> stage, label |-> label, of |-> s]

(* write_pass_state: the file is named by index and label.                 *)
WithSnapshot(m, index, stage, label) ==
  IF ~ m.pass_dir THEN snapshots
  ELSE {f \in snapshots : <<f.index, f.stage, f.label>>
                            # <<index, stage, label>>}
       \cup {Snapshot(m.of, index, stage, label)}

passes == macro.of.passes

(* InfoBus::publish: a key may be published once.                          *)
Published(pass) == {pass} \cap {"SoftwareTasks", "AsyncPass"}

-----------------------------------------------------------------------------
(* log: RTICX_EXPAND is set; pass_dir: RTICX_EXPAND_PASS_DIR too.          *)
Invoke(s, t, log, pass_dir) ==
  /\ macro' = [pc |-> "passes", of |-> s, target |-> t, log |-> log,
               pass_dir |-> pass_dir, app |-> s.app, done |-> 0,
               bus |-> {}]
  /\ snapshots' = WithSnapshot(macro', 0, "output", "original")
  /\ UNCHANGED expansions

Finish(pc) == macro' = [macro EXCEPT !.pc = pc]

(* The next pass: its output, its error with the input it received, or a   *)
(* panic of its own or of publish, which leaves no trace in a file.        *)
PassOutput(pass, result) ==
  /\ result.tag = "ok"
  /\ Published(pass) \cap macro.bus = {}
  /\ macro' = [macro EXCEPT !.app = result.app, !.done = @ + 1,
                            !.bus = @ \cup Published(pass)]
  /\ snapshots' = WithSnapshot(macro, macro.done + 1, "output", pass)

PassError(pass, result) ==
  /\ result.tag = "error"
  /\ Finish("failed")
  /\ snapshots' = WithSnapshot(macro, macro.done + 1, "input", pass)

PassPanic(pass, result) ==
  /\ \/ result.tag = "panic"
     \/ result.tag = "ok" /\ Published(pass) \cap macro.bus # {}
  /\ Finish("panicked")
  /\ UNCHANGED snapshots

RunPass ==
  /\ macro.pc = "passes" /\ macro.done < Len(passes)
  /\ LET pass == passes[macro.done + 1]
         result == run_pass(pass, macro.app)
     IN PassOutput(pass, result) \/ PassError(pass, result)
        \/ PassPanic(pass, result)
  /\ UNCHANGED expansions

(* App::parse of the core pass; its error is reported with the state the   *)
(* passes left.                                                            *)
ParseApp ==
  /\ macro.pc = "passes" /\ macro.done = Len(passes)
  /\ \/ /\ Parse(macro.app).tag = "ok"
        /\ Finish("analysis")
        /\ UNCHANGED snapshots
     \/ /\ Parse(macro.app).tag = "error"
        /\ Finish("failed")
        /\ snapshots' = WithSnapshot(macro, Len(passes) + 1, "input",
                                     "post_passes")
  /\ UNCHANGED expansions

(* Analysis::run and the backend's pre_codegen_validation: their errors    *)
(* are reported without a file.                                            *)
AnalyseApp ==
  /\ macro.pc = "analysis"
  /\ Finish(IF Analyse(macro.app).tag = "ok" THEN "validation" ELSE "failed")
  /\ UNCHANGED <<expansions, snapshots>>

ValidateApp ==
  /\ macro.pc = "validation"
  /\ Finish(IF pre_codegen_validation(macro.app).tag = "ok"
            THEN "codegen" ELSE "failed")
  /\ UNCHANGED <<expansions, snapshots>>

Generate ==
  /\ macro.pc = "codegen"
  /\ Finish("code")
  /\ expansions' = IF macro.log
                   THEN [expansions EXCEPT ![macro.target] =
                           Expansion(macro.of)]
                   ELSE expansions
  /\ snapshots' = WithSnapshot(macro, Len(passes) + 1, "output", "core")

PipelineNext == \/ RunPass \/ ParseApp \/ AnalyseApp \/ ValidateApp
                \/ Generate

-----------------------------------------------------------------------------
(* What the passes promise together, of an application that was accepted.  *)
Lowered(s) == CHOOSE t \in macro.app.items : t.name = s.name
Spawned == OfKind(macro.of.app, {"sw_task", "async_task"})
DispatchersOn(c) == {d \in SubApp(macro.app, {"task"}, c) : d.body # {}}

(* Every software or async task has one server on its core: a dispatcher   *)
(* of its priority, or the idle executor at async priority 0.              *)
SpawnedTasksAreServed ==
  \A s \in Spawned :
    LET t == Lowered(s)
        servers == {d \in SubApp(macro.app, {"task", "idle"}, CoreOf(t)) :
                      s.name \in d.body}
    IN /\ CoreOf(t) < cores(macro.app)
       /\ Cardinality(servers) = 1
       /\ \A d \in servers :
            IF d.kind = "idle"
            THEN s.kind = "async_task" /\ priority(t) = 0
            ELSE priority(d) = priority(t)

(* The ready queue of a dispatcher has its producers on one core.          *)
OneSpawnerPerDispatcher ==
  \A c \in 0 .. cores(macro.app) - 1 : \A d \in DispatchersOn(c) :
    \A s, u \in {s \in Spawned : s.name \in d.body} :
      Get(s.attr, "spawn_by", c) = Get(u.attr, "spawn_by", c)

(* A more urgent dispatcher has an interrupt that was declared later.      *)
DispatchersInOrder ==
  \A c \in 0 .. cores(macro.app) - 1 :
    LET irqs == Dispatchers(macro.of.app, c)
    IN \A d, e \in DispatchersOn(c) : priority(d) < priority(e) =>
         \E i, j \in DOMAIN irqs : /\ i < j
                                   /\ irqs[i] = binds(d) /\ irqs[j] = binds(e)

(* A task auto-assign placed is on the core that owns what it shares.      *)
PlacedWithItsResources ==
  \A s \in OfKind(macro.of.app, {"task", "sw_task", "idle"}) :
    "core" \notin DOMAIN s.attr =>
      \A r \in shared(s) : \A f \in OfKind(macro.app, {"shared"}) :
        r \in f.body /\ CoreOf(f) < cores(macro.app) =>
          CoreOf(f) = CoreOf(Lowered(s))

(* Deadlines keep their order as priorities, the shortest at 1.            *)
DeadlinesRanked ==
  \A s, u \in {s \in macro.of.app.items :
                 "deadline" \in DOMAIN s.attr} :
    s.attr["deadline"] < u.attr["deadline"]
      <=> priority(Lowered(s)) < priority(Lowered(u))

(* No pass that places or ranks tasks is bound after one that lowers them. *)
(* Otherwise a lowered task may be moved away from its dispatcher, or get  *)
(* a priority that is not its dispatcher's.                                *)
DecidedBeforeLowered ==
  \A i, j \in DOMAIN passes :
    i < j /\ passes[i] \in {"SoftwareTasks", "AsyncPass"} =>
      passes[j] \in {"SoftwareTasks", "AsyncPass"}

(* When the passes and the core pass have accepted an application and      *)
(* rustc accepts the code, every task is where the run-time parts assume   *)
(* it: the promises above hold together, however each pass of a            *)
(* distribution rewrites what the next one reads.                          *)
EveryTaskHasItsPlace ==
  macro.pc = "code" /\ TypeChecks(macro.app) /\ DecidedBeforeLowered =>
    /\ SpawnedTasksAreServed
    /\ OneSpawnerPerDispatcher
    /\ DispatchersInOrder
    /\ "AutoAssign" \in {passes[i] : i \in DOMAIN passes} =>
         PlacedWithItsResources
    /\ DeadlinesRanked
=============================================================================
