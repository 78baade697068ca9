----------------------------- MODULE Toolchain ------------------------------
(***************************************************************************)
(* A developer's package with a few binaries: cargo builds it and a device *)
(* boots it, or rticx-expand (tools/rticx-expand: flow.rs) shows what the  *)
(* macro makes of it, merges that into the source and restores the source. *)
(* rticx-expand may be interrupted between any two steps, and in the       *)
(* middle of writing a file.                                               *)
(***************************************************************************)
EXTENDS Pipeline

CONSTANTS
  Examples,      \* the Targets that are examples; the others are binaries
  None,          \* an option that is not given
  Packages,      \* target -> application: what a checkout may hold
  Workbench,     \* bound: the applications that are worked on; the others
                 \* are built and run
  Edits,         \* target -> applications the developer may turn to
  StartsWith,    \* target -> the targets whose stem begins with "<stem>_",
                 \* or is the same: collect_expansion_files finds them
  MaxCalls,      \* bound: invocations of rticx-expand
  MaxEdits,      \* bound: edits of a source file
  MaxInterrupts  \* bound: interrupted invocations

VARIABLES
  files,    \* target -> content of its source file
  backups,  \* target -> content of <file>.old
  latest,   \* target -> the application the developer wrote last
  tool,     \* the running rticx-expand
  count     \* what the bounds count

toolVars == <<files, backups, latest, tool, count>>
vars == <<toolVars, pipelineVars, bootVars>>

NoTool == [pc |-> "off"]

(* What may be in a source file, of a checkout or of the developer's.      *)
Sources == (UNION {{p[t] : t \in Targets} : p \in Packages})
           \cup (UNION {Edits[t] : t \in Targets})

ASSUME ToolchainAssumption ==
  /\ StartsWith \in [Targets -> SUBSET Targets]
  /\ \A t \in Targets : t \in StartsWith[t]
  /\ Examples \subseteq Targets /\ None \notin Targets
  /\ Edits \in [Targets -> SUBSET Workbench]
  /\ \A p \in Packages : p = [t \in Targets |-> p[t]]
  /\ \A s \in Sources : WellFormed(s.app) /\ s.passes \in Seq(Passes)

Init ==
  /\ PipelineInit /\ BootInit
  /\ latest \in Packages
  /\ files = [t \in Targets |-> Source(latest[t])]
  /\ backups = [t \in Targets |-> Absent]
  /\ tool = NoTool
  /\ count = [calls |-> 0, edits |-> 0, interrupts |-> 0]

-----------------------------------------------------------------------------
(* The developer.                                                          *)
Build(t) ==
  /\ latest[t] \notin Workbench /\ macro = NoMacro
  /\ Invoke(files[t].of, t, FALSE, FALSE)
  /\ UNCHANGED <<toolVars, bootVars>>

Flash ==
  /\ macro.pc = "code" /\ ~ macro.log /\ image = NoImage
  /\ TypeChecks(macro.app)
  /\ PowerOn(macro.app)
  /\ UNCHANGED <<toolVars, pipelineVars>>

WorkedOn == \A t \in Targets : latest[t] \in Workbench

(* The developer may save a file while cargo check runs and the output is  *)
(* formatted, not in the moment in which rticx-expand rewrites it.         *)
Edit(t, s) ==
  /\ tool.pc \in {"off", "check", "macro", "collect", "beautify"}
  /\ WorkedOn /\ count.edits < MaxEdits
  /\ files' = [files EXCEPT ![t] = Source(s)]
  /\ latest' = [latest EXCEPT ![t] = s]
  /\ count' = [count EXCEPT !.edits = @ + 1]
  /\ UNCHANGED <<backups, tool, pipelineVars, bootVars>>

Call ==
  /\ WorkedOn /\ tool = NoTool /\ count.calls < MaxCalls
  /\ count' = [count EXCEPT !.calls = @ + 1]

-----------------------------------------------------------------------------
(* Mutant: the snapshots of the last run stay.                             *)
keep_pass_snapshots == snapshots

(* clean_pass_snapshots                                                    *)
clean_pass_snapshots == {}

(* resolve_target: the target named, or else the only binary, or the only  *)
(* example of a package without binaries.                                  *)
resolve_target(bin, example) ==
  LET bins == Targets \ Examples
      only(S) == IF Cardinality(S) = 1 THEN S ELSE {}
  IN CASE bin # None -> {bin} \cap bins
       [] bin = None /\ example # None -> {example} \cap Examples
       [] OTHER -> IF bins # {} THEN only(bins) ELSE only(Examples)

(* expand, up to the call of cargo check.  `cargo clean -p` does not touch *)
(* the expansion directory.                                                *)
Expand(t, merge, force, pass_dir) ==
  /\ Call
  /\ files[t] # Absent
  /\ tool' = [pc |-> "check", target |-> t, merge |-> merge,
              force |-> force, pass_dir |-> pass_dir, todo |-> {}]
  /\ macro' = NoMacro
  /\ snapshots' = IF pass_dir THEN clean_pass_snapshots ELSE snapshots
  /\ UNCHANGED <<files, backups, latest, expansions, bootVars>>

(* Mutant: an expanded file is spliced once more.                          *)
HasAnyModule(f) == f.text \in {"source", "expansion"}

(* detect::find_app_items finds the `#[..::app] mod`.                      *)
HasAppItem(f) == f.text = "source"

At(pc) == tool' = [tool EXCEPT !.pc = pc]

(* run_check: the compiler gets to the macro, or fails before it, or finds *)
(* none.  Whether the check succeeds changes nothing but messages.         *)
CargoCheck ==
  /\ tool.pc = "check"
  /\ \/ /\ files[tool.target].text = "source"
        /\ At("macro")
        /\ Invoke(files[tool.target].of, tool.target, TRUE, tool.pass_dir)
     \/ At("collect") /\ UNCHANGED pipelineVars
  /\ UNCHANGED <<files, backups, latest, count, bootVars>>

CheckReturns ==
  /\ tool.pc = "macro" /\ macro.pc \in Finished
  /\ At("collect")
  /\ UNCHANGED <<files, backups, latest, count, pipelineVars, bootVars>>

(* collect_expansion_files, and the end of the call if there are none.     *)
Collected == {u \in StartsWith[tool.target] : expansions[u] # Absent}

Collect ==
  /\ tool.pc = "collect"
  /\ tool' = IF Collected = {} THEN NoTool
             ELSE [tool EXCEPT !.pc = "beautify", !.todo = Collected]
  /\ UNCHANGED <<files, backups, latest, count, pipelineVars, bootVars>>

(* Every file collected is written again, beautified.                      *)
Beautify ==
  /\ tool.pc = "beautify" /\ tool.todo # {}
  /\ \E u \in tool.todo : tool' = [tool EXCEPT !.todo = @ \ {u}]
  /\ UNCHANGED <<files, backups, latest, count, pipelineVars, bootVars>>

(* Mutant: any full expansion will do.                                     *)
AnyExpansion == IF Collected \ {tool.target} # {}
                THEN Collected \ {tool.target} ELSE Collected

(* The full expansion: the target's, else the only one.                    *)
FullExpansion ==
  IF tool.target \in Collected THEN {tool.target}
  ELSE IF Cardinality(Collected) = 1 THEN Collected ELSE {}

(* resolve_app_file: the target's file if it has the app, else the file    *)
(* the expansion is named after.                                           *)
AppFile(full) == IF HasAppItem(files[tool.target]) THEN tool.target ELSE full

(* merge_into up to its first write; every refusal ends the call.          *)
MayMerge(full) ==
  /\ tool.merge
  /\ HasAppItem(files[AppFile(full)])
  /\ tool.force \/ backups[AppFile(full)] = Absent

Choose ==
  /\ tool.pc = "beautify" /\ tool.todo = {}
  /\ \/ /\ \A full \in FullExpansion : ~ MayMerge(full)
        /\ tool' = NoTool
     \/ \E full \in FullExpansion :
          /\ MayMerge(full)
          /\ tool' = [pc |-> "backup", pass_dir |-> FALSE,
                      file |-> AppFile(full), text |-> expansions[full]]
  /\ UNCHANGED <<files, backups, latest, count, pipelineVars, bootVars>>

WriteBackup ==
  /\ tool.pc = "backup"
  /\ backups' = [backups EXCEPT ![tool.file] = files[tool.file]]
  /\ At("merge")
  /\ UNCHANGED <<files, latest, count, pipelineVars, bootVars>>

WriteMerged ==
  /\ tool.pc = "merge"
  /\ files' = [files EXCEPT ![tool.file] = tool.text]
  /\ tool' = NoTool
  /\ UNCHANGED <<backups, latest, count, pipelineVars, bootVars>>

-----------------------------------------------------------------------------
(* restore, with --file or for the only backup of the package: the file is *)
(* removed, the backup renamed, and the expansions perhaps deleted.        *)
BackedUp == {t \in Targets : backups[t] # Absent}

RemoveFile(t, named, remove_expansions) ==
  /\ t \in BackedUp /\ (named \/ BackedUp = {t})
  /\ Call
  /\ files' = [files EXCEPT ![t] = Absent]
  /\ tool' = [pc |-> "rename", pass_dir |-> FALSE, file |-> t,
              remove |-> remove_expansions]
  /\ UNCHANGED <<backups, latest, pipelineVars, bootVars>>

RenameBackup ==
  /\ tool.pc = "rename"
  /\ files' = [files EXCEPT ![tool.file] = backups[tool.file]]
  /\ backups' = [backups EXCEPT ![tool.file] = Absent]
  /\ tool' = IF tool.remove THEN [tool EXCEPT !.pc = "remove_expansions"]
             ELSE NoTool
  /\ UNCHANGED <<latest, count, pipelineVars, bootVars>>

RemoveExpansions ==
  /\ tool.pc = "remove_expansions"
  /\ expansions' = [t \in Targets |-> Absent]
  /\ tool' = NoTool
  /\ UNCHANGED <<files, backups, latest, count, macro, snapshots, bootVars>>

-----------------------------------------------------------------------------
(* Ctrl-C: rticx-expand and cargo end.  std::fs::write truncates first, so *)
(* the file being written may be left torn.                                *)
InterruptedWrite ==
  \/ UNCHANGED <<files, backups, expansions>>
  \/ /\ tool.pc = "backup"
     /\ backups' = [backups EXCEPT ![tool.file] = Torn]
     /\ UNCHANGED <<files, expansions>>
  \/ /\ tool.pc = "merge"
     /\ files' = [files EXCEPT ![tool.file] = Torn]
     /\ UNCHANGED <<backups, expansions>>
  \/ /\ tool.pc = "beautify" /\ \E u \in tool.todo :
          expansions' = [expansions EXCEPT ![u] = Torn]
     /\ UNCHANGED <<files, backups>>
  \/ /\ tool.pc = "macro" /\ macro.pc = "codegen"
     /\ expansions' = [expansions EXCEPT ![tool.target] = Torn]
     /\ UNCHANGED <<files, backups>>

Interrupt ==
  /\ tool # NoTool /\ count.interrupts < MaxInterrupts
  /\ InterruptedWrite
  /\ tool' = NoTool
  /\ macro' = NoMacro
  /\ count' = [count EXCEPT !.interrupts = @ + 1]
  /\ UNCHANGED <<latest, snapshots, bootVars>>

Macro ==
  /\ PipelineNext
  /\ UNCHANGED <<toolVars, bootVars>>

Device ==
  /\ BootNext
  /\ UNCHANGED <<toolVars, pipelineVars>>

Next ==
  \/ \E t \in Targets : Build(t) \/ \E s \in Edits[t] : Edit(t, s)
  \/ Flash \/ Macro \/ Device
  \/ \E bin, example \in Targets \cup {None} :
       \E t \in resolve_target(bin, example) :
         \E merge, force, pass_dir \in BOOLEAN :
           Expand(t, merge, force, pass_dir)
  \/ CargoCheck \/ CheckReturns \/ Collect \/ Beautify \/ Choose
  \/ WriteBackup \/ WriteMerged
  \/ \E t \in Targets, named, remove_expansions \in BOOLEAN :
       RemoveFile(t, named, remove_expansions)
  \/ RenameBackup \/ RemoveExpansions
  \/ Interrupt

Spec == Init /\ [][Next]_vars

-----------------------------------------------------------------------------
(* The text the developer wrote last is whole in the file or in its        *)
(* backup.  No expansion, forced or not, whatever expansions lie about and *)
(* whenever it is interrupted, ends that; only a restore does, of a backup *)
(* that is torn or older than the file it removes.                         *)
Whole(t) == Source(latest[t]) \in {files[t], backups[t]}

SourceSurvives ==
  [][\A t \in Targets : Whole(t) /\ ~ Whole(t)' =>
       tool'.pc = "rename" /\ tool'.file = t]_vars

(* What becomes of a file in a merge.  If this call's macro generated code *)
(* it is that code, in the file it was generated from: neither an          *)
(* expansion that an earlier call left nor that of another binary whose    *)
(* stem begins alike takes its place.  If the macro failed or panicked, or *)
(* the compiler did not get to it, it is what an earlier call left under   *)
(* the file's stem or one that begins alike, and nothing else.             *)
Merged(t) ==
  /\ files'[t] # files[t]
  /\ WriteMerged \/ files'[t].text = "expansion"

FreshMerge ==
  [][\A t \in Targets : Merged(t) =>
       IF macro.pc = "code"
       THEN t = macro.target /\ files'[t] = Expansion(macro.of)
       ELSE \E u \in StartsWith[t] : files'[t] = expansions[u]]_vars

(* Once the check of a call with --expand-passes is over, the directory    *)
(* holds that run and nothing else: one snapshot per stage reached, in the *)
(* order of their numbers and all of one application; the last one is the  *)
(* generated code if there is any, or the input of the stage that refused  *)
(* it.                                                                     *)
SnapshotsTellTheRun ==
  /\ tool.pc \in {"collect", "beautify"} /\ tool.pass_dir
  /\ macro # NoMacro
  => LET last == Cardinality(snapshots) - 1
         at(i) == {f \in snapshots : f.index = i}
     IN /\ \A i \in 0 .. last : Cardinality(at(i)) = 1
        /\ \A f \in snapshots :
             /\ f.of = macro.of
             /\ f.stage = "input" => f.index = last /\ macro.pc = "failed"
             /\ f.label = "core" <=> macro.pc = "code" /\ f.index = last
             /\ f.index \in 1 .. macro.done => f.label = passes[f.index]
        /\ macro.pc = "failed" /\ macro.done < Len(passes) =>
             \E f \in at(last) : /\ f.stage = "input"
                                 /\ f.label = passes[macro.done + 1]
=============================================================================
