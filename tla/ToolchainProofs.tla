-------------------------- MODULE ToolchainProofs --------------------------
(***************************************************************************)
(* Toolchain for every package, whatever its targets, applications and     *)
(* passes, and for any number of calls, edits and interrupts: the text of  *)
(* the developer is never lost by an expansion, what is merged is what     *)
(* this run of the macro generated from this file, or, if it generated     *)
(* nothing, what an earlier one left under its stem, and the snapshots     *)
(* tell the run; a booting core reads nothing it has not written; and in an     *)
(* accepted application every task has its place.                          *)
(***************************************************************************)
EXTENDS Toolchain, FunctionTheorems, SequenceTheorems, FiniteSetTheorems, TLAPS

-----------------------------------------------------------------------------
(* The inductive invariant.                                                *)

(* What is on disk, one entry per target.  The full macro expansions and   *)
(* the backups never hold what the other of the two is for.                *)
DiskOK ==
  /\ files = [t \in Targets |-> files[t]]
  /\ backups = [t \in Targets |-> backups[t]]
  /\ latest = [t \in Targets |-> latest[t]]
  /\ expansions = [t \in Targets |-> expansions[t]]
  /\ \A t \in Targets : expansions[t].text # "source"
  /\ \A t \in Targets : backups[t].text # "expansion"

Checking == {"check", "macro", "collect", "beautify"}

(* The locals of rticx-expand at each of its steps.                        *)
ToolOK ==
  \/ tool = NoTool
  \/ /\ {"pc", "target"} \subseteq DOMAIN tool
     /\ tool = [k \in DOMAIN tool |-> tool[k]]
     /\ tool.pc \in Checking /\ tool.target \in Targets
  \/ /\ {"pc", "file", "text"} \subseteq DOMAIN tool
     /\ tool = [k \in DOMAIN tool |-> tool[k]]
     /\ tool.pc \in {"backup", "merge"} /\ tool.file \in Targets
     /\ tool.text.text # "source"
  \/ /\ {"pc", "file", "remove"} \subseteq DOMAIN tool
     /\ tool = [k \in DOMAIN tool |-> tool[k]]
     /\ tool.pc \in {"rename", "remove_expansions"} /\ tool.file \in Targets

(* Where the developer's text is while the tool replaces a file.           *)
TextIsSafe ==
  /\ \A t \in Targets :
       Whole(t) /\ files[t].text = "source" => files[t] = Source(latest[t])
  /\ tool.pc = "backup" => files[tool.file].text = "source"
  /\ tool.pc = "merge" /\ Whole(tool.file) =>
       backups[tool.file] = Source(latest[tool.file])
  /\ tool.pc = "rename" => files[tool.file] = Absent

IInv == DiskOK /\ ToolOK /\ TextIsSafe

-----------------------------------------------------------------------------
LEMMA Texts ==
  /\ \A s : Source(s).text = "source"
  /\ \A s : Expansion(s).text = "expansion"
  /\ Torn.text = "torn" /\ Absent.text = "absent"
  BY DEF Source, Expansion, Torn, Absent

LEMMA InitIInv == Init => IInv
<1> SUFFICES ASSUME Init PROVE IInv
  OBVIOUS
<1>1. DiskOK
  BY Texts, ToolchainAssumption DEF Init, PipelineInit, DiskOK
<1>2. ToolOK /\ TextIsSafe
  BY DEF Init, ToolOK, TextIsSafe, NoTool
<1>3. QED
  BY <1>1, <1>2 DEF IInv

(* What a step keeps that changes nothing of the developer's or the tool's *)
LEMMA ToolIdle ==
  ASSUME IInv, UNCHANGED toolVars, DiskOK'
  PROVE  IInv'
  BY DEF IInv, toolVars, ToolOK, TextIsSafe, Whole

LEMMA MacroStep ==
  ASSUME IInv, Macro
  PROVE  IInv'
<1>1. DiskOK'
  <2>1. UNCHANGED <<files, backups, latest>>
    BY DEF Macro, toolVars
  <2>2. \/ UNCHANGED expansions
        \/ expansions' = [expansions EXCEPT ![macro.target] =
                            Expansion(macro.of)]
    BY DEF Macro, PipelineNext, RunPass, ParseApp, AnalyseApp, ValidateApp,
           Generate
  <2>3. QED
    BY <2>1, <2>2, Texts DEF IInv, DiskOK
<1>2. QED
  BY <1>1, ToolIdle DEF Macro

LEMMA OutsideStep ==
  ASSUME IInv,
         (\E t \in Targets : Build(t)) \/ Flash \/ Device \/ UNCHANGED vars
  PROVE  IInv'
<1>1. UNCHANGED toolVars /\ UNCHANGED expansions
  BY DEF Build, Invoke, Flash, Device, vars, pipelineVars
<1>2. DiskOK'
  BY <1>1 DEF IInv, DiskOK, toolVars
<1>3. QED
  BY <1>1, <1>2, ToolIdle

LEMMA EditStep ==
  ASSUME IInv, NEW t \in Targets, NEW s \in Edits[t], Edit(t, s)
  PROVE  IInv'
<1>1. /\ files' = [files EXCEPT ![t] = Source(s)]
      /\ latest' = [latest EXCEPT ![t] = s]
      /\ UNCHANGED <<backups, tool, expansions>>
      /\ tool.pc \in Checking \cup {"off"}
  BY DEF Edit, pipelineVars, Checking
<1>2. DiskOK'
  BY <1>1 DEF IInv, DiskOK
<1>3. ToolOK'
  BY <1>1 DEF IInv, ToolOK
<1>4. TextIsSafe'
  <2>1. ASSUME NEW u \in Targets, Whole(u)', files'[u].text = "source"
        PROVE  files'[u] = Source(latest'[u])
    BY <1>1, <2>1 DEF IInv, DiskOK, TextIsSafe, Whole
  <2>2. tool'.pc \notin {"backup", "merge", "rename"}
    BY <1>1 DEF Checking
  <2>3. QED
    BY <2>1, <2>2 DEF TextIsSafe
<1>5. QED
  BY <1>2, <1>3, <1>4 DEF IInv

(* Calls begin, the check runs and its output is formatted: only the tool  *)
(* itself moves on.                                                        *)
CheckStep ==
  \/ \E t \in Targets : \E merge, force, pass_dir \in BOOLEAN :
       Expand(t, merge, force, pass_dir)
  \/ CargoCheck \/ CheckReturns \/ Collect \/ Beautify

LEMMA CheckStepKeeps ==
  ASSUME IInv, CheckStep
  PROVE  /\ UNCHANGED <<files, backups, latest, expansions>>
         /\ ToolOK' /\ tool'.pc \in Checking \cup {"off"}
<1>1. UNCHANGED <<files, backups, latest, expansions>>
  BY DEF CheckStep, Expand, CargoCheck, CheckReturns, Collect, Beautify,
         Invoke, pipelineVars
<1> SUFFICES ToolOK' /\ tool'.pc \in Checking \cup {"off"}
  BY <1>1
<1>2. CASE \E t \in Targets : \E merge, force, pass_dir \in BOOLEAN :
             Expand(t, merge, force, pass_dir)
  BY <1>2 DEF Expand, ToolOK, Checking
<1>3. CASE CargoCheck \/ CheckReturns
  <2>1. /\ \/ tool' = [tool EXCEPT !.pc = "macro"]
           \/ tool' = [tool EXCEPT !.pc = "collect"]
        /\ tool.pc \in {"check", "macro"}
    BY <1>3 DEF CargoCheck, CheckReturns, At
  <2>2. QED
    BY <2>1 DEF IInv, ToolOK, NoTool, Checking
<1>4. CASE Collect
  <2>1. /\ tool.pc = "collect"
        /\ \/ tool' = NoTool
           \/ tool' = [tool EXCEPT !.pc = "beautify", !.todo = Collected]
    BY <1>4 DEF Collect
  <2>2. {"pc", "target"} \subseteq DOMAIN tool /\ tool.target \in Targets
    BY <2>1 DEF IInv, ToolOK, NoTool, Checking
  <2>3. CASE tool' = NoTool
    BY <2>3 DEF ToolOK, NoTool
  <2>4. CASE tool' = [tool EXCEPT !.pc = "beautify", !.todo = Collected]
    <3>1. /\ tool'.pc = "beautify" /\ tool'.target = tool.target
          /\ DOMAIN tool' = DOMAIN tool
          /\ tool' = [k \in DOMAIN tool' |-> tool'[k]]
      BY <2>2, <2>4
    <3>2. QED
      BY <2>2, <3>1 DEF ToolOK, Checking
  <2>5. QED
    BY <2>1, <2>3, <2>4
<1>5. CASE Beautify
  <2>1. PICK u : tool' = [tool EXCEPT !.todo = tool.todo \ {u}]
    BY <1>5 DEF Beautify
  <2>2. tool.pc = "beautify"
    BY <1>5 DEF Beautify
  <2>3. QED
    BY <2>1, <2>2 DEF IInv, ToolOK, NoTool, Checking
<1>6. QED
  BY <1>1, <1>2, <1>3, <1>4, <1>5 DEF CheckStep

LEMMA CheckStepStep ==
  ASSUME IInv, CheckStep
  PROVE  IInv'
<1>1. /\ UNCHANGED <<files, backups, latest, expansions>>
      /\ ToolOK' /\ tool'.pc \in Checking \cup {"off"}
  BY CheckStepKeeps
<1>2. DiskOK'
  BY <1>1 DEF IInv, DiskOK
<1>3. TextIsSafe'
  BY <1>1 DEF IInv, TextIsSafe, Whole, Checking
<1>4. QED
  BY <1>1, <1>2, <1>3 DEF IInv

(* The choice of the file to merge into, and of the expansion.             *)
LEMMA ChooseFacts ==
  ASSUME IInv, Choose
  PROVE  \/ tool' = NoTool
         \/ \E full \in FullExpansion :
              /\ tool' = [pc |-> "backup", pass_dir |-> FALSE,
                          file |-> AppFile(full), text |-> expansions[full]]
              /\ full \in Targets /\ AppFile(full) \in Targets
              /\ files[AppFile(full)].text = "source"
<1>1. SUFFICES ASSUME tool' # NoTool
               PROVE  \E full \in FullExpansion :
                        /\ tool' = [pc |-> "backup", pass_dir |-> FALSE,
                                    file |-> AppFile(full),
                                    text |-> expansions[full]]
                        /\ full \in Targets /\ AppFile(full) \in Targets
                        /\ files[AppFile(full)].text = "source"
  OBVIOUS
<1>2. PICK full \in FullExpansion :
        /\ MayMerge(full)
        /\ tool' = [pc |-> "backup", pass_dir |-> FALSE,
                    file |-> AppFile(full), text |-> expansions[full]]
  BY <1>1 DEF Choose
<1>3. tool.target \in Targets
  BY DEF Choose, IInv, ToolOK, NoTool
<1>4. full \in Targets
  <2>1. Collected \subseteq Targets
    BY <1>3, ToolchainAssumption DEF Collected
  <2>2. QED
    BY <1>2, <1>3, <2>1 DEF FullExpansion
<1>5. AppFile(full) \in Targets
  BY <1>3, <1>4 DEF AppFile
<1>6. files[AppFile(full)].text = "source"
  BY <1>2 DEF MayMerge, HasAppItem
<1>7. QED
  BY <1>2, <1>4, <1>5, <1>6

LEMMA ChooseStep ==
  ASSUME IInv, Choose
  PROVE  IInv'
<1>1. UNCHANGED <<files, backups, latest, expansions>>
  BY DEF Choose, pipelineVars
<1>2. DiskOK'
  BY <1>1 DEF IInv, DiskOK
<1>3. CASE tool' = NoTool
  BY <1>1, <1>2, <1>3 DEF IInv, ToolOK, TextIsSafe, Whole, NoTool
<1>4. CASE tool' # NoTool
  <2>1. PICK full \in FullExpansion :
          /\ tool' = [pc |-> "backup", pass_dir |-> FALSE,
                      file |-> AppFile(full), text |-> expansions[full]]
          /\ full \in Targets /\ AppFile(full) \in Targets
          /\ files[AppFile(full)].text = "source"
    BY <1>4, ChooseFacts
  <2>2. ToolOK'
    BY <2>1 DEF IInv, DiskOK, ToolOK
  <2>3. TextIsSafe'
    BY <1>1, <2>1 DEF IInv, TextIsSafe, Whole
  <2>4. QED
    BY <1>2, <2>2, <2>3 DEF IInv
<1>5. QED
  BY <1>3, <1>4

LEMMA WriteBackupStep ==
  ASSUME IInv, WriteBackup
  PROVE  IInv'
<1>1. /\ tool.pc = "backup" /\ tool' = [tool EXCEPT !.pc = "merge"]
      /\ backups' = [backups EXCEPT ![tool.file] = files[tool.file]]
      /\ UNCHANGED <<files, latest, expansions>>
  BY DEF WriteBackup, At, pipelineVars
<1>2. /\ {"pc", "file", "text"} \subseteq DOMAIN tool
      /\ tool.file \in Targets /\ tool.text.text # "source"
  BY <1>1 DEF IInv, ToolOK, NoTool, Checking
<1>3. /\ tool'.pc = "merge" /\ tool'.file = tool.file /\ tool'.text = tool.text
      /\ DOMAIN tool' = DOMAIN tool
      /\ tool' = [k \in DOMAIN tool' |-> tool'[k]]
  BY <1>1, <1>2
<1>4. files[tool.file].text = "source"
  BY <1>1 DEF IInv, TextIsSafe
<1>5. DiskOK'
  BY <1>1, <1>2, <1>4 DEF IInv, DiskOK
<1>6. ToolOK'
  BY <1>2, <1>3 DEF ToolOK
<1>7. TextIsSafe'
  BY <1>1, <1>2, <1>3, <1>4 DEF IInv, DiskOK, TextIsSafe, Whole
<1>8. QED
  BY <1>5, <1>6, <1>7 DEF IInv

LEMMA WriteMergedStep ==
  ASSUME IInv, WriteMerged
  PROVE  IInv'
<1>1. /\ tool.pc = "merge" /\ tool' = NoTool
      /\ files' = [files EXCEPT ![tool.file] = tool.text]
      /\ UNCHANGED <<backups, latest, expansions>>
  BY DEF WriteMerged, pipelineVars
<1>2. tool.file \in Targets /\ tool.text.text # "source"
  BY <1>1 DEF IInv, ToolOK, NoTool, Checking
<1>3. DiskOK'
  BY <1>1, <1>2 DEF IInv, DiskOK
<1>4. TextIsSafe'
  BY <1>1, <1>2, Texts DEF IInv, DiskOK, TextIsSafe, Whole, NoTool
<1>5. QED
  BY <1>1, <1>3, <1>4 DEF IInv, ToolOK

LEMMA RemoveFileStep ==
  ASSUME IInv, NEW t \in Targets, NEW named, NEW remove,
         RemoveFile(t, named, remove)
  PROVE  IInv'
<1>1. /\ files' = [files EXCEPT ![t] = Absent]
      /\ tool' = [pc |-> "rename", pass_dir |-> FALSE, file |-> t,
                  remove |-> remove]
      /\ UNCHANGED <<backups, latest, expansions>>
  BY DEF RemoveFile, pipelineVars
<1>2. DiskOK'
  BY <1>1 DEF IInv, DiskOK
<1>3. ToolOK'
  BY <1>1 DEF ToolOK
<1>4. TextIsSafe'
  BY <1>1, Texts DEF IInv, DiskOK, TextIsSafe, Whole
<1>5. QED
  BY <1>2, <1>3, <1>4 DEF IInv

LEMMA RenameBackupStep ==
  ASSUME IInv, RenameBackup
  PROVE  IInv'
<1>1. /\ tool.pc = "rename"
      /\ files' = [files EXCEPT ![tool.file] = backups[tool.file]]
      /\ backups' = [backups EXCEPT ![tool.file] = Absent]
      /\ tool' = NoTool \/ tool' = [tool EXCEPT !.pc = "remove_expansions"]
      /\ UNCHANGED <<latest, expansions>>
  BY DEF RenameBackup, pipelineVars
<1>2. tool.file \in Targets /\ {"pc", "file", "remove"} \subseteq DOMAIN tool
  BY <1>1 DEF IInv, ToolOK, NoTool, Checking
<1>3. DiskOK'
  BY <1>1, <1>2, Texts DEF IInv, DiskOK
<1>4. ToolOK' /\ tool'.pc \in {"off", "remove_expansions"}
  BY <1>1, <1>2 DEF ToolOK, NoTool
<1>5. TextIsSafe'
  BY <1>1, <1>2, <1>4, Texts DEF IInv, DiskOK, TextIsSafe, Whole
<1>6. QED
  BY <1>3, <1>4, <1>5 DEF IInv

LEMMA RemoveExpansionsStep ==
  ASSUME IInv, RemoveExpansions
  PROVE  IInv'
<1>1. /\ expansions' = [t \in Targets |-> Absent] /\ tool' = NoTool
      /\ UNCHANGED <<files, backups, latest>>
  BY DEF RemoveExpansions
<1>2. DiskOK'
  BY <1>1, Texts DEF IInv, DiskOK
<1>3. QED
  BY <1>1, <1>2 DEF IInv, ToolOK, NoTool, TextIsSafe, Whole

LEMMA InterruptStep ==
  ASSUME IInv, Interrupt
  PROVE  IInv'
<1>1. tool # NoTool /\ tool' = NoTool /\ UNCHANGED latest
  BY DEF Interrupt
<1>2. CASE UNCHANGED <<files, backups, expansions>>
  BY <1>1, <1>2 DEF IInv, DiskOK, ToolOK, NoTool, TextIsSafe, Whole
<1>3. CASE /\ tool.pc = "backup"
           /\ backups' = [backups EXCEPT ![tool.file] = Torn]
           /\ UNCHANGED <<files, expansions>>
  <2>1. tool.file \in Targets
    BY <1>3 DEF IInv, ToolOK, NoTool, Checking
  <2>2. DiskOK'
    BY <1>1, <1>3, <2>1, Texts DEF IInv, DiskOK
  <2>3. TextIsSafe'
    BY <1>1, <1>3, <2>1, Texts DEF IInv, DiskOK, TextIsSafe, Whole, NoTool
  <2>4. QED
    BY <1>1, <2>2, <2>3 DEF IInv, ToolOK
<1>4. CASE /\ tool.pc = "merge"
           /\ files' = [files EXCEPT ![tool.file] = Torn]
           /\ UNCHANGED <<backups, expansions>>
  <2>1. tool.file \in Targets
    BY <1>4 DEF IInv, ToolOK, NoTool, Checking
  <2>2. DiskOK'
    BY <1>1, <1>4, <2>1 DEF IInv, DiskOK
  <2>3. TextIsSafe'
    BY <1>1, <1>4, <2>1, Texts DEF IInv, DiskOK, TextIsSafe, Whole, NoTool
  <2>4. QED
    BY <1>1, <2>2, <2>3 DEF IInv, ToolOK
<1>5. CASE \E u : /\ expansions' = [expansions EXCEPT ![u] = Torn]
                  /\ UNCHANGED <<files, backups>>
  <2>1. DiskOK'
    BY <1>1, <1>5, Texts DEF IInv, DiskOK
  <2>2. QED
    BY <1>1, <1>5, <2>1 DEF IInv, ToolOK, NoTool, TextIsSafe, Whole
<1>6. QED
  BY <1>2, <1>3, <1>4, <1>5 DEF Interrupt, InterruptedWrite

-----------------------------------------------------------------------------
LEMMA ResolvesToTargets ==
  ASSUME NEW bin, NEW example, NEW t \in resolve_target(bin, example)
  PROVE  t \in Targets
<1>1. /\ Targets \ Examples \subseteq Targets
      /\ {example} \cap Examples \subseteq Targets
      /\ Examples \subseteq Targets
  BY ToolchainAssumption
<1>2. QED
  BY <1>1 DEF resolve_target

LEMMA NextCases ==
  ASSUME [Next]_vars
  PROVE  \/ Macro
         \/ (\E t \in Targets : Build(t)) \/ Flash \/ Device \/ UNCHANGED vars
         \/ \E t \in Targets : \E s \in Edits[t] : Edit(t, s)
         \/ CheckStep \/ Choose \/ WriteBackup \/ WriteMerged
         \/ \E t \in Targets, named, remove \in BOOLEAN :
              RemoveFile(t, named, remove)
         \/ RenameBackup \/ RemoveExpansions \/ Interrupt
<1>1. \A bin, example : resolve_target(bin, example) \subseteq Targets
  BY ResolvesToTargets
<1>2. ASSUME \E bin, example \in Targets \cup {None} :
               \E t \in resolve_target(bin, example) :
                 \E merge, force, pass_dir \in BOOLEAN :
                   Expand(t, merge, force, pass_dir)
      PROVE  CheckStep
  BY <1>1, <1>2 DEF CheckStep
<1>3. ASSUME CargoCheck \/ CheckReturns \/ Collect \/ Beautify
      PROVE  CheckStep
  BY <1>3 DEF CheckStep
<1>4. QED
  BY <1>2, <1>3, Zenon DEF Next

(* For every package: the invariant the theorems below follow from.        *)
THEOREM IInvAlways == Spec => []IInv
<1>1. IInv /\ [Next]_vars => IInv'
  <2> SUFFICES ASSUME IInv, [Next]_vars PROVE IInv'
    OBVIOUS
  <2>1. QED
    BY NextCases, MacroStep, OutsideStep, EditStep, CheckStepStep, ChooseStep,
       WriteBackupStep, WriteMergedStep, RemoveFileStep, RenameBackupStep,
       RemoveExpansionsStep, InterruptStep, Zenon
<1>2. QED
  BY <1>1, InitIInv, PTL DEF Spec

-----------------------------------------------------------------------------
(* The steps that replace a file.                                          *)
LEMMA WriteMergedKeeps ==
  ASSUME IInv, WriteMerged, NEW t \in Targets, Whole(t)
  PROVE  Whole(t)'
<1>1. /\ tool.pc = "merge" /\ files' = [files EXCEPT ![tool.file] = tool.text]
      /\ UNCHANGED <<backups, latest>>
  BY DEF WriteMerged
<1>2. CASE t = tool.file
  BY <1>1, <1>2 DEF IInv, TextIsSafe, Whole
<1>3. CASE t # tool.file
  BY <1>1, <1>3 DEF IInv, DiskOK, Whole
<1>4. QED
  BY <1>2, <1>3

LEMMA WriteBackupKeeps ==
  ASSUME IInv, WriteBackup, NEW t \in Targets, Whole(t)
  PROVE  Whole(t)'
<1>1. /\ tool.pc = "backup" /\ UNCHANGED <<files, latest>>
      /\ backups' = [backups EXCEPT ![tool.file] = files[tool.file]]
  BY DEF WriteBackup
<1>2. CASE t = tool.file
  BY <1>1, <1>2 DEF IInv, TextIsSafe, Whole
<1>3. CASE t # tool.file
  BY <1>1, <1>3 DEF IInv, DiskOK, Whole
<1>4. QED
  BY <1>2, <1>3

LEMMA RenameBackupKeeps ==
  ASSUME IInv, RenameBackup, NEW t \in Targets, Whole(t)
  PROVE  Whole(t)'
<1>1. /\ tool.pc = "rename" /\ UNCHANGED latest
      /\ files' = [files EXCEPT ![tool.file] = backups[tool.file]]
      /\ backups' = [backups EXCEPT ![tool.file] = Absent]
  BY DEF RenameBackup
<1>2. CASE t = tool.file
  <2>1. files[t] = Absent /\ Absent # Source(latest[t])
    BY <1>1, <1>2, Texts DEF IInv, TextIsSafe
  <2>2. backups[t] = Source(latest[t])
    BY <2>1 DEF Whole
  <2>3. QED
    BY <1>1, <1>2, <2>2 DEF IInv, DiskOK, Whole
<1>3. CASE t # tool.file
  BY <1>1, <1>3 DEF IInv, DiskOK, Whole
<1>4. QED
  BY <1>2, <1>3

LEMMA InterruptKeeps ==
  ASSUME IInv, Interrupt, NEW t \in Targets, Whole(t)
  PROVE  Whole(t)'
<1>1. UNCHANGED latest
  BY DEF Interrupt
<1>2. CASE UNCHANGED <<files, backups>>
  BY <1>1, <1>2 DEF Whole
<1>3. CASE /\ tool.pc = "backup" /\ UNCHANGED files
           /\ backups' = [backups EXCEPT ![tool.file] = Torn]
  BY <1>1, <1>3 DEF IInv, DiskOK, TextIsSafe, Whole
<1>4. CASE /\ tool.pc = "merge" /\ UNCHANGED backups
           /\ files' = [files EXCEPT ![tool.file] = Torn]
  BY <1>1, <1>4 DEF IInv, DiskOK, TextIsSafe, Whole
<1>5. QED
  BY <1>2, <1>3, <1>4 DEF Interrupt, InterruptedWrite

LEMMA EditKeeps ==
  ASSUME IInv, NEW u \in Targets, NEW s \in Edits[u], Edit(u, s),
         NEW t \in Targets, Whole(t)
  PROVE  Whole(t)'
  BY DEF Edit, IInv, DiskOK, Whole

LEMMA RemoveFileLoses ==
  ASSUME IInv, NEW u \in Targets, NEW named, NEW remove,
         RemoveFile(u, named, remove), NEW t \in Targets, Whole(t)
  PROVE  Whole(t)' \/ (tool'.pc = "rename" /\ tool'.file = t)
<1>1. /\ files' = [files EXCEPT ![u] = Absent] /\ UNCHANGED <<backups, latest>>
      /\ tool'.pc = "rename" /\ tool'.file = u
  BY DEF RemoveFile
<1>2. QED
  BY <1>1 DEF IInv, DiskOK, Whole

LEMMA OthersKeep ==
  ASSUME IInv,
         \/ Macro
         \/ (\E t \in Targets : Build(t)) \/ Flash \/ Device \/ UNCHANGED vars
         \/ CheckStep \/ Choose \/ RemoveExpansions,
         NEW t \in Targets, Whole(t)
  PROVE  Whole(t)'
<1>1. UNCHANGED <<files, backups, latest>>
  BY CheckStepKeeps
     DEF Macro, Build, Flash, Device, vars, toolVars, Choose, RemoveExpansions
<1>2. QED
  BY <1>1 DEF Whole

(* For every package and any number of interrupted calls: only a restore   *)
(* ends that the developer's last text is whole on disk (flow.rs).         *)
THEOREM TextNeverLost == Spec => SourceSurvives
<1> DEFINE Survives == \A t \in Targets : Whole(t) /\ ~ Whole(t)' =>
                         tool'.pc = "rename" /\ tool'.file = t
<1>1. IInv /\ [Next]_vars => [Survives]_vars
  <2> SUFFICES ASSUME IInv, [Next]_vars, NEW t \in Targets, Whole(t)
               PROVE  Whole(t)' \/ (tool'.pc = "rename" /\ tool'.file = t)
    OBVIOUS
  <2>1. QED
    BY NextCases, WriteMergedKeeps, WriteBackupKeeps, RenameBackupKeeps,
       InterruptKeeps, EditKeeps, RemoveFileLoses, OthersKeep, Zenon
<1>2. Spec => [][Survives]_vars
  BY <1>1, IInvAlways, PTL DEF Spec
<1>3. QED
  BY <1>2 DEF SourceSurvives

-----------------------------------------------------------------------------
(* The invariant of the macro and the tool together.                       *)

MacroOK ==
  \/ macro = NoMacro
  \/ /\ {"pc", "of", "target", "log", "app", "done", "bus"}
          \subseteq DOMAIN macro
     /\ macro = [k \in DOMAIN macro |-> macro[k]]

(* A call in progress sees no macro but its own.                           *)
OwnMacro ==
  /\ tool # NoTool => WorkedOn
  /\ tool.pc = "check" => macro = NoMacro
  /\ tool.pc \in {"collect", "beautify", "backup", "merge"} =>
       macro = NoMacro \/ macro.pc \in Finished
  /\ tool.pc \in Checking /\ macro # NoMacro =>
       macro.target = tool.target /\ macro.log = TRUE

(* What a merge takes lies under the file's stem; if the macro generated   *)
(* code, that is the target's expansion and what is taken.                 *)
FreshText ==
  /\ tool.pc \in Checking /\ macro.pc = "code" =>
       expansions[tool.target] = Expansion(macro.of)
  /\ tool.pc \in {"backup", "merge"} /\ macro.pc = "code" =>
       tool.file = macro.target /\ tool.text = Expansion(macro.of)
  /\ tool.pc \in {"backup", "merge"} =>
       \E u \in StartsWith[tool.file] : tool.text = expansions[u]

FreshInv == MacroOK /\ OwnMacro /\ FreshText

LEMMA InitFresh == Init => FreshInv
  BY DEF Init, PipelineInit, FreshInv, MacroOK, OwnMacro, FreshText, NoMacro,
         NoTool, Checking

(* What a step of the macro changes of the fields that matter here.        *)
LEMMA MacroFacts ==
  ASSUME Macro
  PROVE  /\ macro.pc \in {"passes", "analysis", "validation", "codegen"}
         /\ \/ /\ UNCHANGED expansions
               /\ \/ \E pc \in {"analysis", "validation", "codegen", "failed",
                                "panicked"} : macro' = [macro EXCEPT !.pc = pc]
                  \/ \E app, done, bus :
                       macro' = [macro EXCEPT !.app = app, !.done = done,
                                              !.bus = bus]
            \/ /\ macro.pc = "codegen" /\ macro' = [macro EXCEPT !.pc = "code"]
               /\ expansions' = IF macro.log
                                THEN [expansions EXCEPT ![macro.target] =
                                        Expansion(macro.of)]
                                ELSE expansions
<1>1. CASE RunPass
  <2>1. /\ macro.pc = "passes" /\ UNCHANGED expansions
        /\ \E pass, result : \/ PassOutput(pass, result)
                             \/ PassError(pass, result)
                             \/ PassPanic(pass, result)
    BY <1>1, Zenon DEF RunPass
  <2>2. ASSUME NEW pass, NEW result, PassOutput(pass, result)
        PROVE  \E app, done, bus : macro' = [macro EXCEPT !.app = app,
                                               !.done = done, !.bus = bus]
    BY <2>2, Zenon DEF PassOutput
  <2>3. ASSUME NEW pass, NEW result,
               PassError(pass, result) \/ PassPanic(pass, result)
        PROVE  \E pc \in {"failed", "panicked"} :
                 macro' = [macro EXCEPT !.pc = pc]
    BY <2>3, Zenon DEF PassError, PassPanic, Finish
  <2>4. QED
    BY <2>1, <2>2, <2>3
<1>2. CASE ParseApp
  BY <1>2 DEF ParseApp, Finish
<1>3. CASE AnalyseApp
  BY <1>3 DEF AnalyseApp, Finish
<1>4. CASE ValidateApp
  BY <1>4 DEF ValidateApp, Finish
<1>5. CASE Generate
  BY <1>5 DEF Generate, Finish
<1>6. QED
  BY <1>1, <1>2, <1>3, <1>4, <1>5, Zenon DEF Macro, PipelineNext

LEMMA MacroFresh ==
  ASSUME IInv, FreshInv, Macro
  PROVE  FreshInv'
<1>1. UNCHANGED <<files, backups, latest, tool>>
  BY DEF Macro, toolVars
<1>2. /\ macro.pc \in {"passes", "analysis", "validation", "codegen"}
      /\ macro # NoMacro
  <2>1. macro.pc \in {"passes", "analysis", "validation", "codegen"}
    BY MacroFacts, Zenon
  <2>2. QED
    BY <2>1 DEF NoMacro
<1>3. /\ {"pc", "of", "target", "log", "app", "done", "bus"}
           \subseteq DOMAIN macro
      /\ macro # NoMacro
  BY <1>2 DEF FreshInv, MacroOK
<1>4. /\ DOMAIN macro' = DOMAIN macro
      /\ macro' = [k \in DOMAIN macro' |-> macro'[k]]
      /\ macro'.target = macro.target /\ macro'.log = macro.log
      /\ macro'.of = macro.of
      /\ macro'.pc = "code" => macro.pc = "codegen"
  BY <1>3, MacroFacts
<1>5. MacroOK'
  BY <1>3, <1>4 DEF MacroOK
<1>6. tool.pc \notin {"check", "collect", "beautify", "backup", "merge"}
  BY <1>2, <1>3 DEF FreshInv, OwnMacro, Finished
<1>7. OwnMacro'
  BY <1>1, <1>3, <1>4, <1>6 DEF FreshInv, OwnMacro, WorkedOn, Checking
<1>8. FreshText'
  <2>1. ASSUME tool.pc \in Checking, macro'.pc = "code"
        PROVE  expansions'[tool.target] = Expansion(macro.of)
    <3>1. tool.target \in Targets /\ macro.target = tool.target /\ macro.log
      BY <2>1, <1>3 DEF IInv, ToolOK, NoTool, Checking, FreshInv, OwnMacro
    <3>2. expansions' =
            [expansions EXCEPT ![macro.target] = Expansion(macro.of)]
      BY <1>3, <2>1, <3>1, MacroFacts
    <3>3. QED
      BY <3>1, <3>2 DEF IInv, DiskOK
  <2>2. QED
    BY <1>1, <1>4, <1>6, <2>1 DEF FreshText
<1>9. QED
  BY <1>5, <1>7, <1>8 DEF FreshInv

(* A build, by hand, of what nobody works on.                              *)
LEMMA BuildFresh ==
  ASSUME FreshInv, NEW t \in Targets, Build(t)
  PROVE  FreshInv'
<1>1. UNCHANGED <<latest, tool>> /\ latest[t] \notin Workbench
  BY DEF Build, toolVars
<1>2. tool = NoTool
  BY <1>1 DEF FreshInv, OwnMacro, WorkedOn
<1>3. MacroOK'
  BY DEF Build, Invoke, MacroOK
<1>4. OwnMacro' /\ FreshText'
  BY <1>1, <1>2 DEF OwnMacro, FreshText, NoTool, Checking
<1>5. QED
  BY <1>3, <1>4 DEF FreshInv

LEMMA OutsideFresh ==
  ASSUME FreshInv, Flash \/ Device \/ UNCHANGED vars
  PROVE  FreshInv'
<1>1. UNCHANGED <<latest, tool, macro, expansions>>
  BY DEF Flash, Device, vars, toolVars, pipelineVars
<1>2. QED
  BY <1>1 DEF FreshInv, MacroOK, OwnMacro, FreshText, WorkedOn

LEMMA EditFresh ==
  ASSUME FreshInv, IInv, NEW t \in Targets, NEW s \in Edits[t], Edit(t, s)
  PROVE  FreshInv'
<1>1. /\ latest' = [latest EXCEPT ![t] = s] /\ WorkedOn
      /\ UNCHANGED <<tool, macro, expansions>>
  BY DEF Edit, pipelineVars
<1>2. WorkedOn'
  BY <1>1, ToolchainAssumption DEF IInv, DiskOK, WorkedOn
<1>3. QED
  BY <1>1, <1>2 DEF FreshInv, MacroOK, OwnMacro, FreshText

LEMMA CheckStepFresh ==
  ASSUME FreshInv, IInv, CheckStep
  PROVE  FreshInv'
<1>1. UNCHANGED <<latest, expansions>>
  BY CheckStepKeeps
<1>2. CASE \E t \in Targets : \E merge, force, pass_dir \in BOOLEAN :
             Expand(t, merge, force, pass_dir)
  <2>1. tool'.pc = "check" /\ macro' = NoMacro /\ WorkedOn
    BY <1>2 DEF Expand, Call
  <2>2. QED
    BY <1>1, <2>1 DEF FreshInv, MacroOK, OwnMacro, FreshText, WorkedOn,
                      Checking, NoMacro
<1>3. CASE CargoCheck
  <2>1. /\ tool.pc = "check" /\ tool # NoTool /\ macro = NoMacro
        /\ {"pc", "target"} \subseteq DOMAIN tool
    BY <1>3 DEF CargoCheck, IInv, ToolOK, NoTool, FreshInv, OwnMacro
  <2>2. CASE At("collect") /\ UNCHANGED pipelineVars
    <3>1. /\ tool' = [tool EXCEPT !.pc = "collect"] /\ macro' = NoMacro
          /\ tool'.pc = "collect"
      BY <2>1, <2>2 DEF At, pipelineVars
    <3>2. WorkedOn'
      BY <1>1, <2>1 DEF FreshInv, OwnMacro, WorkedOn
    <3>3. QED
      BY <3>1, <3>2 DEF FreshInv, MacroOK, OwnMacro, FreshText, Checking,
                        NoMacro
  <2>3. CASE /\ At("macro")
             /\ Invoke(files[tool.target].of, tool.target, TRUE, tool.pass_dir)
    <3>1. /\ tool'.pc = "macro" /\ tool'.target = tool.target
          /\ macro'.pc = "passes" /\ macro'.target = tool.target
          /\ macro'.log = TRUE
      BY <2>1, <2>3 DEF At, Invoke
    <3>2. WorkedOn' /\ MacroOK'
      BY <1>1, <2>1, <2>3 DEF FreshInv, OwnMacro, WorkedOn, MacroOK, Invoke
    <3>3. QED
      BY <3>1, <3>2 DEF FreshInv, OwnMacro, FreshText, Checking
  <2>4. QED
    BY <1>3, <2>2, <2>3 DEF CargoCheck
<1>4. CASE CheckReturns \/ Collect \/ Beautify
  <2>1. /\ UNCHANGED macro /\ tool # NoTool
        /\ tool.pc \in {"macro", "collect", "beautify"}
        /\ macro = NoMacro \/ macro.pc \in Finished
        /\ {"pc", "target"} \subseteq DOMAIN tool
    BY <1>4 DEF CheckReturns, Collect, Beautify, pipelineVars, IInv, ToolOK,
                NoTool, Checking, FreshInv, OwnMacro
  <2>2. \/ tool' = NoTool
        \/ tool'.pc \in {"collect", "beautify"} /\ tool'.target = tool.target
    <3>1. CASE CheckReturns
      BY <2>1, <3>1 DEF CheckReturns, At
    <3>2. CASE Collect
      BY <2>1, <3>2 DEF Collect
    <3>3. CASE Beautify
      <4>1. PICK u : tool' = [tool EXCEPT !.todo = tool.todo \ {u}]
        BY <3>3 DEF Beautify
      <4>2. tool.pc = "beautify"
        BY <3>3 DEF Beautify
      <4>3. QED
        BY <2>1, <4>1, <4>2
    <3>4. QED
      BY <1>4, <3>1, <3>2, <3>3
  <2>3. WorkedOn'
    BY <1>1, <2>1 DEF FreshInv, OwnMacro, WorkedOn
  <2>4. CASE tool' = NoTool
    BY <1>1, <2>1, <2>3, <2>4 DEF FreshInv, MacroOK, OwnMacro, FreshText,
                                  NoTool, Checking
  <2>5. CASE tool'.pc \in {"collect", "beautify"} /\ tool'.target = tool.target
    BY <1>1, <2>1, <2>3, <2>5 DEF FreshInv, MacroOK, OwnMacro, FreshText,
                                  Checking
  <2>6. QED
    BY <2>2, <2>4, <2>5
<1>5. QED
  BY <1>2, <1>3, <1>4 DEF CheckStep

(* What is chosen for the merge is this call's code for the target, or at  *)
(* least an expansion under the stem of the file it is merged into.        *)
LEMMA ChooseFresh ==
  ASSUME FreshInv, IInv, Choose
  PROVE  FreshInv'
<1>1. /\ UNCHANGED <<latest, macro, expansions>>
      /\ tool.pc = "beautify" /\ tool # NoTool
  BY DEF Choose, pipelineVars, NoTool
<1>2. WorkedOn'
  BY <1>1 DEF FreshInv, OwnMacro, WorkedOn
<1>3. macro = NoMacro \/ macro.pc \in Finished
  BY <1>1 DEF FreshInv, OwnMacro
<1>4. CASE tool' = NoTool
  BY <1>1, <1>2, <1>4 DEF FreshInv, MacroOK, OwnMacro, FreshText, NoTool,
                          Checking
<1>5. CASE tool' # NoTool
  <2>1. PICK full \in FullExpansion :
          /\ tool' = [pc |-> "backup", pass_dir |-> FALSE,
                      file |-> AppFile(full), text |-> expansions[full]]
          /\ full \in Targets /\ AppFile(full) \in Targets
          /\ files[AppFile(full)].text = "source"
    BY <1>5, ChooseFacts
  <2>2. ASSUME macro.pc = "code"
        PROVE  /\ AppFile(full) = macro.target
               /\ expansions[full] = Expansion(macro.of)
    <3>1. /\ tool.target \in Targets /\ macro.target = tool.target
          /\ expansions[tool.target] = Expansion(macro.of)
      BY <1>1, <2>2 DEF IInv, ToolOK, Checking, FreshInv, OwnMacro, FreshText,
                        NoMacro
    <3>2. tool.target \in Collected
      BY <3>1, Texts, ToolchainAssumption DEF Collected
    <3>3. full = tool.target
      BY <2>1, <3>2 DEF FullExpansion
    <3>4. QED
      BY <3>1, <3>3 DEF AppFile
  <2>3. full \in StartsWith[AppFile(full)]
    <3>1. full \in StartsWith[tool.target]
      <4>1. tool.target \in Targets
        BY <1>1 DEF IInv, ToolOK, NoTool
      <4>2. QED
        BY <2>1, <4>1, ToolchainAssumption DEF FullExpansion, Collected
    <3>2. full \in StartsWith[full]
      BY <2>1, ToolchainAssumption
    <3>3. QED
      BY <3>1, <3>2 DEF AppFile
  <2>4. QED
    BY <1>1, <1>2, <1>3, <2>1, <2>2, <2>3
       DEF FreshInv, MacroOK, OwnMacro, FreshText, Checking
<1>6. QED
  BY <1>4, <1>5

LEMMA WriteFresh ==
  ASSUME FreshInv, IInv, WriteBackup \/ WriteMerged
  PROVE  FreshInv'
<1>1. UNCHANGED <<latest, macro, expansions>> /\ tool # NoTool
  BY DEF WriteBackup, WriteMerged, pipelineVars, NoTool
<1>2. WorkedOn'
  BY <1>1 DEF FreshInv, OwnMacro, WorkedOn
<1>3. CASE WriteBackup
  <2>1. /\ tool.pc = "backup" /\ tool' = [tool EXCEPT !.pc = "merge"]
        /\ {"pc", "file", "text"} \subseteq DOMAIN tool
    BY <1>3 DEF WriteBackup, At, IInv, ToolOK, NoTool, Checking
  <2>2. tool'.pc = "merge" /\ tool'.file = tool.file /\ tool'.text = tool.text
    BY <2>1
  <2>3. QED
    BY <1>1, <1>2, <2>1, <2>2 DEF FreshInv, MacroOK, OwnMacro, FreshText,
                                  Checking
<1>4. CASE WriteMerged
  <2>1. tool' = NoTool
    BY <1>4 DEF WriteMerged
  <2>2. QED
    BY <1>1, <1>2, <2>1 DEF FreshInv, MacroOK, OwnMacro, FreshText, NoTool,
                            Checking
<1>5. QED
  BY <1>3, <1>4

LEMMA RestoreFresh ==
  ASSUME FreshInv, IInv,
         \/ \E t \in Targets, named, remove \in BOOLEAN :
              RemoveFile(t, named, remove)
         \/ RenameBackup \/ RemoveExpansions
  PROVE  FreshInv'
<1>1. UNCHANGED <<latest, macro>> /\ WorkedOn
  BY DEF RemoveFile, Call, RenameBackup, RemoveExpansions, pipelineVars,
         NoTool, FreshInv, OwnMacro
<1>2. WorkedOn'
  BY <1>1 DEF WorkedOn
<1>3. tool'.pc \in {"rename", "remove_expansions", "off"}
  <2>1. CASE \E t \in Targets, named, remove \in BOOLEAN :
               RemoveFile(t, named, remove)
    BY <2>1 DEF RemoveFile
  <2>2. CASE RenameBackup
    <3>1. "pc" \in DOMAIN tool
      BY <2>2 DEF RenameBackup, IInv, ToolOK, NoTool, Checking
    <3>2. QED
      BY <2>2, <3>1 DEF RenameBackup, NoTool
  <2>3. CASE RemoveExpansions
    BY <2>3 DEF RemoveExpansions, NoTool
  <2>4. QED
    BY <2>1, <2>2, <2>3
<1>4. QED
  BY <1>1, <1>2, <1>3 DEF FreshInv, MacroOK, OwnMacro, FreshText, Checking

LEMMA InterruptFresh ==
  ASSUME FreshInv, Interrupt
  PROVE  FreshInv'
<1>1. tool' = NoTool /\ macro' = NoMacro
  BY DEF Interrupt
<1>2. QED
  BY <1>1 DEF FreshInv, MacroOK, OwnMacro, FreshText, NoTool, NoMacro, Checking

(* What a merge has made of file t: this macro's code, or what was found.  *)
RightText(t) ==
  IF macro.pc = "code"
  THEN t = macro.target /\ files'[t] = Expansion(macro.of)
  ELSE \E u \in StartsWith[t] : files'[t] = expansions[u]

(* Of a file only a merge makes an expansion, and the right one.           *)
LEMMA FreshStep ==
  ASSUME IInv, FreshInv, [Next]_vars, NEW t \in Targets, Merged(t)
  PROVE  RightText(t)
<1>1. CASE WriteMerged
  <2>1. /\ tool.pc = "merge"
        /\ files' = [files EXCEPT ![tool.file] = tool.text]
    BY <1>1 DEF WriteMerged
  <2>2. t = tool.file /\ files'[t] = tool.text
    <3>1. files = [u \in Targets |-> files[u]] /\ files'[t] # files[t]
      BY DEF IInv, DiskOK, Merged
    <3>2. QED
      BY <2>1, <3>1
  <2>3. QED
    BY <2>1, <2>2 DEF FreshInv, FreshText, RightText
<1>2. CASE ~ WriteMerged /\ RenameBackup
  <2>1. files' = [files EXCEPT ![tool.file] = backups[tool.file]]
    BY <1>2 DEF RenameBackup
  <2>2. files'[t] = backups[t]
    <3>1. files = [u \in Targets |-> files[u]] /\ files'[t] # files[t]
      BY DEF IInv, DiskOK, Merged
    <3>2. QED
      BY <2>1, <3>1
  <2>3. QED
    BY <1>2, <2>2 DEF IInv, DiskOK, Merged
<1>3. CASE /\ ~ WriteMerged
           /\ \/ \E u \in Targets : \E s \in Edits[u] : Edit(u, s)
              \/ \E u \in Targets, named, remove \in BOOLEAN :
                   RemoveFile(u, named, remove)
              \/ Interrupt
  <2>1. \/ UNCHANGED files
        \/ \E u, f : /\ files' = [files EXCEPT ![u] = f]
                     /\ f.text # "expansion"
    BY <1>3, Texts DEF Edit, RemoveFile, Interrupt, InterruptedWrite
  <2>2. QED
    BY <1>3, <2>1 DEF IInv, DiskOK, Merged
<1>4. CASE \/ Macro
           \/ (\E u \in Targets : Build(u)) \/ Flash \/ Device \/ UNCHANGED vars
           \/ CheckStep \/ Choose \/ WriteBackup \/ RemoveExpansions
  <2>1. UNCHANGED files
    BY <1>4, CheckStepKeeps DEF Macro, Build, Flash, Device, vars, toolVars,
                                Choose, WriteBackup, RemoveExpansions
  <2>2. QED
    BY <2>1 DEF Merged
<1>5. QED
  BY NextCases, <1>1, <1>2, <1>3, <1>4, Zenon

(* For every package: what is about to be merged is what the macro of the  *)
(* call made or, if it made nothing, lies under the stem of the file.      *)
THEOREM FreshInvAlways == Spec => []FreshInv
<1>1. IInv /\ FreshInv /\ [Next]_vars => FreshInv'
  <2> SUFFICES ASSUME IInv, FreshInv, [Next]_vars PROVE FreshInv'
    OBVIOUS
  <2>1. QED
    BY NextCases, MacroFresh, BuildFresh, OutsideFresh, EditFresh,
       CheckStepFresh, ChooseFresh, WriteFresh, RestoreFresh, InterruptFresh,
       Zenon
<1>2. QED
  BY <1>1, InitFresh, IInvAlways, PTL DEF Spec

(* For every package: a merge takes the code that this call's macro        *)
(* generated, into the file it was generated from; a call whose macro      *)
(* generated none merges, if anything, an expansion that an earlier call   *)
(* has left under the stem of that file or one that begins alike (flow.rs).*)
THEOREM MergesAreFresh == Spec => FreshMerge
<1> DEFINE Fresh == \A t \in Targets : Merged(t) =>
             IF macro.pc = "code"
             THEN t = macro.target /\ files'[t] = Expansion(macro.of)
             ELSE \E u \in StartsWith[t] : files'[t] = expansions[u]
<1>1. IInv /\ FreshInv /\ [Next]_vars => [Fresh]_vars
  BY FreshStep DEF RightText
<1>2. Spec => [][Fresh]_vars
  BY <1>1, FreshInvAlways, IInvAlways, PTL DEF Spec
<1>3. QED
  BY <1>2 DEF FreshMerge
-----------------------------------------------------------------------------
(* What runs is a source of the package.                                   *)
HoldsSource(f) == f.text = "source" => f.of \in Sources

SourcesOK ==
  /\ \A t \in Targets : /\ latest[t] \in Sources
                        /\ HoldsSource(files[t]) /\ HoldsSource(backups[t])
  /\ \A t \in Targets : latest[t] \notin Workbench =>
       files[t] = Source(latest[t])

PastPasses == {"analysis", "validation", "codegen", "code"}

RunOK ==
  macro # NoMacro =>
    /\ {"pass_dir"} \subseteq DOMAIN macro
    /\ macro.of \in Sources
    /\ macro.done \in 0 .. Len(passes)
    /\ macro.pc \in {"passes"} \cup PastPasses \cup Finished
    /\ macro.pc \in PastPasses => macro.done = Len(passes)

RunInv == SourcesOK /\ RunOK

LEMMA PassesAreSequences ==
  ASSUME NEW s \in Sources
  PROVE  /\ Len(s.passes) \in Nat /\ s.passes \in Seq(Passes)
         /\ \A i \in 1 .. Len(s.passes) : s.passes[i] \in Passes
<1>1. s.passes \in Seq(Passes)
  BY ToolchainAssumption
<1>2. QED
  BY <1>1

LEMMA EditsAreSources ==
  ASSUME NEW t \in Targets, NEW s \in Edits[t]
  PROVE  s \in Sources /\ s \in Workbench
<1>1. s \in Sources
  <2>1. Edits[t] \in {Edits[u] : u \in Targets}
    OBVIOUS
  <2>2. s \in UNION {Edits[u] : u \in Targets}
    BY <2>1
  <2>3. QED
    BY <2>2, Zenon DEF Sources
<1>2. s \in Workbench
  BY ToolchainAssumption
<1>3. QED
  BY <1>1, <1>2

LEMMA InitRun == Init => RunInv
<1> SUFFICES ASSUME Init PROVE RunInv
  OBVIOUS
<1>1. latest \in Packages /\ macro = NoMacro
  BY DEF Init, PipelineInit
<1>2. \A t \in Targets : latest[t] \in Sources
  <2>1. \A t \in Targets : latest[t] \in {latest[u] : u \in Targets}
    OBVIOUS
  <2>2. {latest[u] : u \in Targets}
          \in {{p[t] : t \in Targets} : p \in Packages}
    BY <1>1
  <2>3. QED
    BY <2>1, <2>2 DEF Sources
<1>3. \A t \in Targets : files[t] = Source(latest[t]) /\ backups[t] = Absent
  BY DEF Init
<1>4. SourcesOK
  <2>1. \A s \in Sources : HoldsSource(Source(s))
    BY DEF HoldsSource, Source
  <2>2. HoldsSource(Absent)
    BY Texts DEF HoldsSource
  <2>3. QED
    BY <1>2, <1>3, <2>1, <2>2 DEF SourcesOK
<1>5. QED
  BY <1>1, <1>4 DEF RunInv, RunOK

(* The files: only the developer writes a source.                          *)
LEMMA SourcesStep ==
  ASSUME IInv, FreshInv, SourcesOK, [Next]_vars
  PROVE  SourcesOK'
<1>1. CASE \E t \in Targets : \E s \in Edits[t] : Edit(t, s)
  <2>0. PICK t \in Targets : \E s \in Edits[t] : Edit(t, s)
    BY <1>1
  <2>1. PICK s \in Edits[t] : Edit(t, s)
    BY <2>0
  <2>2. /\ files' = [files EXCEPT ![t] = Source(s)]
        /\ latest' = [latest EXCEPT ![t] = s] /\ UNCHANGED backups
    BY <2>1 DEF Edit
  <2>3. s \in Sources /\ s \in Workbench
    BY EditsAreSources
  <2>4. HoldsSource(Source(s))
    BY <2>3 DEF HoldsSource, Source
  <2>5. QED
    BY <2>2, <2>3, <2>4 DEF IInv, DiskOK, SourcesOK
<1>2. ASSUME UNCHANGED <<files, backups, latest>>
      PROVE  SourcesOK'
  BY <1>2 DEF SourcesOK
<1>3. CASE \/ Macro
           \/ (\E u \in Targets : Build(u)) \/ Flash \/ Device \/ UNCHANGED vars
           \/ CheckStep \/ Choose \/ RemoveExpansions
  <2>1. UNCHANGED <<files, backups, latest>>
    BY <1>3, CheckStepKeeps DEF Macro, Build, Flash, Device, vars, toolVars,
                                Choose, RemoveExpansions
  <2>2. QED
    BY <1>2, <2>1
<1>4. CASE \/ WriteBackup \/ WriteMerged
           \/ \E t \in Targets, named, remove \in BOOLEAN :
                RemoveFile(t, named, remove)
           \/ RenameBackup \/ Interrupt
  <2>1. WorkedOn /\ UNCHANGED latest
    BY <1>4 DEF WriteBackup, WriteMerged, RemoveFile, RenameBackup, Interrupt,
                Call, FreshInv, OwnMacro, NoTool
  <2>2. HoldsSource(Torn) /\ HoldsSource(Absent)
    BY Texts DEF HoldsSource
  <2>3. tool.pc = "merge" => HoldsSource(tool.text)
    BY DEF IInv, ToolOK, NoTool, Checking, HoldsSource
  <2>4. \A t \in Targets : HoldsSource(files[t]) /\ HoldsSource(backups[t])
    BY DEF SourcesOK
  <2>5. tool.pc \in {"backup", "merge", "rename"} => tool.file \in Targets
    BY DEF IInv, ToolOK, NoTool, Checking
  <2>6. (\E u \in Targets : \E f : files' = [files EXCEPT ![u] = f]
                                   /\ HoldsSource(f))
        \/ UNCHANGED files
    <3>1. CASE WriteBackup
      BY <3>1 DEF WriteBackup
    <3>2. CASE WriteMerged
      BY <3>2, <2>3, <2>5 DEF WriteMerged
    <3>3. CASE \E t \in Targets, named, remove \in BOOLEAN :
                 RemoveFile(t, named, remove)
      BY <3>3, <2>2 DEF RemoveFile
    <3>4. CASE RenameBackup
      BY <3>4, <2>4, <2>5 DEF RenameBackup
    <3>5. CASE Interrupt
      BY <3>5, <2>2, <2>5 DEF Interrupt, InterruptedWrite
    <3>6. QED
      BY <1>4, <3>1, <3>2, <3>3, <3>4, <3>5
  <2>7. (\E u \in Targets : \E f : backups' = [backups EXCEPT ![u] = f]
                                   /\ HoldsSource(f))
        \/ UNCHANGED backups
    <3>1. CASE WriteBackup
      BY <3>1, <2>4, <2>5 DEF WriteBackup
    <3>2. CASE WriteMerged
      BY <3>2 DEF WriteMerged
    <3>3. CASE \E t \in Targets, named, remove \in BOOLEAN :
                 RemoveFile(t, named, remove)
      BY <3>3 DEF RemoveFile
    <3>4. CASE RenameBackup
      BY <3>4, <2>2, <2>5 DEF RenameBackup
    <3>5. CASE Interrupt
      BY <3>5, <2>2, <2>5 DEF Interrupt, InterruptedWrite
    <3>6. QED
      BY <1>4, <3>1, <3>2, <3>3, <3>4, <3>5
  <2>8. \A t \in Targets : HoldsSource(files'[t]) /\ HoldsSource(backups'[t])
    <3>1. \A t \in Targets : HoldsSource(files'[t])
      BY <2>4, <2>6 DEF IInv, DiskOK
    <3>2. \A t \in Targets : HoldsSource(backups'[t])
      BY <2>4, <2>7 DEF IInv, DiskOK
    <3>3. QED
      BY <3>1, <3>2
  <2>9. QED
    BY <2>1, <2>8 DEF SourcesOK, WorkedOn
<1>5. QED
  BY NextCases, <1>1, <1>3, <1>4, Zenon

(* What every step of the macro but the last keeps.                        *)
LEMMA RunStep ==
  ASSUME IInv, FreshInv, RunInv, [Next]_vars
  PROVE  RunOK'
<1>1. CASE \E t \in Targets : Build(t)
  <2>1. PICK t \in Targets : Build(t)
    BY <1>1
  <2>2. files[t].of \in Sources
    <3>1. files[t] = Source(latest[t]) /\ latest[t] \in Sources
      BY <2>1 DEF Build, RunInv, SourcesOK
    <3>2. QED
      BY <3>1 DEF Source
  <2>3. /\ macro'.of = files[t].of /\ macro'.done = 0 /\ macro'.pc = "passes"
        /\ "pass_dir" \in DOMAIN macro'
    BY <2>1 DEF Build, Invoke
  <2>4. QED
    BY <2>2, <2>3, PassesAreSequences DEF RunOK, passes, PastPasses
<1>2. CASE UNCHANGED macro \/ macro' = NoMacro
  BY <1>2 DEF RunInv, RunOK, passes
<1>3. CASE CargoCheck
  <2>1. CASE Invoke(files[tool.target].of, tool.target, TRUE, tool.pass_dir)
             /\ files[tool.target].text = "source"
    <3>1. tool.target \in Targets
      BY <1>3 DEF CargoCheck, IInv, ToolOK, NoTool, Checking
    <3>2. files[tool.target].of \in Sources
      BY <2>1, <3>1 DEF RunInv, SourcesOK, HoldsSource
    <3>3. /\ macro'.of = files[tool.target].of /\ macro'.done = 0
          /\ macro'.pc = "passes" /\ "pass_dir" \in DOMAIN macro'
      BY <2>1 DEF Invoke
    <3>4. QED
      BY <3>2, <3>3, PassesAreSequences DEF RunOK, passes, PastPasses
  <2>2. CASE UNCHANGED macro
    BY <1>2, <2>2
  <2>3. QED
    BY <1>3, <2>1, <2>2 DEF CargoCheck, pipelineVars
<1>4. CASE Macro
  <2>1. /\ macro # NoMacro
        /\ {"pc", "of", "target", "log", "app", "done", "bus", "pass_dir"}
             \subseteq DOMAIN macro
    <3>1. macro.pc # "off"
      BY <1>4, MacroFacts, Zenon
    <3>2. macro # NoMacro
      BY <3>1 DEF NoMacro
    <3>3. QED
      BY <3>2 DEF FreshInv, MacroOK, RunInv, RunOK
  <2>2. macro.of \in Sources /\ macro.done \in 0 .. Len(passes)
    BY <2>1 DEF RunInv, RunOK
  <2>3. Len(passes) \in Nat
    BY <2>2, PassesAreSequences DEF passes
  <2>4. /\ DOMAIN macro' = DOMAIN macro /\ macro'.of = macro.of
    BY <1>4, <2>1, MacroFacts
  <2>5. /\ macro'.done \in 0 .. Len(passes)
        /\ macro'.pc \in {"passes"} \cup PastPasses \cup Finished
        /\ macro'.pc \in PastPasses => macro'.done = Len(passes)
    <3>1. CASE RunPass
      <4>1. /\ macro.pc = "passes" /\ macro.done < Len(passes)
            /\ \E pass, result : \/ PassOutput(pass, result)
                                 \/ PassError(pass, result)
                                 \/ PassPanic(pass, result)
        BY <3>1, Zenon DEF RunPass
      <4>2. CASE \E pass, result : PassOutput(pass, result)
        <5>1. macro'.done = macro.done + 1 /\ macro'.pc = macro.pc
          BY <2>1, <4>2 DEF PassOutput
        <5>2. QED
          BY <2>2, <2>3, <4>1, <5>1 DEF PastPasses
      <4>3. CASE \E pass, result : \/ PassError(pass, result)
                                   \/ PassPanic(pass, result)
        <5>1. /\ macro'.done = macro.done
              /\ macro'.pc \in {"failed", "panicked"}
          BY <2>1, <4>3 DEF PassError, PassPanic, Finish
        <5>2. QED
          BY <2>2, <5>1 DEF Finished, PastPasses
      <4>4. QED
        BY <4>1, <4>2, <4>3
    <3>2. CASE ParseApp \/ AnalyseApp \/ ValidateApp \/ Generate
      <4>1. /\ macro'.done = macro.done /\ macro.done = Len(passes)
            /\ macro'.pc \in PastPasses \cup Finished
        BY <2>1, <3>2 DEF ParseApp, AnalyseApp, ValidateApp, Generate, Finish,
                          RunInv, RunOK, PastPasses, Finished
      <4>2. QED
        BY <2>2, <4>1
    <3>3. QED
      BY <1>4, <3>1, <3>2 DEF Macro, PipelineNext
  <2>6. QED
    BY <2>1, <2>2, <2>4, <2>5 DEF RunOK, passes
<1>5. ASSUME [Next]_vars, ~ Macro, ~ \E t \in Targets : Build(t), ~ CargoCheck
      PROVE  UNCHANGED macro \/ macro' = NoMacro
  BY <1>5, NextCases
     DEF Flash, Device, vars, pipelineVars, Edit, CheckStep, Expand,
         CheckReturns, Collect, Beautify, Choose, WriteBackup, WriteMerged,
         RemoveFile, RenameBackup, RemoveExpansions, Interrupt
<1>6. QED
  BY <1>1, <1>2, <1>3, <1>4, <1>5

(* For every package: a run of the macro is of a source of the package,    *)
(* and is as far in its passes as its state says.                          *)
THEOREM RunInvAlways == Spec => []RunInv
<1>1. IInv /\ FreshInv /\ RunInv /\ [Next]_vars => RunInv'
  BY SourcesStep, RunStep DEF RunInv
<1>2. QED
  BY <1>1, InitRun, IInvAlways, FreshInvAlways, PTL DEF Spec

-----------------------------------------------------------------------------
(* The files in the pass directory, one for each index up to n.            *)
Label(i) == IF i = 0 THEN "original" ELSE passes[i]
Output(i) == Snapshot(macro.of, i, "output", Label(i))
Outputs == {Output(i) : i \in 0 .. macro.done}
Core == Snapshot(macro.of, Len(passes) + 1, "output", "core")
PassInput ==
  Snapshot(macro.of, macro.done + 1, "input", passes[macro.done + 1])
ParserInput == Snapshot(macro.of, Len(passes) + 1, "input", "post_passes")

(* What the directory holds in each state of a run.                        *)
Told ==
  \/ /\ snapshots = Outputs /\ macro.pc # "code"
     /\ macro.pc = "failed" => macro.done = Len(passes)
  \/ /\ macro.pc = "code" /\ macro.done = Len(passes)
     /\ snapshots = Outputs \cup {Core}
  \/ /\ macro.pc = "failed" /\ macro.done < Len(passes)
     /\ snapshots = Outputs \cup {PassInput}
  \/ /\ macro.pc = "failed" /\ macro.done = Len(passes)
     /\ snapshots = Outputs \cup {ParserInput}

TellInv ==
  /\ tool.pc \in Checking => {"pass_dir", "todo"} \subseteq DOMAIN tool
  /\ tool.pc = "check" /\ tool.pass_dir = TRUE => snapshots = {}
  /\ /\ tool.pc \in {"macro", "collect", "beautify"} /\ tool.pass_dir = TRUE
     /\ macro # NoMacro
     => macro.pass_dir = TRUE /\ Told

-----------------------------------------------------------------------------
(* A directory with one file for each of 0 .. n.                           *)
LEMMA Indexed ==
  ASSUME NEW n \in Nat, NEW f, f = [i \in 0 .. n |-> f[i]],
         \A i \in 0 .. n : f[i].index = i,
         NEW S, S = {f[i] : i \in 0 .. n}
  PROVE  /\ Cardinality(S) = n + 1
         /\ \A i \in 0 .. n : /\ {g \in S : g.index = i} = {f[i]}
                              /\ Cardinality({g \in S : g.index = i}) = 1
<1>1. f \in Bijection(0 .. n, S)
  BY DEF Bijection, Injection, Surjection, IsInjective
<1>2. IsFiniteSet(0 .. n) /\ Cardinality(0 .. n) = n + 1
  <2>1. IsFiniteSet(0 .. n)
        /\ Cardinality(0 .. n) = IF 0 > n THEN 0 ELSE n - 0 + 1
    <3>1. 0 \in Int /\ n \in Int
      OBVIOUS
    <3>2. QED
      BY <3>1, FS_Interval, Zenon
  <2>2. QED
    BY <2>1
<1>3. Cardinality(S) = n + 1
  BY <1>1, <1>2, FS_Bijection DEF ExistsBijection
<1>4. \A i \in 0 .. n : {g \in S : g.index = i} = {f[i]}
  OBVIOUS
<1>5. \A x : Cardinality({x}) = 1
  BY FS_Singleton
<1>6. QED
  BY <1>3, <1>4, <1>5

LEMMA SnapshotFacts ==
  ASSUME NEW s, NEW i, NEW stage, NEW label
  PROVE  LET f == Snapshot(s, i, stage, label)
         IN f.index = i /\ f.stage = stage /\ f.label = label /\ f.of = s
  BY DEF Snapshot

LEMMA RunFacts ==
  ASSUME RunInv, macro # NoMacro
  PROVE  /\ macro.done \in Nat /\ Len(passes) \in Nat
         /\ macro.done <= Len(passes)
         /\ \A i \in 1 .. Len(passes) :
              passes[i] \notin {"original", "core", "post_passes"}
<1>1. macro.of \in Sources /\ macro.done \in 0 .. Len(passes)
  BY DEF RunInv, RunOK
<1>2. /\ Len(passes) \in Nat
      /\ \A i \in 1 .. Len(passes) : passes[i] \in Passes
  BY <1>1, PassesAreSequences DEF passes
<1>3. QED
  BY <1>1, <1>2 DEF Passes

(* The last file, whatever it is, and those before it.                     *)
LEMMA ToldOfLast ==
  ASSUME RunInv, macro # NoMacro, NEW n \in Nat, NEW x, x.index = n,
         n = macro.done \/ n = macro.done + 1,
         n = macro.done => x = Output(n),
         snapshots = Outputs \cup {x}
  PROVE  /\ Cardinality(snapshots) - 1 = n
         /\ \A i \in 0 .. n :
              Cardinality({f \in snapshots : f.index = i}) = 1
         /\ {f \in snapshots : f.index = n} = {x}
         /\ \A f \in snapshots :
              f = x \/ (f.index \in 0 .. macro.done /\ f = Output(f.index)
                        /\ f.index # n)
<1> DEFINE g == [i \in 0 .. n |-> IF i = n THEN x ELSE Output(i)]
<1>1. macro.done \in Nat
  BY RunFacts
<1>2. \A i : Output(i).index = i
  BY SnapshotFacts DEF Output
<1>3. \A i \in 0 .. n : g[i].index = i
  BY <1>2
<1>4. snapshots = {g[i] : i \in 0 .. n}
  <2>1. \A i \in 0 .. macro.done : i \in 0 .. n /\ Output(i) = g[i]
    BY <1>1
  <2>2. \A i \in 0 .. n : g[i] \in snapshots
    <3>1. ASSUME NEW i \in 0 .. n, i # n PROVE g[i] \in snapshots
      <4>1. i \in 0 .. macro.done
        BY <1>1, <3>1
      <4>2. QED
        BY <3>1, <4>1 DEF Outputs
    <3>2. QED
      BY <3>1
  <2>3. \A f \in snapshots : \E i \in 0 .. n : f = g[i]
    <3>1. ASSUME NEW f \in Outputs PROVE \E i \in 0 .. n : f = g[i]
      <4>1. PICK i \in 0 .. macro.done : f = Output(i)
        BY <3>1 DEF Outputs
      <4>2. QED
        BY <2>1, <4>1
    <3>2. g[n] = x
      OBVIOUS
    <3>3. QED
      BY <3>1, <3>2
  <2>4. QED
    BY <2>2, <2>3
<1>5. g = [i \in 0 .. n |-> g[i]]
  OBVIOUS
<1>6. /\ Cardinality(snapshots) = n + 1
      /\ \A i \in 0 .. n : /\ {f \in snapshots : f.index = i} = {g[i]}
                           /\ Cardinality({f \in snapshots : f.index = i}) = 1
  <2> HIDE DEF g
  <2>1. QED
    BY <1>3, <1>4, <1>5, Indexed
<1>7. \A f \in snapshots :
         f = x \/ (f.index \in 0 .. macro.done /\ f = Output(f.index)
                   /\ f.index # n)
  <2>1. ASSUME NEW f \in snapshots, f # x
        PROVE  f.index \in 0 .. macro.done /\ f = Output(f.index)
               /\ f.index # n
    <3>1. PICK i \in 0 .. macro.done : f = Output(i)
      BY <2>1 DEF Outputs
    <3>2. f.index = i
      BY <1>2, <3>1
    <3>3. i # n
      BY <1>1, <2>1, <3>1
    <3>4. QED
      BY <3>1, <3>2, <3>3
  <2>2. QED
    BY <2>1
<1>8. QED
  BY <1>6, <1>7

LEMMA ToldIsTelling ==
  ASSUME RunInv, macro # NoMacro, Told, macro.pc \in Finished
  PROVE  LET last == Cardinality(snapshots) - 1
             at(i) == {f \in snapshots : f.index = i}
         IN /\ \A i \in 0 .. last : Cardinality(at(i)) = 1
            /\ \A f \in snapshots :
                 /\ f.of = macro.of
                 /\ f.stage = "input" => f.index = last /\ macro.pc = "failed"
                 /\ f.label = "core" <=> macro.pc = "code" /\ f.index = last
                 /\ f.index \in 1 .. macro.done => f.label = passes[f.index]
            /\ macro.pc = "failed" /\ macro.done < Len(passes) =>
                 \E f \in at(last) : /\ f.stage = "input"
                                     /\ f.label = passes[macro.done + 1]
<1>1. /\ macro.done \in Nat /\ Len(passes) \in Nat
      /\ macro.done <= Len(passes)
      /\ \A i \in 1 .. Len(passes) :
           passes[i] \notin {"original", "core", "post_passes"}
  BY RunFacts
<1>2. \A i : /\ Output(i).index = i /\ Output(i).stage = "output"
             /\ Output(i).label = Label(i) /\ Output(i).of = macro.of
  BY SnapshotFacts DEF Output
<1>3. \A i \in 0 .. macro.done :
         Label(i) # "core" /\ (i \in 1 .. macro.done => Label(i) = passes[i])
  BY <1>1 DEF Label
<1>4. CASE /\ snapshots = Outputs /\ macro.pc # "code"
           /\ macro.pc = "failed" => macro.done = Len(passes)
  <2>1. snapshots = Outputs \cup {Output(macro.done)}
    BY <1>1, <1>4 DEF Outputs
  <2>2. /\ Cardinality(snapshots) - 1 = macro.done
        /\ \A i \in 0 .. macro.done :
             Cardinality({f \in snapshots : f.index = i}) = 1
    BY <1>1, <1>2, <2>1, ToldOfLast
  <2>3. \A f \in snapshots : \E i \in 0 .. macro.done : f = Output(i)
    BY <1>4 DEF Outputs
  <2>4. \A f \in snapshots :
           /\ f.of = macro.of /\ f.stage # "input" /\ f.label # "core"
           /\ f.index \in 1 .. macro.done => f.label = passes[f.index]
    BY <1>2, <1>3, <2>3
  <2>5. ~ (macro.pc = "failed" /\ macro.done < Len(passes))
    BY <1>1, <1>4
  <2>6. QED
    BY <1>4, <2>2, <2>4, <2>5
<1>5. ASSUME NEW x, x.index = macro.done + 1, x.of = macro.of,
             snapshots = Outputs \cup {x},
             x.stage = "input" => macro.pc = "failed",
             macro.pc = "failed" /\ macro.done < Len(passes) =>
               x.stage = "input" /\ x.label = passes[macro.done + 1],
             x.label = "core" <=> macro.pc = "code"
      PROVE  LET last == Cardinality(snapshots) - 1
                 at(i) == {f \in snapshots : f.index = i}
             IN /\ \A i \in 0 .. last : Cardinality(at(i)) = 1
                /\ \A f \in snapshots :
                     /\ f.of = macro.of
                     /\ f.stage = "input" =>
                          f.index = last /\ macro.pc = "failed"
                     /\ f.label = "core" <=>
                          macro.pc = "code" /\ f.index = last
                     /\ f.index \in 1 .. macro.done =>
                          f.label = passes[f.index]
                /\ macro.pc = "failed" /\ macro.done < Len(passes) =>
                     \E f \in at(last) : /\ f.stage = "input"
                                         /\ f.label = passes[macro.done + 1]
  <2> DEFINE n == macro.done + 1
  <2>1. n \in Nat /\ n # macro.done /\ n \notin 1 .. macro.done
    BY <1>1
  <2>2. /\ Cardinality(snapshots) - 1 = n
        /\ \A i \in 0 .. n :
             Cardinality({f \in snapshots : f.index = i}) = 1
        /\ {f \in snapshots : f.index = n} = {x}
        /\ \A f \in snapshots :
             f = x \/ (f.index \in 0 .. macro.done /\ f = Output(f.index)
                       /\ f.index # n)
    BY <1>5, <2>1, ToldOfLast
  <2>3. \A f \in snapshots :
           /\ f.of = macro.of
           /\ f.stage = "input" => f.index = n /\ macro.pc = "failed"
           /\ f.label = "core" <=> macro.pc = "code" /\ f.index = n
           /\ f.index \in 1 .. macro.done => f.label = passes[f.index]
    <3> HIDE DEF n
    <3>1. ASSUME NEW f \in snapshots, f.index \in 0 .. macro.done,
                 f = Output(f.index), f.index # n
          PROVE  /\ f.of = macro.of /\ f.stage # "input" /\ f.label # "core"
                 /\ f.index \in 1 .. macro.done => f.label = passes[f.index]
      BY <1>2, <1>3, <3>1
    <3>2. x.index = n
      BY <1>5 DEF n
    <3>3. QED
      BY <1>5, <2>1, <2>2, <3>1, <3>2
  <2>4. macro.pc = "failed" /\ macro.done < Len(passes) =>
          \E f \in {f \in snapshots : f.index = n} :
             f.stage = "input" /\ f.label = passes[macro.done + 1]
    <3> HIDE DEF n
    <3>1. x \in {f \in snapshots : f.index = n}
      BY <2>2
    <3>2. QED
      BY <1>5, <3>1
  <2>5. QED
    BY <2>2, <2>3, <2>4
<1>6. CASE /\ macro.pc = "code" /\ macro.done = Len(passes)
           /\ snapshots = Outputs \cup {Core}
  <2>1. /\ Core.index = macro.done + 1 /\ Core.of = macro.of
        /\ Core.stage = "output" /\ Core.label = "core"
    BY <1>6, SnapshotFacts DEF Core
  <2>2. QED
    BY <1>5, <1>6, <2>1
<1>7. CASE /\ macro.pc = "failed" /\ macro.done < Len(passes)
           /\ snapshots = Outputs \cup {PassInput}
  <2>1. /\ PassInput.index = macro.done + 1 /\ PassInput.of = macro.of
        /\ PassInput.stage = "input"
        /\ PassInput.label = passes[macro.done + 1]
    BY SnapshotFacts DEF PassInput
  <2>2. PassInput.label # "core"
    <3>1. macro.done + 1 \in 1 .. Len(passes)
      BY <1>1, <1>7
    <3>2. QED
      BY <1>1, <2>1, <3>1
  <2>3. QED
    BY <1>5, <1>7, <2>1, <2>2
<1>8. CASE /\ macro.pc = "failed" /\ macro.done = Len(passes)
           /\ snapshots = Outputs \cup {ParserInput}
  <2>1. /\ ParserInput.index = macro.done + 1 /\ ParserInput.of = macro.of
        /\ ParserInput.stage = "input" /\ ParserInput.label = "post_passes"
    BY <1>8, SnapshotFacts DEF ParserInput
  <2>2. ~ (macro.done < Len(passes))
    BY <1>1, <1>8
  <2>3. QED
    BY <1>5, <1>8, <2>1, <2>2
<1>9. QED
  BY <1>4, <1>6, <1>7, <1>8 DEF Told

-----------------------------------------------------------------------------
(* A step of the macro writes one file more, or none.                      *)
LEMMA NewSnapshot ==
  ASSUME RunInv, macro # NoMacro, macro.pass_dir = TRUE,
         snapshots = Outputs, NEW stage, NEW label
  PROVE  WithSnapshot(macro, macro.done + 1, stage, label) =
           Outputs \cup {Snapshot(macro.of, macro.done + 1, stage, label)}
<1>1. macro.done \in Nat
  BY RunFacts
<1>2. \A i : Output(i).index = i
  BY SnapshotFacts DEF Output
<1>3. \A f \in Outputs : f.index # macro.done + 1
  BY <1>1, <1>2 DEF Outputs
<1>4. {f \in snapshots : <<f.index, f.stage, f.label>>
                           # <<macro.done + 1, stage, label>>} = Outputs
  BY <1>3
<1>5. QED
  BY <1>4 DEF WithSnapshot

LEMMA InvokeTold ==
  ASSUME NEW s, NEW t, NEW log, snapshots = {},
         Invoke(s, t, log, TRUE)
  PROVE  Told' /\ macro'.pass_dir = TRUE
<1>1. /\ macro'.pc = "passes" /\ macro'.of = s /\ macro'.done = 0
      /\ macro'.pass_dir = TRUE
      /\ snapshots' = WithSnapshot(macro', 0, "output", "original")
  BY DEF Invoke
<1>2. snapshots' = {Snapshot(s, 0, "output", "original")}
  BY <1>1 DEF WithSnapshot
<1>3. Outputs' = {Output(0)'}
  BY <1>1 DEF Outputs, Output, Label
<1>4. Output(0)' = Snapshot(s, 0, "output", "original")
  BY <1>1 DEF Output, Label, Snapshot
<1>5. QED
  BY <1>1, <1>2, <1>3, <1>4 DEF Told

LEMMA MacroTold ==
  ASSUME FreshInv, RunInv, Macro, macro.pass_dir = TRUE, Told
  PROVE  Told' /\ macro'.pass_dir = TRUE
<1>1. /\ macro.pc \in {"passes", "analysis", "validation", "codegen"}
      /\ macro # NoMacro
  <2>1. macro.pc \in {"passes", "analysis", "validation", "codegen"}
    BY MacroFacts, Zenon
  <2>2. QED
    BY <2>1 DEF NoMacro
<1>2. {"pc", "of", "target", "log", "app", "done", "bus", "pass_dir"}
        \subseteq DOMAIN macro
  BY <1>1 DEF FreshInv, MacroOK, RunInv, RunOK
<1>3. /\ macro.done \in Nat /\ Len(passes) \in Nat
      /\ macro.done <= Len(passes)
  BY <1>1, RunFacts
<1>4. snapshots = Outputs
  BY <1>1 DEF Told
<1>5. macro'.of = macro.of /\ macro'.pass_dir = macro.pass_dir
  BY <1>2, MacroFacts
<1>6. passes' = passes
  BY <1>5 DEF passes
<1>7. CASE /\ UNCHANGED snapshots /\ macro'.done = macro.done
           /\ macro'.pc # "code"
           /\ macro'.pc = "failed" => macro.done = Len(passes)
  <2>1. Outputs' = Outputs
    BY <1>5, <1>6, <1>7 DEF Outputs, Output, Label
  <2>2. QED
    BY <1>4, <1>5, <1>6, <1>7, <2>1 DEF Told
<1>8. CASE RunPass
  <2>1. /\ macro.pc = "passes" /\ macro.done < Len(passes)
        /\ \E result : \/ PassOutput(passes[macro.done + 1], result)
                       \/ PassError(passes[macro.done + 1], result)
                       \/ PassPanic(passes[macro.done + 1], result)
    BY <1>8, Zenon DEF RunPass
  <2>2. CASE \E result : PassOutput(passes[macro.done + 1], result)
    <3>1. /\ macro'.done = macro.done + 1 /\ macro'.pc = "passes"
          /\ snapshots' = WithSnapshot(macro, macro.done + 1, "output",
                                       passes[macro.done + 1])
      BY <1>2, <2>1, <2>2 DEF PassOutput
    <3>2. snapshots' = Outputs \cup {Snapshot(macro.of, macro.done + 1,
                                       "output", passes[macro.done + 1])}
      BY <1>1, <1>4, <3>1, NewSnapshot
    <3>3. Snapshot(macro.of, macro.done + 1, "output",
                   passes[macro.done + 1]) = Output(macro.done + 1)
      BY <1>3 DEF Output, Label
    <3>4. Outputs' = {Output(i) : i \in 0 .. macro.done + 1}
      BY <1>5, <1>6, <3>1 DEF Outputs, Output, Label
    <3>5. {Output(i) : i \in 0 .. macro.done + 1}
            = Outputs \cup {Output(macro.done + 1)}
      BY <1>3 DEF Outputs
    <3>6. QED
      BY <1>5, <3>1, <3>2, <3>3, <3>4, <3>5 DEF Told
  <2>3. CASE \E result : PassError(passes[macro.done + 1], result)
    <3>1. /\ macro'.done = macro.done /\ macro'.pc = "failed"
          /\ snapshots' = WithSnapshot(macro, macro.done + 1, "input",
                                       passes[macro.done + 1])
      BY <1>2, <2>1, <2>3 DEF PassError, Finish
    <3>2. snapshots' = Outputs \cup {PassInput}
      BY <1>1, <1>4, <3>1, NewSnapshot DEF PassInput
    <3>3. Outputs' = Outputs /\ PassInput' = PassInput
      BY <1>5, <1>6, <3>1 DEF Outputs, Output, Label, PassInput
    <3>4. QED
      BY <1>5, <1>6, <2>1, <3>1, <3>2, <3>3 DEF Told
  <2>4. CASE \E result : PassPanic(passes[macro.done + 1], result)
    <3>1. UNCHANGED snapshots /\ macro'.done = macro.done
          /\ macro'.pc = "panicked"
      BY <1>2, <2>1, <2>4 DEF PassPanic, Finish
    <3>2. QED
      BY <1>7, <3>1
  <2>5. QED
    BY <2>1, <2>2, <2>3, <2>4
<1>9. CASE ParseApp \/ AnalyseApp \/ ValidateApp
  <2>1. macro.done = Len(passes) /\ macro'.done = macro.done
    BY <1>1, <1>2, <1>9 DEF ParseApp, AnalyseApp, ValidateApp, Finish,
                            RunInv, RunOK, PastPasses
  <2>2. CASE UNCHANGED snapshots
    <3>1. macro'.pc # "code"
      BY <1>2, <1>9 DEF ParseApp, AnalyseApp, ValidateApp, Finish
    <3>2. QED
      BY <1>7, <2>1, <2>2, <3>1
  <2>3. CASE /\ Finish("failed")
             /\ snapshots' = WithSnapshot(macro, Len(passes) + 1, "input",
                                          "post_passes")
    <3>1. macro'.pc = "failed"
      BY <1>2, <2>3 DEF Finish
    <3>2. snapshots' = Outputs \cup {ParserInput}
      BY <1>1, <1>4, <2>1, <2>3, NewSnapshot DEF ParserInput
    <3>3. Outputs' = Outputs /\ ParserInput' = ParserInput
      BY <1>5, <1>6, <2>1 DEF Outputs, Output, Label, ParserInput
    <3>4. QED
      BY <1>5, <1>6, <2>1, <3>1, <3>2, <3>3 DEF Told
  <2>4. QED
    BY <1>9, <2>2, <2>3 DEF ParseApp, AnalyseApp, ValidateApp
<1>10. CASE Generate
  <2>1. /\ macro.done = Len(passes) /\ macro'.done = macro.done
        /\ macro'.pc = "code"
        /\ snapshots' = WithSnapshot(macro, Len(passes) + 1, "output", "core")
    BY <1>1, <1>2, <1>10 DEF Generate, Finish, RunInv, RunOK, PastPasses
  <2>2. snapshots' = Outputs \cup {Core}
    BY <1>1, <1>4, <2>1, NewSnapshot DEF Core
  <2>3. Outputs' = Outputs /\ Core' = Core
    BY <1>5, <1>6, <2>1 DEF Outputs, Output, Label, Core
  <2>4. QED
    BY <1>5, <1>6, <2>1, <2>2, <2>3 DEF Told
<1>11. QED
  BY <1>8, <1>9, <1>10 DEF Macro, PipelineNext

LEMMA InitTell == Init => TellInv
  BY DEF Init, PipelineInit, TellInv, NoTool, Checking

LEMMA CheckStepTell ==
  ASSUME IInv, FreshInv, TellInv, CheckStep
  PROVE  TellInv'
<1>1. CASE \E t \in Targets : \E merge, force, pass_dir \in BOOLEAN :
             Expand(t, merge, force, pass_dir)
  <2>1. PICK pass_dir \in BOOLEAN :
          /\ {"pass_dir", "todo"} \subseteq DOMAIN tool' /\ tool'.pc = "check"
          /\ tool'.pass_dir = pass_dir
          /\ snapshots' = IF pass_dir THEN clean_pass_snapshots ELSE snapshots
    BY <1>1 DEF Expand
  <2>2. QED
    BY <2>1 DEF TellInv, clean_pass_snapshots
<1>2. CASE CargoCheck \/ CheckReturns \/ Collect \/ Beautify
  <2>1. /\ {"pc", "target", "pass_dir", "todo"} \subseteq DOMAIN tool
        /\ tool.pc \in Checking
    <3>1. tool.pc \in Checking
      BY <1>2 DEF CargoCheck, CheckReturns, Collect, Beautify, Checking
    <3>2. QED
      BY <3>1 DEF IInv, ToolOK, NoTool, Checking, TellInv
  <2>2. CASE CargoCheck
    <3>1. tool.pc = "check" /\ macro = NoMacro
      BY <2>2 DEF CargoCheck, FreshInv, OwnMacro
    <3>2. CASE At("collect") /\ UNCHANGED pipelineVars
      <4>1. /\ tool'.pc = "collect" /\ macro' = NoMacro
            /\ DOMAIN tool' = DOMAIN tool
        BY <2>1, <3>1, <3>2 DEF At, pipelineVars
      <4>2. QED
        BY <2>1, <4>1 DEF TellInv, NoMacro
    <3>3. CASE /\ At("macro")
               /\ Invoke(files[tool.target].of, tool.target, TRUE,
                         tool.pass_dir)
      <4>1. /\ tool'.pc = "macro" /\ tool'.pass_dir = tool.pass_dir
            /\ DOMAIN tool' = DOMAIN tool
        BY <2>1, <3>3 DEF At
      <4>2. tool.pass_dir = TRUE => Told' /\ macro'.pass_dir = TRUE
        BY <3>1, <3>3, InvokeTold DEF TellInv
      <4>3. QED
        BY <2>1, <4>1, <4>2 DEF TellInv
    <3>4. QED
      BY <2>2, <3>2, <3>3 DEF CargoCheck
  <2>3. CASE CheckReturns \/ Collect \/ Beautify
    <3>1. /\ UNCHANGED <<macro, snapshots>>
          /\ tool.pc \in {"macro", "collect", "beautify"}
      BY <2>3 DEF CheckReturns, Collect, Beautify, pipelineVars
    <3>2. \/ tool' = NoTool
          \/ /\ tool'.pc \in {"collect", "beautify"}
             /\ tool'.pass_dir = tool.pass_dir /\ DOMAIN tool' = DOMAIN tool
      <4>1. CASE CheckReturns
        BY <2>1, <4>1 DEF CheckReturns, At
      <4>2. CASE Collect
        BY <2>1, <4>2 DEF Collect
      <4>3. CASE Beautify
        <5>1. PICK u : tool' = [tool EXCEPT !.todo = tool.todo \ {u}]
          BY <4>3 DEF Beautify
        <5>2. tool.pc = "beautify"
          BY <4>3 DEF Beautify
        <5>3. QED
          BY <2>1, <5>1, <5>2
      <4>4. QED
        BY <2>3, <4>1, <4>2, <4>3
    <3>3. Told => Told'
      BY <3>1 DEF Told, Outputs, Output, Label, Core, PassInput, ParserInput,
                  passes
    <3>4. CASE tool' = NoTool
      BY <3>4 DEF TellInv, NoTool, Checking
    <3>5. CASE /\ tool'.pc \in {"collect", "beautify"}
               /\ tool'.pass_dir = tool.pass_dir /\ DOMAIN tool' = DOMAIN tool
      BY <2>1, <3>1, <3>3, <3>5 DEF TellInv
    <3>6. QED
      BY <3>2, <3>4, <3>5
  <2>4. QED
    BY <1>2, <2>2, <2>3
<1>3. QED
  BY <1>1, <1>2 DEF CheckStep

LEMMA TellStep ==
  ASSUME IInv, FreshInv, RunInv, TellInv, [Next]_vars
  PROVE  TellInv'
<1>1. CASE CheckStep
  BY <1>1, CheckStepTell
<1>2. CASE Macro
  <2>1. UNCHANGED tool /\ macro # NoMacro
    <3>1. macro.pc # "off"
      BY <1>2, MacroFacts, Zenon
    <3>2. QED
      BY <1>2, <3>1 DEF Macro, toolVars, NoMacro
  <2>2. tool.pc # "check"
    BY <2>1 DEF FreshInv, OwnMacro
  <2>3. macro.pass_dir = TRUE /\ Told => Told' /\ macro'.pass_dir = TRUE
    BY <1>2, MacroTold
  <2>4. QED
    BY <2>1, <2>2, <2>3 DEF TellInv
<1>3. ASSUME tool'.pc \notin Checking
      PROVE  TellInv'
  BY <1>3 DEF TellInv, Checking
<1>4. CASE \E t \in Targets : Build(t)
  <2>1. tool' = tool /\ tool = NoTool
    BY <1>4 DEF Build, toolVars, FreshInv, OwnMacro, WorkedOn
  <2>2. QED
    BY <1>3, <2>1 DEF NoTool, Checking
<1>5. CASE \/ Flash \/ Device \/ UNCHANGED vars
           \/ \E t \in Targets : \E s \in Edits[t] : Edit(t, s)
  <2>1. UNCHANGED <<tool, macro, snapshots>>
    BY <1>5 DEF Flash, Device, vars, toolVars, pipelineVars, Edit
  <2>2. Told => Told'
    BY <2>1 DEF Told, Outputs, Output, Label, Core, PassInput, ParserInput,
                passes
  <2>3. QED
    BY <2>1, <2>2 DEF TellInv
<1>6. CASE \/ Choose \/ WriteMerged \/ RemoveExpansions \/ Interrupt
           \/ \E t \in Targets, named, remove \in BOOLEAN :
                RemoveFile(t, named, remove)
  <2>1. tool' = NoTool \/ tool'.pc \in {"backup", "rename"}
    BY <1>6 DEF Choose, WriteMerged, RemoveExpansions, Interrupt, RemoveFile
  <2>2. QED
    BY <1>3, <2>1 DEF NoTool, Checking
<1>7. CASE WriteBackup \/ RenameBackup
  <2>1. "pc" \in DOMAIN tool
    BY <1>7 DEF WriteBackup, RenameBackup, IInv, ToolOK, NoTool, Checking
  <2>2. tool' = NoTool \/ tool'.pc \in {"merge", "remove_expansions"}
    BY <1>7, <2>1 DEF WriteBackup, RenameBackup, At
  <2>3. QED
    BY <1>3, <2>2 DEF NoTool, Checking
<1>8. QED
  BY NextCases, <1>1, <1>2, <1>4, <1>5, <1>6, <1>7, Zenon

(* For every package, whatever passes its distributions bind: once the     *)
(* check of a call with --expand-passes is over, the pass directory holds  *)
(* one file per stage that run reached, and nothing else (expand.rs,       *)
(* flow.rs).                                                               *)
THEOREM SnapshotsAlwaysTell == Spec => []SnapshotsTellTheRun
<1>1. IInv /\ FreshInv /\ RunInv /\ TellInv => SnapshotsTellTheRun
  <2> SUFFICES ASSUME FreshInv, RunInv, TellInv,
                      tool.pc \in {"collect", "beautify"}, tool.pass_dir = TRUE,
                      macro # NoMacro
               PROVE  SnapshotsTellTheRun
    BY DEF SnapshotsTellTheRun
  <2>1. macro.pc \in Finished /\ Told
    BY DEF FreshInv, OwnMacro, TellInv
  <2>2. QED
    BY <2>1, ToldIsTelling DEF SnapshotsTellTheRun
<1>2. IInv /\ FreshInv /\ RunInv /\ TellInv /\ [Next]_vars => TellInv'
  BY TellStep
<1>3. Spec => []TellInv
  BY <1>2, InitTell, IInvAlways, FreshInvAlways, RunInvAlways, PTL DEF Spec
<1>4. QED
  BY <1>1, <1>3, IInvAlways, FreshInvAlways, RunInvAlways, PTL

-----------------------------------------------------------------------------
(* The boot of a core: what is written and what may interrupt it at each   *)
(* statement of the entry function.                                        *)
Slots(c) == {<<"slot", t.name>> : t \in AsyncTasks(c)}
LateStatics(c) == TaskStatics(late_resource_tasks(image, c))
GeneratedStatics(c) == TaskStatics({t \in Tasks(c) : IsGenerated(t)})
IdleStatics(c) == TaskStatics({i \in IdleTask(c) : IsGenerated(i)})

BootedTo(c) ==
  /\ chip[c].at \in 1 .. 11
  /\ {"at", "written", "unmasked", "interrupts"} \subseteq DOMAIN chip[c]
  /\ chip[c].at <= 3 => chip[c].unmasked = {}
  /\ chip[c].at \in 3 .. 8 => chip[c].interrupts = FALSE
  /\ chip[c].at > 1 => Slots(c) \subseteq chip[c].written
  /\ chip[c].at > 4 => SharedStatic(c) \subseteq chip[c].written
  /\ chip[c].at > 5 => LateStatics(c) \subseteq chip[c].written
  /\ chip[c].at > 6 => GeneratedStatics(c) \subseteq chip[c].written
  /\ chip[c].at > 9 => IdleStatics(c) \subseteq chip[c].written

BootInv ==
  image # NoImage =>
    /\ pre_codegen_validation(image).tag = "ok"
    /\ chip = [c \in CoreIds |-> chip[c]]
    /\ \A c \in CoreIds : BootedTo(c)

(* Only a validated application gets code.                                 *)
Validated ==
  macro.pc \in {"codegen", "code"} =>
    pre_codegen_validation(macro.app).tag = "ok"

(* Ten statements, in this order.                                          *)
LEMMA EntryFunctionIs ==
  ASSUME NEW c
  PROVE  EntryFunction(c) =
           << Write(Slots(c)), Do("interrupts_off"), Do("init"),
              Write(SharedStatic(c)), Write(LateStatics(c)),
              Write(GeneratedStatics(c)),
              Unmask(used_irqs(image, c) \ Exceptions(c)),
              Do("interrupts_on"), Write(IdleStatics(c)), Do("idle") >>
<1>1. ASSUME NEW a1, a1 = Write(Slots(c)), NEW a2, a2 = Do("interrupts_off"),
             NEW a3, a3 = Do("init"), NEW a4, a4 = Write(SharedStatic(c)),
             NEW a5, a5 = Write(LateStatics(c)),
             NEW a6, a6 = Write(GeneratedStatics(c)),
             NEW a7, a7 = Unmask(used_irqs(image, c) \ Exceptions(c)),
             NEW a8, a8 = Do("interrupts_on"),
             NEW a9, a9 = Write(IdleStatics(c)), NEW a10, a10 = Do("idle")
      PROVE  EntryFunction(c) = <<a1, a2, a3, a4, a5, a6, a7, a8, a9, a10>>
  <2> DEFINE S == {a1, a2, a3, a4, a5, a6, a7, a8, a9, a10}
  <2>1. <<a1>> \o <<a2>>
          = <<a1, a2>>
    <3>1. /\ <<a1>> \in Seq(S) /\ <<a2>> \in Seq(S)
          /\ <<a1, a2>> \in Seq(S)
      OBVIOUS
    <3> DEFINE u == <<a1>>
               v == <<a2>>
               w == <<a1, a2>>
    <3>2. /\ u \o v \in Seq(S) /\ Len(u \o v) = 2
          /\ \A i \in 1 .. 2 : (u \o v)[i] = w[i]
      BY <3>1, ConcatProperties
    <3>3. QED
      BY <3>1, <3>2, SeqEqual
  <2>2. <<a1, a2>> \o <<a3, a4, a5>>
          = <<a1, a2, a3, a4, a5>>
    <3>1. /\ <<a1, a2>> \in Seq(S) /\ <<a3, a4, a5>> \in Seq(S)
          /\ <<a1, a2, a3, a4, a5>> \in Seq(S)
      OBVIOUS
    <3> DEFINE u == <<a1, a2>>
               v == <<a3, a4, a5>>
               w == <<a1, a2, a3, a4, a5>>
    <3>2. /\ u \o v \in Seq(S) /\ Len(u \o v) = 5
          /\ \A i \in 1 .. 5 : (u \o v)[i] = w[i]
      BY <3>1, ConcatProperties
    <3>3. QED
      BY <3>1, <3>2, SeqEqual
  <2>3. <<a1, a2, a3, a4, a5>> \o <<a6>>
          = <<a1, a2, a3, a4, a5, a6>>
    <3>1. /\ <<a1, a2, a3, a4, a5>> \in Seq(S) /\ <<a6>> \in Seq(S)
          /\ <<a1, a2, a3, a4, a5, a6>> \in Seq(S)
      OBVIOUS
    <3> DEFINE u == <<a1, a2, a3, a4, a5>>
               v == <<a6>>
               w == <<a1, a2, a3, a4, a5, a6>>
    <3>2. /\ u \o v \in Seq(S) /\ Len(u \o v) = 6
          /\ \A i \in 1 .. 6 : (u \o v)[i] = w[i]
      BY <3>1, ConcatProperties
    <3>3. QED
      BY <3>1, <3>2, SeqEqual
  <2>4. <<a1, a2, a3, a4, a5, a6>> \o <<a7>>
          = <<a1, a2, a3, a4, a5, a6, a7>>
    <3>1. /\ <<a1, a2, a3, a4, a5, a6>> \in Seq(S) /\ <<a7>> \in Seq(S)
          /\ <<a1, a2, a3, a4, a5, a6, a7>> \in Seq(S)
      OBVIOUS
    <3> DEFINE u == <<a1, a2, a3, a4, a5, a6>>
               v == <<a7>>
               w == <<a1, a2, a3, a4, a5, a6, a7>>
    <3>2. /\ u \o v \in Seq(S) /\ Len(u \o v) = 7
          /\ \A i \in 1 .. 7 : (u \o v)[i] = w[i]
      BY <3>1, ConcatProperties
    <3>3. QED
      BY <3>1, <3>2, SeqEqual
  <2>5. <<a1, a2, a3, a4, a5, a6, a7>> \o <<a8>>
          = <<a1, a2, a3, a4, a5, a6, a7, a8>>
    <3>1. /\ <<a1, a2, a3, a4, a5, a6, a7>> \in Seq(S) /\ <<a8>> \in Seq(S)
          /\ <<a1, a2, a3, a4, a5, a6, a7, a8>> \in Seq(S)
      OBVIOUS
    <3> DEFINE u == <<a1, a2, a3, a4, a5, a6, a7>>
               v == <<a8>>
               w == <<a1, a2, a3, a4, a5, a6, a7, a8>>
    <3>2. /\ u \o v \in Seq(S) /\ Len(u \o v) = 8
          /\ \A i \in 1 .. 8 : (u \o v)[i] = w[i]
      BY <3>1, ConcatProperties
    <3>3. QED
      BY <3>1, <3>2, SeqEqual
  <2>6. <<a1, a2, a3, a4, a5, a6, a7, a8>> \o <<a9, a10>>
          = <<a1, a2, a3, a4, a5, a6, a7, a8, a9, a10>>
    <3>1. /\ <<a1, a2, a3, a4, a5, a6, a7, a8>> \in Seq(S) /\ <<a9, a10>> \in Seq(S)
          /\ <<a1, a2, a3, a4, a5, a6, a7, a8, a9, a10>> \in Seq(S)
      OBVIOUS
    <3> DEFINE u == <<a1, a2, a3, a4, a5, a6, a7, a8>>
               v == <<a9, a10>>
               w == <<a1, a2, a3, a4, a5, a6, a7, a8, a9, a10>>
    <3>2. /\ u \o v \in Seq(S) /\ Len(u \o v) = 10
          /\ \A i \in 1 .. 10 : (u \o v)[i] = w[i]
      BY <3>1, ConcatProperties
    <3>3. QED
      BY <3>1, <3>2, SeqEqual
  <2>7. /\ entry_start(c) = <<a1>> /\ init_system(c) = <<a3, a4, a5>>
        /\ generated_task_inits(c) = <<a6>> /\ post_init(c) = <<a7>>
        /\ idle_call(c) = <<a9, a10>>
    BY <1>1 DEF entry_start, init_system, generated_task_inits, post_init,
                idle_call, Slots, LateStatics, GeneratedStatics, IdleStatics
  <2> HIDE DEF S
  <2>8. EntryFunction(c) =
          <<a1>> \o <<a2>> \o <<a3, a4, a5>> \o <<a6>> \o <<a7>> \o <<a8>>
          \o <<a9, a10>>
    BY <1>1, <2>7, Zenon DEF EntryFunction
  <2>9. QED
    BY <2>1, <2>2, <2>3, <2>4, <2>5, <2>6, <2>8, Zenon
<1>2. QED
  BY <1>1

LEMMA Statements ==
  /\ \A statics : Write(statics).do = "write" /\ Write(statics).what = statics
  /\ \A irqs : Unmask(irqs).do = "unmask" /\ Unmask(irqs).what = irqs
  /\ \A action : Do(action).do = action
  BY DEF Write, Unmask, Do

(* What each kind of statement changes.                                    *)
LEMMA PerformFacts ==
  \A c, s : BootedTo(c) =>
    (s.do \in {"write", "unmask", "init", "interrupts_off",
              "interrupts_on", "idle"} =>
       /\ DOMAIN Perform(c, s) = DOMAIN chip[c]
       /\ Perform(c, s).at = chip[c].at + 1
       /\ s.do = "write" =>
            Perform(c, s).written = chip[c].written \cup s.what
       /\ s.do # "write" => Perform(c, s).written = chip[c].written
       /\ s.do \notin {"unmask", "init"} =>
            Perform(c, s).unmasked = chip[c].unmasked
       /\ s.do \notin {"interrupts_off", "interrupts_on"} =>
            Perform(c, s).interrupts = chip[c].interrupts
       /\ s.do = "interrupts_off" => Perform(c, s).interrupts = FALSE)
<1> SUFFICES ASSUME NEW c, NEW s, BootedTo(c)
             PROVE  s.do \in {"write", "unmask", "init", "interrupts_off",
                             "interrupts_on", "idle"} =>
                      /\ DOMAIN Perform(c, s) = DOMAIN chip[c]
                      /\ Perform(c, s).at = chip[c].at + 1
                      /\ s.do = "write" =>
                           Perform(c, s).written = chip[c].written \cup s.what
                      /\ s.do # "write" => Perform(c, s).written = chip[c].written
                      /\ s.do \notin {"unmask", "init"} =>
                           Perform(c, s).unmasked = chip[c].unmasked
                      /\ s.do \notin {"interrupts_off", "interrupts_on"} =>
                           Perform(c, s).interrupts = chip[c].interrupts
                      /\ s.do = "interrupts_off" => Perform(c, s).interrupts = FALSE
  OBVIOUS
<1> DEFINE after == [chip[c] EXCEPT !.at = chip[c].at + 1]
<1>1. {"at", "written", "unmasked", "interrupts"} \subseteq DOMAIN chip[c]
  BY DEF BootedTo
<1>2. /\ after.at = chip[c].at + 1 /\ after.written = chip[c].written
      /\ after.unmasked = chip[c].unmasked
      /\ after.interrupts = chip[c].interrupts
      /\ DOMAIN after = DOMAIN chip[c]
  BY <1>1
<1>3. /\ s.do = "write" =>
           Perform(c, s) = [after EXCEPT !.written = after.written \cup s.what]
      /\ s.do = "unmask" =>
           Perform(c, s) = [after EXCEPT !.unmasked = after.unmasked \cup s.what]
      /\ s.do = "init" =>
           Perform(c, s) = [after EXCEPT !.unmasked = Exceptions(c)]
      /\ s.do = "interrupts_off" =>
           Perform(c, s) = [after EXCEPT !.interrupts = FALSE]
      /\ s.do = "interrupts_on" =>
           Perform(c, s) = [after EXCEPT !.interrupts = TRUE]
      /\ s.do = "idle" => Perform(c, s) = after
  BY DEF Perform
<1> HIDE DEF after
<1>4. QED
  BY <1>1, <1>2, <1>3

LEMMA ExecuteStep ==
  ASSUME BootInv, NEW c \in CoreIds, Execute(c)
  PROVE  BootInv'
<1>0. PICK s : s = EntryFunction(c)[chip[c].at]
  OBVIOUS
<1> DEFINE new == Perform(c, s)
<1>1. /\ image # NoImage /\ image' = image
      /\ chip' = [chip EXCEPT ![c] = new]
      /\ chip[c].at <= Len(EntryFunction(c))
  BY <1>0 DEF Execute
<1>2. /\ chip = [d \in CoreIds |-> chip[d]]
      /\ \A d \in CoreIds : BootedTo(d)
      /\ pre_codegen_validation(image).tag = "ok"
  BY <1>1 DEF BootInv
<1>3. Len(EntryFunction(c)) = 10
  BY EntryFunctionIs
<1>4. chip[c].at \in 1 .. 10 /\ BootedTo(c)
  BY <1>1, <1>2, <1>3 DEF BootedTo
<1>5. s = << Write(Slots(c)), Do("interrupts_off"), Do("init"),
             Write(SharedStatic(c)), Write(LateStatics(c)),
             Write(GeneratedStatics(c)),
             Unmask(used_irqs(image, c) \ Exceptions(c)),
             Do("interrupts_on"), Write(IdleStatics(c)),
             Do("idle") >>[chip[c].at]
  BY <1>0, EntryFunctionIs
<1>6. /\ chip[c].at = 1 => s = Write(Slots(c))
      /\ chip[c].at = 2 => s = Do("interrupts_off")
      /\ chip[c].at = 3 => s = Do("init")
      /\ chip[c].at = 4 => s = Write(SharedStatic(c))
      /\ chip[c].at = 5 => s = Write(LateStatics(c))
      /\ chip[c].at = 6 => s = Write(GeneratedStatics(c))
      /\ chip[c].at = 7 => s.do = "unmask"
      /\ chip[c].at = 8 => s = Do("interrupts_on")
      /\ chip[c].at = 9 => s = Write(IdleStatics(c))
      /\ chip[c].at = 10 => s = Do("idle")
  BY <1>5, Statements
<1>7. /\ DOMAIN new = DOMAIN chip[c] /\ new.at = chip[c].at + 1
      /\ chip[c].at = 1 => new.written = chip[c].written \cup Slots(c)
      /\ chip[c].at = 4 => new.written = chip[c].written \cup SharedStatic(c)
      /\ chip[c].at = 5 => new.written = chip[c].written \cup LateStatics(c)
      /\ chip[c].at = 6 =>
           new.written = chip[c].written \cup GeneratedStatics(c)
      /\ chip[c].at = 9 => new.written = chip[c].written \cup IdleStatics(c)
      /\ chip[c].at \notin {1, 4, 5, 6, 9} => new.written = chip[c].written
      /\ chip[c].at \notin {3, 7} => new.unmasked = chip[c].unmasked
      /\ chip[c].at = 2 => new.interrupts = FALSE
      /\ chip[c].at \notin {2, 8} => new.interrupts = chip[c].interrupts
  <2>1. s.do \in {"write", "unmask", "init", "interrupts_off",
                  "interrupts_on", "idle"} =>
          /\ DOMAIN Perform(c, s) = DOMAIN chip[c]
          /\ Perform(c, s).at = chip[c].at + 1
          /\ s.do = "write" =>
               Perform(c, s).written = chip[c].written \cup s.what
          /\ s.do # "write" => Perform(c, s).written = chip[c].written
          /\ s.do \notin {"unmask", "init"} =>
               Perform(c, s).unmasked = chip[c].unmasked
          /\ s.do \notin {"interrupts_off", "interrupts_on"} =>
               Perform(c, s).interrupts = chip[c].interrupts
          /\ s.do = "interrupts_off" => Perform(c, s).interrupts = FALSE
    <3>1. BootedTo(c)
      BY <1>4
    <3>2. QED
      BY <3>1, PerformFacts
  <2>2. s.do \in {"write", "unmask", "init", "interrupts_off",
                  "interrupts_on", "idle"}
    BY <1>4, <1>6, Statements
  <2>3. QED
    BY <1>4, <1>6, <2>1, <2>2, Statements DEF new
<1> HIDE DEF new
<1>8. /\ new.at \in 1 .. 11
      /\ {"at", "written", "unmasked", "interrupts"} \subseteq DOMAIN new
      /\ new.at <= 3 => new.unmasked = {}
      /\ new.at \in 3 .. 8 => new.interrupts = FALSE
      /\ new.at > 1 => Slots(c) \subseteq new.written
      /\ new.at > 4 => SharedStatic(c) \subseteq new.written
      /\ new.at > 5 => LateStatics(c) \subseteq new.written
      /\ new.at > 6 => GeneratedStatics(c) \subseteq new.written
      /\ new.at > 9 => IdleStatics(c) \subseteq new.written
  BY <1>4, <1>7 DEF BootedTo
<1>9. /\ Slots(c)' = Slots(c) /\ SharedStatic(c)' = SharedStatic(c)
      /\ LateStatics(c)' = LateStatics(c)
      /\ GeneratedStatics(c)' = GeneratedStatics(c)
      /\ IdleStatics(c)' = IdleStatics(c) /\ CoreIds' = CoreIds
  BY <1>1 DEF Slots, SharedStatic, LateStatics, GeneratedStatics, IdleStatics,
              CoreIds, AsyncTasks, Tasks, IdleTask
<1>10. /\ \A d \in CoreIds : d # c => chip'[d] = chip[d]
       /\ chip' = [d \in CoreIds |-> chip'[d]] /\ chip'[c] = new
  BY <1>1, <1>2
<1>11. BootedTo(c)'
  BY <1>8, <1>9, <1>10 DEF BootedTo
<1>12. ASSUME NEW d \in CoreIds, d # c
       PROVE  BootedTo(d)'
  <2>1. /\ Slots(d)' = Slots(d) /\ SharedStatic(d)' = SharedStatic(d)
        /\ LateStatics(d)' = LateStatics(d)
        /\ GeneratedStatics(d)' = GeneratedStatics(d)
        /\ IdleStatics(d)' = IdleStatics(d)
    BY <1>1 DEF Slots, SharedStatic, LateStatics, GeneratedStatics,
                IdleStatics, AsyncTasks, Tasks, IdleTask
  <2>2. chip'[d] = chip[d] /\ BootedTo(d)
    BY <1>2, <1>10, <1>12
  <2>3. QED
    BY <2>1, <2>2 DEF BootedTo
<1>13. \A d \in CoreIds : BootedTo(d)'
  BY <1>11, <1>12
<1>14. pre_codegen_validation(image)' = pre_codegen_validation(image)
  BY <1>1
<1>15. QED
  BY <1>1, <1>2, <1>9, <1>10, <1>13, <1>14 DEF BootInv

LEMMA FlashStep ==
  ASSUME Validated, Flash
  PROVE  BootInv'
<1>1. /\ image' = macro.app /\ macro.pc = "code"
      /\ chip' = [c \in 0 .. cores(macro.app) - 1 |-> AtReset]
  BY DEF Flash, PowerOn
<1>2. pre_codegen_validation(image)'.tag = "ok"
  BY <1>1 DEF Validated
<1>3. CoreIds' = 0 .. cores(macro.app) - 1
  BY <1>1 DEF CoreIds
<1>4. ASSUME NEW c \in CoreIds'
      PROVE  BootedTo(c)'
  <2>1. chip'[c] = AtReset
    BY <1>1, <1>3
  <2>2. QED
    BY <2>1 DEF BootedTo, AtReset
<1>5. chip' = [c \in CoreIds' |-> chip'[c]]
  BY <1>1, <1>3
<1>6. QED
  BY <1>2, <1>4, <1>5 DEF BootInv

(* A step that changes nothing of the device.                              *)
LEMMA DeviceIdle ==
  ASSUME BootInv, UNCHANGED bootVars
  PROVE  BootInv'
<1>1. image' = image /\ chip' = chip
  BY DEF bootVars
<1>2. \A c : BootedTo(c)' = BootedTo(c)
  BY <1>1 DEF BootedTo, Slots, SharedStatic, LateStatics, GeneratedStatics,
              IdleStatics, AsyncTasks, Tasks, IdleTask
<1>3. CoreIds' = CoreIds
  BY <1>1 DEF CoreIds
<1>4. QED
  BY <1>1, <1>2, <1>3 DEF BootInv

LEMMA BootStep ==
  ASSUME BootInv, Validated, [Next]_vars
  PROVE  BootInv'
<1>1. CASE Device
  <2>1. PICK c \in CoreIds : Execute(c)
    BY <1>1 DEF Device, BootNext
  <2>2. QED
    BY <2>1, ExecuteStep
<1>2. CASE Flash
  BY <1>2, FlashStep
<1>3. ASSUME ~ Device, ~ Flash
      PROVE  UNCHANGED bootVars
  BY <1>3, NextCases
     DEF Macro, Build, vars, Edit, CheckStep, Expand, CargoCheck, CheckReturns,
         Collect, Beautify, Choose, WriteBackup, WriteMerged, RemoveFile,
         RenameBackup, RemoveExpansions, Interrupt
<1>4. QED
  BY <1>1, <1>2, <1>3, DeviceIdle

LEMMA ValidatedStep ==
  ASSUME IInv, FreshInv, RunInv, Validated, [Next]_vars
  PROVE  Validated'
<1>1. ASSUME macro'.pc \notin {"codegen", "code"} \/ UNCHANGED macro
      PROVE  Validated'
  BY <1>1 DEF Validated
<1>2. CASE Macro
  <2>1. {"pc", "app", "done", "bus"} \subseteq DOMAIN macro
    <3>1. macro.pc # "off"
      BY <1>2, MacroFacts, Zenon
    <3>2. macro # NoMacro
      BY <3>1 DEF NoMacro
    <3>3. QED
      BY <3>2 DEF FreshInv, MacroOK
  <2>2. CASE RunPass
    <3>1. macro'.pc \in {"passes", "failed", "panicked"}
      <4>1. /\ macro.pc = "passes"
            /\ \E pass, result : \/ PassOutput(pass, result)
                                 \/ PassError(pass, result)
                                 \/ PassPanic(pass, result)
        BY <2>2, Zenon DEF RunPass
      <4>2. QED
        BY <2>1, <4>1 DEF PassOutput, PassError, PassPanic, Finish
    <3>2. QED
      BY <1>1, <3>1
  <2>3. CASE ParseApp \/ AnalyseApp
    BY <1>1, <2>1, <2>3 DEF ParseApp, AnalyseApp, Finish
  <2>4. CASE ValidateApp
    <3>1. /\ macro'.app = macro.app
          /\ macro'.pc = "codegen" =>
               pre_codegen_validation(macro.app).tag = "ok"
          /\ macro'.pc # "code"
      BY <2>1, <2>4 DEF ValidateApp, Finish
    <3>2. QED
      BY <3>1 DEF Validated
  <2>5. CASE Generate
    <3>1. macro'.app = macro.app /\ macro.pc = "codegen"
      BY <2>1, <2>5 DEF Generate, Finish
    <3>2. QED
      BY <3>1 DEF Validated
  <2>6. QED
    BY <1>2, <2>2, <2>3, <2>4, <2>5 DEF Macro, PipelineNext
<1>3. ASSUME ~ Macro
      PROVE  UNCHANGED macro \/ macro'.pc \in {"off", "passes"}
  BY <1>3, NextCases
     DEF Build, Invoke, Flash, Device, vars, pipelineVars, Edit, CheckStep,
         Expand, CargoCheck, CheckReturns, Collect, Beautify, Choose,
         WriteBackup, WriteMerged, RemoveFile, RenameBackup, RemoveExpansions,
         Interrupt, NoMacro
<1>4. QED
  BY <1>1, <1>2, <1>3

(* A handler that may run while its core boots is none of the exceptions   *)
(* that validation refused, so it waits for the unmasking, the last        *)
(* statement but three.                                                    *)
LEMMA HandlersWait ==
  ASSUME BootInv, image # NoImage, NEW c \in CoreIds, NEW t \in MayRun(c)
  PROVE  chip[c].at > 8
<1>1. /\ BootedTo(c) /\ pre_codegen_validation(image).tag = "ok"
  BY DEF BootInv
<1>2. t \in Tasks(c)
  BY DEF MayRun
<1>3. binds(t) \notin NON_CONFIGURABLE_EXCEPTIONS
  <2>1. used_irqs(image, c) \cap NON_CONFIGURABLE_EXCEPTIONS = {}
    BY <1>1 DEF pre_codegen_validation, Ok, Err, CoreIds
  <2>2. binds(t) # "none" => binds(t) \in used_irqs(image, c)
    BY <1>2 DEF used_irqs, Tasks
  <2>3. QED
    BY <2>1, <2>2, BootAssumption
<1>4. chip[c].interrupts /\ chip[c].unmasked # {}
  BY <1>3 DEF MayRun
<1>5. QED
  BY <1>1, <1>4 DEF BootedTo

LEMMA ReadsAre ==
  ASSUME NEW c, NEW t \in Tasks(c) \cup IdleTask(c), NEW W,
         TaskStatics(Tasks(c) \cup {t}) \subseteq W, Slots(c) \subseteq W,
         SharedStatic(c) \subseteq W
  PROVE  Reads(c, t) \subseteq W
<1> DEFINE served == {u \in Tasks(c) : u.name \in t.body}
<1>1. TaskStatics({t} \cup served) \subseteq TaskStatics(Tasks(c) \cup {t})
  BY DEF TaskStatics
<1>2. {<<"slot", u.name>> : u \in served \cap AsyncTasks(c)} \subseteq Slots(c)
  BY DEF Slots
<1>3. Reads(c, t) \subseteq TaskStatics({t} \cup served)
        \cup {<<"slot", u.name>> : u \in served \cap AsyncTasks(c)}
        \cup SharedStatic(c)
  BY DEF Reads
<1>4. QED
  BY <1>1, <1>2, <1>3

(* For every application that gets code, whatever its passes: no handler   *)
(* and no idle task runs before all it reads is written (rticx-core:       *)
(* codegen/mod.rs; rticx-cortex-m).                                        *)
THEOREM AlwaysInitialised == Spec => []InitialisedBeforeUse
<1>1. BootInv => InitialisedBeforeUse
  <2> SUFFICES ASSUME BootInv, image # NoImage, NEW c \in CoreIds
               PROVE  /\ \A t \in MayRun(c) : Reads(c, t) \subseteq chip[c].written
                      /\ chip[c].at > Len(EntryFunction(c)) =>
                           \A t \in IdleTask(c) :
                             Reads(c, t) \subseteq chip[c].written
    BY DEF InitialisedBeforeUse
  <2>1. BootedTo(c) /\ Len(EntryFunction(c)) = 10
    BY EntryFunctionIs DEF BootInv
  <2>2. chip[c].at > 8 => /\ TaskStatics(Tasks(c)) \subseteq chip[c].written
                          /\ Slots(c) \subseteq chip[c].written
                          /\ SharedStatic(c) \subseteq chip[c].written
                          /\ LateStatics(c) \subseteq chip[c].written
    <3>1. Tasks(c) \subseteq late_resource_tasks(image, c)
                               \cup {t \in Tasks(c) : IsGenerated(t)}
      BY DEF Tasks, late_resource_tasks, SubApp, OfKind
    <3>2. TaskStatics(Tasks(c)) \subseteq LateStatics(c) \cup GeneratedStatics(c)
      BY <3>1 DEF TaskStatics, LateStatics, GeneratedStatics
    <3>3. QED
      BY <2>1, <3>2 DEF BootedTo
  <2>3. ASSUME NEW t \in MayRun(c)
        PROVE  Reads(c, t) \subseteq chip[c].written
    <3>1. chip[c].at > 8
      BY HandlersWait
    <3>2. t \in Tasks(c) /\ Tasks(c) \cup {t} = Tasks(c)
      BY DEF MayRun
    <3>3. QED
      BY <2>2, <3>1, <3>2, ReadsAre
  <2>4. ASSUME NEW t \in IdleTask(c), chip[c].at > 10
        PROVE  Reads(c, t) \subseteq chip[c].written
    <3>1. TaskStatics({t}) \subseteq LateStatics(c) \cup IdleStatics(c)
      BY DEF TaskStatics, LateStatics, IdleStatics, IdleTask,
             late_resource_tasks, SubApp, OfKind
    <3>2. chip[c].at > 8 /\ IdleStatics(c) \subseteq chip[c].written
      BY <2>1, <2>4 DEF BootedTo
    <3>3. TaskStatics(Tasks(c) \cup {t}) \subseteq chip[c].written
      BY <2>2, <3>1, <3>2 DEF TaskStatics
    <3>4. QED
      BY <2>2, <3>2, <3>3, ReadsAre
  <2>5. QED
    BY <2>1, <2>3, <2>4
<1>2. Init => BootInv /\ Validated
  BY DEF Init, BootInit, PipelineInit, NoMacro, BootInv, Validated
<1>3. /\ IInv /\ FreshInv /\ RunInv /\ BootInv /\ Validated /\ [Next]_vars
      => BootInv' /\ Validated'
  BY BootStep, ValidatedStep
<1>4. Spec => [](BootInv /\ Validated)
  BY <1>2, <1>3, IInvAlways, FreshInvAlways, RunInvAlways, PTL DEF Spec
<1>5. QED
  BY <1>1, <1>4, PTL
-----------------------------------------------------------------------------
(* Where every task ends up.  What an attribute holds after a pass.        *)
LEMMA GetWith ==
  \A attr, key, value, k, d :
    /\ Get(With(attr, key, value), k, d) =
         IF k = key THEN value ELSE Get(attr, k, d)
    /\ k \in DOMAIN With(attr, key, value) <=> k \in DOMAIN attr \/ k = key
    /\ k # key => With(attr, key, value)[k] = attr[k] \/ k \notin DOMAIN attr
BY DEF Get, With

LEMMA GetWithout ==
  \A attr, keys, k, d :
    /\ Get(Without(attr, keys), k, d) =
         IF k \in keys THEN d ELSE Get(attr, k, d)
    /\ k \in DOMAIN Without(attr, keys) <=> k \in DOMAIN attr /\ k \notin keys
    /\ k \notin keys => Without(attr, keys)[k] = attr[k] \/ k \notin DOMAIN attr
BY DEF Get, Without

Keeps(s, t, key) ==
  /\ key \in DOMAIN t.attr <=> key \in DOMAIN s.attr
  /\ key \in DOMAIN s.attr => t.attr[key] = s.attr[key]

Timed(s) == "deadline" \in DOMAIN s.attr
Placed(s) == "core" \in DOMAIN s.attr

(* What has become of the item s of the source; kinds are those that have  *)
(* been lowered.                                                           *)
ImageOf(s, t, kinds) ==
  /\ t = [name |-> s.name, kind |-> t.kind, attr |-> t.attr, body |-> s.body]
  /\ t.kind = IF s.kind \in kinds THEN "task" ELSE s.kind
  /\ shared(t) = shared(s)
  /\ Placed(s) => Placed(t)
  /\ s.kind \notin kinds => Keeps(s, t, "spawn_by")
  /\ CoreOf(t) \in Nat /\ priority(t) \in Nat
  /\ Timed(t) => Keeps(s, t, "deadline")
  /\ Timed(s) /\ ~ Timed(t) =>
       s.kind \in {"task", "sw_task"} /\ "priority" \in DOMAIN t.attr

(* An item of the source is its own image.                                 *)
LEMMA OwnImage ==
  ASSUME NEW app, WellFormed(app), NEW s \in app.items
  PROVE  ImageOf(s, s, {})
<1>1. /\ s = [name |-> s.name, kind |-> s.kind, attr |-> s.attr, body |-> s.body]
      /\ \A key \in {"core", "spawn_by", "priority", "deadline"} :
           key \in DOMAIN s.attr => s.attr[key] \in Nat
  BY DEF WellFormed
<1>2. CoreOf(s) \in Nat /\ priority(s) \in Nat
  BY <1>1 DEF CoreOf, priority, Get
<1>3. QED
  BY <1>1, <1>2 DEF ImageOf, Keeps, Timed

Assigned(t, c) == [t EXCEPT !.attr = With(@, "core", c)]
Ranked(t, p) == [t EXCEPT !.attr = With(Without(@, {"deadline"}), "priority", p)]

LEMMA AssignedImage ==
  ASSUME NEW s, NEW t, NEW kinds, ImageOf(s, t, kinds), NEW c \in Nat, ~ Placed(t)
  PROVE  /\ ImageOf(s, Assigned(t, c), kinds)
         /\ CoreOf(Assigned(t, c)) = c /\ Placed(Assigned(t, c))
         /\ priority(Assigned(t, c)) = priority(t)
         /\ Timed(Assigned(t, c)) <=> Timed(t)
<1> DEFINE u == Assigned(t, c)
<1>1. t = [name |-> s.name, kind |-> t.kind, attr |-> t.attr, body |-> s.body]
  BY DEF ImageOf
<1>2. u = [name |-> s.name, kind |-> t.kind, attr |-> With(t.attr, "core", c),
           body |-> s.body]
  BY <1>1 DEF Assigned
<1>3. u.attr = With(t.attr, "core", c) /\ u.kind = t.kind
      /\ u = [name |-> s.name, kind |-> u.kind, attr |-> u.attr, body |-> s.body]
  BY <1>2
<1> HIDE DEF u
<1>4. /\ CoreOf(u) = c /\ priority(u) = priority(t) /\ shared(u) = shared(t)
      /\ Placed(u) /\ (Timed(u) <=> Timed(t))
      /\ "priority" \in DOMAIN u.attr <=> "priority" \in DOMAIN t.attr
  BY <1>3, GetWith DEF CoreOf, priority, shared, Placed, Timed
<1>5. \A key : key # "core" =>
        /\ key \in DOMAIN u.attr <=> key \in DOMAIN t.attr
        /\ key \in DOMAIN t.attr => u.attr[key] = t.attr[key]
  BY <1>3, GetWith
<1>6. /\ Keeps(s, t, "spawn_by") => Keeps(s, u, "spawn_by")
      /\ Keeps(s, t, "deadline") => Keeps(s, u, "deadline")
  BY <1>5 DEF Keeps
<1>7. ImageOf(s, u, kinds)
  BY <1>3, <1>4, <1>6 DEF ImageOf
<1>8. QED
  BY <1>4, <1>7 DEF u

LEMMA RankedImage ==
  ASSUME NEW s, NEW t, NEW kinds, ImageOf(s, t, kinds), NEW p \in Nat,
         s.kind \in {"task", "sw_task"}
  PROVE  /\ ImageOf(s, Ranked(t, p), kinds)
         /\ CoreOf(Ranked(t, p)) = CoreOf(t)
         /\ Placed(Ranked(t, p)) <=> Placed(t)
         /\ priority(Ranked(t, p)) = p /\ ~ Timed(Ranked(t, p))
<1> DEFINE u == Ranked(t, p)
<1>1. t = [name |-> s.name, kind |-> t.kind, attr |-> t.attr, body |-> s.body]
  BY DEF ImageOf
<1>2. u = [name |-> s.name, kind |-> t.kind,
           attr |-> With(Without(t.attr, {"deadline"}), "priority", p),
           body |-> s.body]
  BY <1>1 DEF Ranked
<1>3. u.attr = With(Without(t.attr, {"deadline"}), "priority", p) /\ u.kind = t.kind
      /\ u = [name |-> s.name, kind |-> u.kind, attr |-> u.attr, body |-> s.body]
  BY <1>2
<1> HIDE DEF u
<1>4. /\ CoreOf(u) = CoreOf(t) /\ priority(u) = p /\ shared(u) = shared(t)
      /\ (Placed(u) <=> Placed(t)) /\ ~ Timed(u)
      /\ "priority" \in DOMAIN u.attr
  BY <1>3, GetWith, GetWithout DEF CoreOf, priority, shared, Placed, Timed
<1>5. Keeps(s, t, "spawn_by") => Keeps(s, u, "spawn_by")
  BY <1>3, GetWith, GetWithout DEF Keeps
<1>6. ImageOf(s, u, kinds)
  BY <1>3, <1>4, <1>5 DEF ImageOf
<1>7. QED
  BY <1>4, <1>6 DEF u

LEMMA LoweredImage ==
  ASSUME NEW s, NEW t, NEW kinds, ImageOf(s, t, kinds), NEW trait
  PROVE  /\ ImageOf(s, IntoTask(t, trait), kinds \cup {s.kind})
         /\ CoreOf(IntoTask(t, trait)) = CoreOf(t)
         /\ Placed(IntoTask(t, trait)) <=> Placed(t)
         /\ priority(IntoTask(t, trait)) = priority(t)
         /\ Timed(IntoTask(t, trait)) <=> Timed(t)
<1> DEFINE u == IntoTask(t, trait)
           attr == With(Without(t.attr, {"spawn_by", "capacity"}),
                        "task_trait", trait)
<1>1. t = [name |-> s.name, kind |-> t.kind, attr |-> t.attr, body |-> s.body]
  BY DEF ImageOf
<1>2. u = [name |-> s.name, kind |-> "task", attr |-> attr, body |-> s.body]
  <2>1. u = [t EXCEPT !.kind = "task", !.attr = attr]
    BY DEF IntoTask
  <2>2. PICK n, k, a, b : /\ t = [name |-> n, kind |-> k, attr |-> a, body |-> b]
                          /\ n = s.name /\ b = s.body
    BY <1>1
  <2> HIDE DEF attr, u
  <2>3. u = [name |-> n, kind |-> "task", attr |-> attr, body |-> b]
    BY <2>1, <2>2
  <2>4. QED
    BY <2>2, <2>3
<1>3. u.attr = attr /\ u.kind = "task"
      /\ u = [name |-> s.name, kind |-> u.kind, attr |-> u.attr, body |-> s.body]
  BY <1>2
<1> HIDE DEF u
<1>4. /\ CoreOf(u) = CoreOf(t) /\ priority(u) = priority(t) /\ shared(u) = shared(t)
      /\ (Placed(u) <=> Placed(t)) /\ (Timed(u) <=> Timed(t))
      /\ "priority" \in DOMAIN u.attr <=> "priority" \in DOMAIN t.attr
  BY <1>3, GetWith, GetWithout DEF CoreOf, priority, shared, Placed, Timed
<1>5. Keeps(s, t, "deadline") => Keeps(s, u, "deadline")
  BY <1>3, GetWith, GetWithout DEF Keeps
<1>6. ImageOf(s, u, kinds \cup {s.kind})
  BY <1>3, <1>4, <1>5 DEF ImageOf
<1>7. QED
  BY <1>4, <1>6 DEF u

-----------------------------------------------------------------------------
(* The state of an application b between two passes: F gives the images of *)
(* the items of the source a, G is what the passes have added.             *)
Trace(a, b, kinds, F, G) ==
  /\ b = [args |-> b.args, items |-> b.items]
  /\ b.items = {F[s] : s \in a.items} \cup G
  /\ \A s \in a.items : ImageOf(s, F[s], kinds)
  /\ \A g \in G : /\ g.kind \in {"task", "idle"}
                  /\ g.name \in {"Dispatcher", "IdleExecutor"}

(* `dispatchers` is there until the first pass that lowers tasks takes it. *)
ArgsOK(a, b, kinds, G) ==
  IF kinds = {} THEN G = {} /\ b.args = a.args
  ELSE "dispatchers" \notin DOMAIN b.args /\ cores(b) = cores(a)

MovedKinds == {"task", "sw_task", "idle"}

(* A task that a pass has placed is on the core that owns what it shares.  *)
OnItsCore(a, b, F, s) ==
  \A v \in a.items : \A r \in shared(s) :
    v.kind = "shared" /\ r \in v.body /\ CoreOf(F[v]) < cores(b) =>
      CoreOf(F[v]) = CoreOf(F[s])

PlacedOK(a, b, F) ==
  \A s \in a.items :
    s.kind \in MovedKinds /\ ~ Placed(s) /\ Placed(F[s]) => OnItsCore(a, b, F, s)

AllPlaced(a, F) == \A s \in a.items : s.kind \in MovedKinds => Placed(F[s])

(* The deadlines that have become priorities have kept their order.        *)
RankedOK(a, F) ==
  \A s, u \in a.items :
    /\ Timed(s) /\ ~ Timed(F[s])
    /\ Timed(u) /\ ~ Timed(F[u])
    => (s.attr["deadline"] < u.attr["deadline"]
          <=> priority(F[s]) < priority(F[u]))

Server(s, t, d) ==
  /\ d.kind \in {"task", "idle"} /\ CoreOf(d) = CoreOf(t) /\ s.name \in d.body
  /\ IF d.kind = "idle" THEN s.kind = "async_task" /\ priority(t) = 0
     ELSE priority(d) = priority(t)

ServedOK(a, b, kinds, F, G) ==
  \A s \in a.items :
    IF s.kind \in kinds
    THEN /\ CoreOf(F[s]) < cores(b)
         /\ \E d \in G : /\ Server(s, F[s], d)
                         /\ \A e \in G : s.name \in e.body => e = d
    ELSE \A g \in G : s.name \notin g.body

SpawnersOK(a, G) ==
  \A g \in G : g.kind = "task" =>
    \A s, u \in a.items : s.name \in g.body /\ u.name \in g.body =>
      Get(s.attr, "spawn_by", CoreOf(g)) = Get(u.attr, "spawn_by", CoreOf(g))

OrderOK(a, G) ==
  \A d, e \in G :
    /\ d.kind = "task" /\ e.kind = "task"
    /\ CoreOf(d) = CoreOf(e) /\ priority(d) < priority(e)
    => \E i, j \in DOMAIN Dispatchers(a, CoreOf(d)) :
         /\ i < j
         /\ Dispatchers(a, CoreOf(d))[i] = binds(d)
         /\ Dispatchers(a, CoreOf(d))[j] = binds(e)

Settled(a, b, kinds, F, G) ==
  /\ Trace(a, b, kinds, F, G)
  /\ ArgsOK(a, b, kinds, G)
  /\ PlacedOK(a, b, F)
  /\ RankedOK(a, F)
  /\ ServedOK(a, b, kinds, F, G)
  /\ SpawnersOK(a, G)
  /\ OrderOK(a, G)

(* Images of different items are different.                                *)
LEMMA ImagesDiffer ==
  ASSUME NEW a, WellFormed(a), NEW b, NEW kinds, NEW F, NEW G,
         Trace(a, b, kinds, F, G)
  PROVE  \A s, u \in a.items : F[s] = F[u] => s = u
<1>1. ASSUME NEW s \in a.items PROVE F[s].name = s.name
  <2>1. ImageOf(s, F[s], kinds)
    BY DEF Trace
  <2>2. QED
    BY <2>1 DEF ImageOf
<1>2. QED
  BY <1>1 DEF WellFormed

(* The items of a kind are the images of those of that kind, as long as    *)
(* nothing is generated of it.                                             *)
LEMMA ImagesOfKind ==
  ASSUME NEW a, NEW b, NEW kinds, NEW F, NEW G, Trace(a, b, kinds, F, G),
         NEW S, S \cap {"task", "idle"} = {} \/ G = {},
         kinds = {} \/ "task" \notin S
  PROVE  OfKind(b, S) = {F[s] : s \in {s \in a.items : s.kind \in S \ kinds}}
<1>1. \A s \in a.items : F[s].kind = IF s.kind \in kinds THEN "task" ELSE s.kind
  BY DEF Trace, ImageOf
<1>2. \A s \in a.items : F[s].kind \in S <=> s.kind \in S \ kinds
  BY <1>1
<1>3. \A g \in G : g.kind \notin S
  BY DEF Trace
<1>4. b.items = {F[s] : s \in a.items} \cup G
  BY DEF Trace
<1>5. QED
  BY <1>2, <1>3, <1>4 DEF OfKind

LEMMA SourceSettled ==
  ASSUME NEW a, WellFormed(a)
  PROVE  Settled(a, a, {}, [s \in a.items |-> s], {})
<1> DEFINE F == [s \in a.items |-> s]
<1>1. \A s \in a.items : F[s] = s
  OBVIOUS
<1> HIDE DEF F
<1>2. \A s \in a.items : ImageOf(s, F[s], {})
  BY <1>1, OwnImage
<1>3. Trace(a, a, {}, F, {})
  <2>1. {F[s] : s \in a.items} = a.items
    BY <1>1
  <2>2. QED
    BY <1>2, <2>1 DEF Trace, WellFormed
<1>4. PlacedOK(a, a, F) /\ RankedOK(a, F)
  BY <1>1 DEF PlacedOK, RankedOK
<1>5. ArgsOK(a, a, {}, {}) /\ ServedOK(a, a, {}, F, {})
  BY DEF ArgsOK, ServedOK
<1>6. SpawnersOK(a, {}) /\ OrderOK(a, {})
  BY DEF SpawnersOK, OrderOK
<1>7. QED
  BY <1>3, <1>4, <1>5, <1>6 DEF Settled, F

-----------------------------------------------------------------------------
(* AutoAssign                                                              *)
NewCore(app, t) == CHOOSE c \in AssumedCore(app, t) : TRUE
Unplaced(app) == {t \in OfKind(app, MovedKinds) : ~ Placed(t)}

LEMMA AutoAssignDoes ==
  ASSUME NEW b, b = [args |-> b.args, items |-> b.items],
         AutoAssign(b).tag = "ok"
  PROVE  /\ AutoAssign(b).app =
              [args |-> b.args,
               items |-> (b.items \ Unplaced(b))
                         \cup {Assigned(t, NewCore(b, t)) : t \in Unplaced(b)}]
         /\ \A t \in Unplaced(b) : NewCore(b, t) \in AssumedCore(b, t)
<1>1. Unplaced(b) = {t \in OfKind(b, {"task", "sw_task", "idle"}) :
                       "core" \notin DOMAIN t.attr}
  BY DEF Unplaced, MovedKinds, Placed
<1>2. /\ \A t \in Unplaced(b) : AssumedCore(b, t) # {}
      /\ AutoAssign(b) =
           Ok(Replace(b, Unplaced(b),
                      {Assigned(t, NewCore(b, t)) : t \in Unplaced(b)}))
  BY <1>1 DEF AutoAssign, Assigned, NewCore, Err
<1>3. \A t \in Unplaced(b) : NewCore(b, t) \in AssumedCore(b, t)
  BY <1>2 DEF NewCore
<1>4. ASSUME NEW old, NEW new
      PROVE  Replace(b, old, new) =
               [args |-> b.args, items |-> (b.items \ old) \cup new]
  <2>1. PICK args, items : b = [args |-> args, items |-> items]
    OBVIOUS
  <2>2. QED
    BY <2>1 DEF Replace
<1>5. \A app : Ok(app).app = app
  BY DEF Ok
<1>6. QED
  BY <1>2, <1>3, <1>4, <1>5

LEMMA AutoAssignSettles ==
  ASSUME NEW a, WellFormed(a), NEW b, NEW F, Settled(a, b, {}, F, {}),
         AutoAssign(b).tag = "ok"
  PROVE  \E F2 : /\ Settled(a, AutoAssign(b).app, {}, F2, {})
                 /\ AllPlaced(a, F2)
<1> DEFINE Moves(s) == s.kind \in MovedKinds /\ ~ Placed(F[s])
           F2 == [s \in a.items |-> IF Moves(s) THEN Assigned(F[s], NewCore(b, F[s]))
                                    ELSE F[s]]
           b2 == AutoAssign(b).app
<1>1. Trace(a, b, {}, F, {}) /\ b.items = {F[s] : s \in a.items}
  BY DEF Settled, Trace
<1>2. \A s \in a.items :
        /\ ImageOf(s, F[s], {}) /\ F[s].kind = s.kind /\ F[s].body = s.body
        /\ shared(F[s]) = shared(s) /\ CoreOf(F[s]) \in Nat
  BY <1>1 DEF Trace, ImageOf
<1>3. Unplaced(b) = {F[s] : s \in {s \in a.items : Moves(s)}}
  BY <1>1, <1>2 DEF Unplaced, OfKind
<1>4. /\ b2 = [args |-> b.args,
               items |-> (b.items \ Unplaced(b))
                         \cup {Assigned(t, NewCore(b, t)) : t \in Unplaced(b)}]
      /\ \A t \in Unplaced(b) : NewCore(b, t) \in AssumedCore(b, t)
  BY <1>1, AutoAssignDoes DEF Trace
<1>5. OfKind(b, {"shared"}) = {F[v] : v \in {v \in a.items : v.kind = "shared"}}
  BY <1>1, <1>2 DEF OfKind
<1>6. \A s \in a.items : Moves(s) => NewCore(b, F[s]) \in Nat
  <2>1. \A t : AssumedCore(b, t) \subseteq Nat
    BY <1>2, <1>5 DEF AssumedCore
  <2>2. QED
    BY <1>3, <1>4, <2>1
<1>7. \A s \in a.items :
        F2[s] = IF Moves(s) THEN Assigned(F[s], NewCore(b, F[s])) ELSE F[s]
  OBVIOUS
<1>8. b2.items = {F2[s] : s \in a.items} /\ b2.args = b.args
  <2>1. \A s, u \in a.items : F[s] = F[u] => s = u
    BY <1>1, ImagesDiffer
  <2> HIDE DEF F2, b2
  <2>2. b2.args = b.args
        /\ b2.items = (b.items \ Unplaced(b))
                      \cup {Assigned(t, NewCore(b, t)) : t \in Unplaced(b)}
    BY <1>4
  <2>3. \A s \in a.items : F[s] \in Unplaced(b) <=> Moves(s)
    BY <1>3, <2>1
  <2> HIDE DEF Moves
  <2>4. \A x : x \in b2.items <=> \E s \in a.items : x = F2[s]
    BY <1>1, <1>3, <1>7, <2>2, <2>3
  <2>5. QED
    BY <2>2, <2>4
<1> HIDE DEF F2, b2
<1>9. \A s \in a.items :
        /\ ImageOf(s, F2[s], {}) /\ (Timed(F2[s]) <=> Timed(F[s]))
        /\ priority(F2[s]) = priority(F[s])
        /\ IF Moves(s) THEN Placed(F2[s]) /\ CoreOf(F2[s]) = NewCore(b, F[s])
           ELSE F2[s] = F[s]
  <2>1. SUFFICES ASSUME NEW s \in a.items
                 PROVE  /\ ImageOf(s, F2[s], {}) /\ (Timed(F2[s]) <=> Timed(F[s]))
                        /\ priority(F2[s]) = priority(F[s])
                        /\ IF Moves(s) THEN /\ Placed(F2[s])
                                            /\ CoreOf(F2[s]) = NewCore(b, F[s])
                           ELSE F2[s] = F[s]
    OBVIOUS
  <2>2. CASE Moves(s)
    <3>1. ImageOf(s, F[s], {}) /\ ~ Placed(F[s]) /\ NewCore(b, F[s]) \in Nat
          /\ F2[s] = Assigned(F[s], NewCore(b, F[s]))
      BY <1>2, <1>6, <1>7, <2>2
    <3>2. QED
      BY <2>2, <3>1, AssignedImage
  <2>3. CASE ~ Moves(s)
    BY <1>2, <1>7, <2>3
  <2>4. QED
    BY <2>2, <2>3
<1>10. Trace(a, b2, {}, F2, {})
  <2>1. b2 = [args |-> b2.args, items |-> b2.items]
    BY <1>4
  <2>2. QED
    BY <1>8, <1>9, <2>1 DEF Trace
<1>11. AllPlaced(a, F2)
  BY <1>9 DEF AllPlaced
<1>12. RankedOK(a, F2)
  BY <1>9 DEF Settled, RankedOK
<1>13. PlacedOK(a, b2, F2)
  <2>1. SUFFICES ASSUME NEW s \in a.items, s.kind \in MovedKinds, ~ Placed(s),
                        NEW v \in a.items, NEW r \in shared(s),
                        v.kind = "shared", r \in v.body, CoreOf(F2[v]) < cores(b2)
                 PROVE  CoreOf(F2[v]) = CoreOf(F2[s])
    BY DEF PlacedOK, OnItsCore
  <2>2. ~ Moves(v) /\ F2[v] = F[v] /\ cores(b2) = cores(b)
    BY <1>8, <1>9, <2>1 DEF MovedKinds, cores
  <2>3. CASE ~ Moves(s)
    <3>1. F2[s] = F[s] /\ Placed(F[s])
      BY <1>9, <2>1, <2>3
    <3>2. OnItsCore(a, b, F, s)
      BY <2>1, <3>1 DEF Settled, PlacedOK
    <3>3. QED
      BY <2>1, <2>2, <3>1, <3>2 DEF OnItsCore
  <2>4. CASE Moves(s)
    <3>1. PICK c : c = NewCore(b, F[s])
      OBVIOUS
    <3>2. c \in AssumedCore(b, F[s]) /\ CoreOf(F2[s]) = c
      BY <1>3, <1>4, <1>9, <2>4, <3>1
    <3>3. F[v] \in OfKind(b, {"shared"}) /\ r \in F[v].body /\ r \in shared(F[s])
      BY <1>2, <1>5, <2>1
    <3>4. CASE cores(b) = 1
      BY <1>2, <2>1, <2>2, <3>2, <3>4 DEF AssumedCore
    <3>5. CASE cores(b) # 1
      <4>1. Owners(b, r) = {c}
        BY <3>2, <3>3, <3>5 DEF AssumedCore
      <4>2. CoreOf(F[v]) \in Owners(b, r)
        BY <3>3 DEF Owners
      <4>3. QED
        BY <2>2, <3>2, <4>1, <4>2
    <3>6. QED
      BY <3>4, <3>5
  <2>5. QED
    BY <2>3, <2>4
<1>14. ArgsOK(a, b2, {}, {}) /\ ServedOK(a, b2, {}, F2, {})
  BY <1>8 DEF Settled, ArgsOK, ServedOK
<1>15. QED
  BY <1>10, <1>11, <1>12, <1>13, <1>14 DEF Settled, b2

-----------------------------------------------------------------------------
(* deadline_pass                                                           *)
RankIn(D, d) == Cardinality({e \in D : e <= d})

LEMMA ImageFinite ==
  ASSUME NEW S, IsFiniteSet(S), NEW f
  PROVE  IsFiniteSet({f[x] : x \in S})
<1> DEFINE g == [x \in S |-> f[x]]
           T == {f[x] : x \in S}
<1>1. g \in Surjection(S, T)
  BY DEF Surjection
<1>2. QED
  BY <1>1, FS_Surjection

(* The ranks of the members of a finite set are in the order of the        *)
(* members, from 1 to its size.                                            *)
LEMMA RankOrder ==
  ASSUME NEW D, IsFiniteSet(D), D \subseteq Nat
  PROVE  /\ \A d : RankIn(D, d) \in Nat /\ RankIn(D, d) <= Cardinality(D)
         /\ \A d \in D : RankIn(D, d) >= 1
         /\ \A d, e \in D : d < e <=> RankIn(D, d) < RankIn(D, e)
<1> DEFINE upto(d) == {e \in D : e <= d}
<1>1. \A d : IsFiniteSet(upto(d)) /\ upto(d) \subseteq D
  BY FS_Subset
<1>2. \A d : /\ RankIn(D, d) = Cardinality(upto(d)) /\ RankIn(D, d) \in Nat
             /\ RankIn(D, d) <= Cardinality(D)
  BY <1>1, FS_Subset, FS_CardinalityType DEF RankIn
<1>3. ASSUME NEW d \in D PROVE RankIn(D, d) >= 1
  <2>1. d \in upto(d)
    OBVIOUS
  <2>2. Cardinality(upto(d)) # 0
    BY <1>1, <2>1, FS_EmptySet
  <2>3. QED
    BY <1>2, <2>2
<1>4. ASSUME NEW d \in D, NEW e \in D, d < e
      PROVE  RankIn(D, d) < RankIn(D, e)
  <2>1. upto(d) \subseteq upto(e) /\ e \in upto(e) /\ e \notin upto(d)
    <3>1. d \in Nat /\ e \in Nat /\ \A x \in D : x \in Nat
      OBVIOUS
    <3>2. \A x \in D : x <= d => x <= e
      BY <1>4, <3>1
    <3>3. e <= e /\ ~ (e <= d)
      BY <1>4, <3>1
    <3>4. QED
      BY <3>2, <3>3
  <2> HIDE DEF upto
  <2>2. upto(d) # upto(e)
    BY <2>1
  <2>3. /\ Cardinality(upto(d)) <= Cardinality(upto(e))
        /\ Cardinality(upto(d)) # Cardinality(upto(e))
    BY <1>1, <2>1, <2>2, FS_Subset
  <2>4. QED
    BY <1>2, <2>3
<1>5. ASSUME NEW d \in D, NEW e \in D
      PROVE  d < e <=> RankIn(D, d) < RankIn(D, e)
  BY <1>2, <1>4
<1>6. QED
  BY <1>2, <1>3, <1>5

Levels(app) == {Get(t.attr, "deadline", U32_MAX) :
                  t \in OfKind(app, {"task", "sw_task"})}
RankOf(app, t) == RankIn(Levels(app), t.attr["deadline"])
TimedTasks(app) == {t \in OfKind(app, {"task", "sw_task"}) : Timed(t)}

LEMMA DeadlineDoes ==
  ASSUME NEW b, b = [args |-> b.args, items |-> b.items],
         Deadline(b).tag = "ok"
  PROVE  /\ Deadline(b).app =
              [args |-> b.args,
               items |-> (b.items \ TimedTasks(b))
                         \cup {Ranked(t, RankOf(b, t)) : t \in TimedTasks(b)}]
         /\ \A t \in OfKind(b, {"task", "sw_task"}) : "priority" \notin DOMAIN t.attr
<1>1. /\ \A t \in OfKind(b, {"task", "sw_task"}) : "priority" \notin DOMAIN t.attr
      /\ Deadline(b) =
           Ok(Replace(b, TimedTasks(b),
                      {[t EXCEPT !.attr = With(Without(@, {"deadline"}), "priority",
                          Cardinality({e \in Levels(b) : e <= @["deadline"]}))] :
                         t \in TimedTasks(b)}))
  BY DEF Deadline, Panic, TimedTasks, Timed, Levels
<1>3. Deadline(b) = Ok(Replace(b, TimedTasks(b),
                       {Ranked(t, RankOf(b, t)) : t \in TimedTasks(b)}))
  <2>1. {[t EXCEPT !.attr = With(Without(@, {"deadline"}), "priority",
            Cardinality({e \in Levels(b) : e <= @["deadline"]}))] :
           t \in TimedTasks(b)}
          = {Ranked(t, RankOf(b, t)) : t \in TimedTasks(b)}
    BY DEF Ranked, RankOf, RankIn
  <2>2. QED
    BY <1>1, <2>1
<1>4. ASSUME NEW old, NEW new
      PROVE  Replace(b, old, new) =
               [args |-> b.args, items |-> (b.items \ old) \cup new]
  <2>1. PICK args, items : b = [args |-> args, items |-> items]
    OBVIOUS
  <2>2. QED
    BY <2>1 DEF Replace
<1>5. \A app : Ok(app).app = app
  BY DEF Ok
<1>6. QED
  BY <1>1, <1>3, <1>4, <1>5

LEMMA DeadlineSettles ==
  ASSUME NEW a, WellFormed(a), NEW b, NEW F, Settled(a, b, {}, F, {}),
         Deadline(b).tag = "ok"
  PROVE  \E F2 : /\ Settled(a, Deadline(b).app, {}, F2, {})
                 /\ AllPlaced(a, F) => AllPlaced(a, F2)
<1> DEFINE Ranks(s) == s.kind \in {"task", "sw_task"} /\ Timed(F[s])
           F2 == [s \in a.items |-> IF Ranks(s) THEN Ranked(F[s], RankOf(b, F[s]))
                                    ELSE F[s]]
           b2 == Deadline(b).app
<1>1. Trace(a, b, {}, F, {}) /\ b.items = {F[s] : s \in a.items}
  BY DEF Settled, Trace
<1>2. \A s \in a.items :
        /\ ImageOf(s, F[s], {}) /\ F[s].kind = s.kind
        /\ CoreOf(F[s]) \in Nat
  BY <1>1 DEF Trace, ImageOf
<1>3. TimedTasks(b) = {F[s] : s \in {s \in a.items : Ranks(s)}}
  BY <1>1, <1>2 DEF TimedTasks, OfKind
<1>4. /\ b2 = [args |-> b.args,
               items |-> (b.items \ TimedTasks(b))
                         \cup {Ranked(t, RankOf(b, t)) : t \in TimedTasks(b)}]
      /\ \A t \in OfKind(b, {"task", "sw_task"}) : "priority" \notin DOMAIN t.attr
  BY <1>1, DeadlineDoes DEF Trace
<1>5. OfKind(b, {"task", "sw_task"}) =
        {F[s] : s \in {s \in a.items : s.kind \in {"task", "sw_task"}}}
  BY <1>1, <1>2 DEF OfKind
<1>6. \A s \in a.items : Timed(s) => Timed(F[s])
  <2>1. SUFFICES ASSUME NEW s \in a.items, Timed(s), ~ Timed(F[s]) PROVE FALSE
    OBVIOUS
  <2>2. s.kind \in {"task", "sw_task"} /\ "priority" \in DOMAIN F[s].attr
    BY <1>2, <2>1 DEF ImageOf
  <2>3. QED
    BY <1>4, <1>5, <2>2
<1>7. \A s \in a.items : Timed(F[s]) =>
        /\ Timed(s) /\ F[s].attr["deadline"] = s.attr["deadline"]
        /\ s.attr["deadline"] \in Nat
  BY <1>2 DEF ImageOf, Keeps, Timed, WellFormed
<1>8. Levels(b) \subseteq Nat /\ IsFiniteSet(Levels(b))
  <2>1. ASSUME NEW s \in a.items
        PROVE  Get(F[s].attr, "deadline", U32_MAX) \in Nat
    BY <1>7, FrontEndAssumption DEF Get, Timed
  <2>2. IsFiniteSet({s \in a.items : s.kind \in {"task", "sw_task"}})
    BY FS_Subset DEF WellFormed
  <2> DEFINE g == [s \in a.items |-> Get(F[s].attr, "deadline", U32_MAX)]
             T == {s \in a.items : s.kind \in {"task", "sw_task"}}
  <2>3. Levels(b) = {g[s] : s \in T}
    BY <1>5 DEF Levels
  <2>4. IsFiniteSet({g[s] : s \in T})
    <3> HIDE DEF g, T
    <3>1. IsFiniteSet(T)
      BY <2>2 DEF T
    <3>2. QED
      BY <3>1, ImageFinite
  <2>5. QED
    BY <2>1, <2>3, <2>4
<1>9. \A s \in a.items : Ranks(s) =>
        /\ F[s].attr["deadline"] \in Levels(b)
        /\ RankOf(b, F[s]) = RankIn(Levels(b), s.attr["deadline"])
        /\ RankOf(b, F[s]) \in Nat
  <2>1. SUFFICES ASSUME NEW s \in a.items, Ranks(s)
                 PROVE  /\ F[s].attr["deadline"] \in Levels(b)
                        /\ RankOf(b, F[s]) = RankIn(Levels(b), s.attr["deadline"])
                        /\ RankOf(b, F[s]) \in Nat
    OBVIOUS
  <2>2. F[s] \in OfKind(b, {"task", "sw_task"})
    BY <1>5, <2>1
  <2>3. Get(F[s].attr, "deadline", U32_MAX) = F[s].attr["deadline"]
    BY <2>1 DEF Get, Timed
  <2>4. F[s].attr["deadline"] \in Levels(b)
    BY <2>2, <2>3 DEF Levels
  <2>5. QED
    BY <1>7, <1>8, <2>1, <2>4, RankOrder DEF RankOf
<1>10. \A s \in a.items :
         F2[s] = IF Ranks(s) THEN Ranked(F[s], RankOf(b, F[s])) ELSE F[s]
  OBVIOUS
<1>11. b2.items = {F2[s] : s \in a.items} /\ b2.args = b.args
  <2>1. \A s, u \in a.items : F[s] = F[u] => s = u
    BY <1>1, ImagesDiffer
  <2> HIDE DEF F2, b2
  <2>2. b2.args = b.args
        /\ b2.items = (b.items \ TimedTasks(b))
                      \cup {Ranked(t, RankOf(b, t)) : t \in TimedTasks(b)}
    BY <1>4
  <2>3. \A s \in a.items : F[s] \in TimedTasks(b) <=> Ranks(s)
    BY <1>3, <2>1
  <2> HIDE DEF Ranks
  <2>4. \A x : x \in b2.items <=> \E s \in a.items : x = F2[s]
    BY <1>1, <1>3, <1>10, <2>2, <2>3
  <2>5. QED
    BY <2>2, <2>4
<1> HIDE DEF F2, b2
<1>12. \A s \in a.items :
         /\ ImageOf(s, F2[s], {}) /\ CoreOf(F2[s]) = CoreOf(F[s])
         /\ Placed(F2[s]) <=> Placed(F[s])
         /\ IF Ranks(s) THEN priority(F2[s]) = RankOf(b, F[s]) /\ ~ Timed(F2[s])
            ELSE F2[s] = F[s]
  <2>1. SUFFICES ASSUME NEW s \in a.items
                 PROVE  /\ ImageOf(s, F2[s], {}) /\ CoreOf(F2[s]) = CoreOf(F[s])
                        /\ Placed(F2[s]) <=> Placed(F[s])
                        /\ IF Ranks(s) THEN /\ priority(F2[s]) = RankOf(b, F[s])
                                            /\ ~ Timed(F2[s])
                           ELSE F2[s] = F[s]
    OBVIOUS
  <2>2. CASE Ranks(s)
    <3>1. ImageOf(s, F[s], {}) /\ RankOf(b, F[s]) \in Nat
          /\ s.kind \in {"task", "sw_task"}
          /\ F2[s] = Ranked(F[s], RankOf(b, F[s]))
      BY <1>2, <1>9, <1>10, <2>2
    <3>2. QED
      BY <2>2, <3>1, RankedImage
  <2>3. CASE ~ Ranks(s)
    BY <1>2, <1>10, <2>3
  <2>4. QED
    BY <2>2, <2>3
<1>13. Trace(a, b2, {}, F2, {})
  <2>1. b2 = [args |-> b2.args, items |-> b2.items]
    BY <1>4
  <2>2. QED
    BY <1>11, <1>12, <2>1 DEF Trace
<1>14. RankedOK(a, F2)
  <2>1. SUFFICES ASSUME NEW s \in a.items, NEW u \in a.items,
                        Timed(s), Timed(u), ~ Timed(F2[s]), ~ Timed(F2[u])
                 PROVE  s.attr["deadline"] < u.attr["deadline"]
                          <=> priority(F2[s]) < priority(F2[u])
    BY DEF RankedOK
  <2>2. Ranks(s) /\ Ranks(u)
    BY <1>6, <1>12, <2>1
  <2>3. PICK D : D = Levels(b)
    OBVIOUS
  <2>4. PICK x, y : x = s.attr["deadline"] /\ y = u.attr["deadline"]
    OBVIOUS
  <2>5. /\ x \in D /\ y \in D /\ D \subseteq Nat /\ IsFiniteSet(D)
        /\ priority(F2[s]) = RankIn(D, x) /\ priority(F2[u]) = RankIn(D, y)
    BY <1>7, <1>8, <1>9, <1>12, <2>2, <2>3, <2>4
  <2>6. x < y <=> RankIn(D, x) < RankIn(D, y)
    BY <2>5, RankOrder
  <2>7. QED
    BY <2>4, <2>5, <2>6
<1>15. PlacedOK(a, b2, F2)
  <2>1. cores(b2) = cores(b)
    BY <1>11 DEF cores
  <2>2. QED
    BY <1>12, <2>1 DEF Settled, PlacedOK, OnItsCore
<1>16. AllPlaced(a, F) => AllPlaced(a, F2)
  BY <1>12 DEF AllPlaced
<1>17. ArgsOK(a, b2, {}, {}) /\ ServedOK(a, b2, {}, F2, {})
  BY <1>11 DEF Settled, ArgsOK, ServedOK
<1>18. SpawnersOK(a, {}) /\ OrderOK(a, {})
  BY DEF Settled
<1>19. QED
  BY <1>13, <1>14, <1>15, <1>16, <1>17, <1>18 DEF Settled, b2

-----------------------------------------------------------------------------
(* SoftwareTasks and AsyncPass                                             *)
On(tasks, c) == {t \in tasks : CoreOf(t) = c}

(* The dispatcher of priority p of core c, for the tasks that wait for one.*)
DispatcherOf(b, waiting, c, p) ==
  DispatcherTask(PriorityGroup(On(waiting, c), p),
                 assign_dispatchers(Priorities(On(waiting, c)),
                                    Dispatchers(b, c))[p], p, c)

ExecutorOf(idle, c) == IdleExecutor(On(idle, c), c)

Added(b, all, idle) == UNION {
  {DispatcherOf(b, all \ idle, c, p) : p \in Priorities(On(all \ idle, c))}
  \cup IF On(idle, c) = {} THEN {} ELSE {ExecutorOf(idle, c)} :
    c \in 0 .. cores(b) - 1}

LEMMA LowerDoes ==
  ASSUME NEW b, b = [args |-> b.args, items |-> b.items], NEW k, NEW trait,
         NEW idle, Lower(b, k, trait, idle).tag = "ok"
  PROVE  LET all == OfKind(b, {k})
         IN /\ Lower(b, k, trait, idle).app =
                 [args |-> Without(b.args, {"dispatchers"}),
                  items |-> (b.items \ all)
                            \cup ({IntoTask(t, trait) : t \in all}
                                  \cup Added(b, all, idle))]
            /\ \A t \in all : CoreOf(t) \in 0 .. cores(b) - 1
            /\ \A c \in 0 .. cores(b) - 1 :
                 AnalysisOk(On(all \ idle, c), Dispatchers(b, c))
<1> DEFINE all == OfKind(b, {k})
           new == {IntoTask(t, trait) : t \in all} \cup Added(b, all, idle)
<1>1. /\ \A t \in all : CoreOf(t) \in 0 .. cores(b) - 1
      /\ \A c \in 0 .. cores(b) - 1 :
           AnalysisOk(On(all \ idle, c), Dispatchers(b, c))
      /\ Lower(b, k, trait, idle) =
           Ok([Replace(b, all, new) EXCEPT !.args = Without(@, {"dispatchers"})])
  BY DEF Lower, Err, On, Added, DispatcherOf, ExecutorOf
<1>2. ASSUME NEW old, NEW fresh
      PROVE  [Replace(b, old, fresh) EXCEPT !.args = Without(@, {"dispatchers"})] =
               [args |-> Without(b.args, {"dispatchers"}),
                items |-> (b.items \ old) \cup fresh]
  <2>1. PICK args, items : b = [args |-> args, items |-> items]
    OBVIOUS
  <2>2. PICK rest, named : /\ rest = (items \ old) \cup fresh
                           /\ named = Without(args, {"dispatchers"})
    OBVIOUS
  <2>3. Replace(b, old, fresh) = [args |-> args, items |-> rest]
    <3>1. Replace(b, old, fresh) = [args |-> args, items |-> (items \ old) \cup fresh]
      BY <2>1 DEF Replace
    <3>2. QED
      BY <2>2, <3>1
  <2>4. [[args |-> args, items |-> rest] EXCEPT !.args = Without(@, {"dispatchers"})]
          = [args |-> named, items |-> rest]
    BY <2>2
  <2>5. b.args = args /\ b.items = items
    BY <2>1
  <2>6. QED
    BY <2>2, <2>3, <2>4, <2>5
<1>3. \A app : Ok(app).app = app
  BY DEF Ok
<1>4. QED
  BY <1>1, <1>2, <1>3

(* Where an added item comes from.                                         *)
Dispatching(b, waiting, c, g) ==
  \E p \in Priorities(On(waiting, c)) : g = DispatcherOf(b, waiting, c, p)
Executing(idle, c, g) == On(idle, c) # {} /\ g = ExecutorOf(idle, c)

LEMMA AddedFrom ==
  \A b, all, idle : \A g \in Added(b, all, idle) : \E c \in 0 .. cores(b) - 1 :
    Dispatching(b, all \ idle, c, g) \/ Executing(idle, c, g)
BY DEF Added, Dispatching, Executing

LEMMA DispatcherAdded ==
  ASSUME NEW b, NEW all, NEW idle, NEW c \in 0 .. cores(b) - 1, NEW waiting,
         waiting = all \ idle, NEW p \in Priorities(On(waiting, c))
  PROVE  DispatcherOf(b, waiting, c, p) \in Added(b, all, idle)
BY DEF Added

LEMMA ExecutorAdded ==
  ASSUME NEW b, NEW all, NEW idle, NEW c \in 0 .. cores(b) - 1, On(idle, c) # {}
  PROVE  ExecutorOf(idle, c) \in Added(b, all, idle)
BY DEF Added

LEMMA DispatcherFields ==
  ASSUME NEW b, NEW waiting, NEW c, NEW p
  PROVE  LET d == DispatcherOf(b, waiting, c, p)
         IN /\ d.kind = "task" /\ d.name = "Dispatcher"
            /\ CoreOf(d) = c /\ priority(d) = p
            /\ d.body = {t.name : t \in PriorityGroup(On(waiting, c), p)}
            /\ binds(d) = Dispatchers(b, c)[RankIn(Priorities(On(waiting, c)), p)]
                 \/ p \notin Priorities(On(waiting, c))
BY DEF DispatcherOf, DispatcherTask, CoreOf, priority, binds, Get, Names,
       assign_dispatchers, RankIn

LEMMA ExecutorFields ==
  ASSUME NEW idle, NEW c
  PROVE  LET d == ExecutorOf(idle, c)
         IN /\ d.kind = "idle" /\ d.name = "IdleExecutor" /\ CoreOf(d) = c
            /\ d.body = {t.name : t \in On(idle, c)}
BY DEF ExecutorOf, IdleExecutor, CoreOf, Get, Names

(* The dispatchers of one core have different interrupts of its list, in   *)
(* the order of their priorities.                                          *)
LEMMA DispatchersRanked ==
  ASSUME NEW b, NEW waiting, NEW c, AnalysisOk(On(waiting, c), Dispatchers(b, c)),
         IsFiniteSet(waiting), \A t \in waiting : priority(t) \in Nat,
         NEW p \in Priorities(On(waiting, c)), NEW q \in Priorities(On(waiting, c)),
         p < q, Len(Dispatchers(b, c)) \in Nat,
         DOMAIN Dispatchers(b, c) = 1 .. Len(Dispatchers(b, c))
  PROVE  \E i, j \in DOMAIN Dispatchers(b, c) :
           /\ i < j
           /\ Dispatchers(b, c)[i] = binds(DispatcherOf(b, waiting, c, p))
           /\ Dispatchers(b, c)[j] = binds(DispatcherOf(b, waiting, c, q))
<1> DEFINE P == Priorities(On(waiting, c))
<1>1. IsFiniteSet(P) /\ P \subseteq Nat
  <2> DEFINE f == [t \in waiting |-> priority(t)]
             T == On(waiting, c)
  <2>1. IsFiniteSet(T) /\ T \subseteq waiting
    BY FS_Subset DEF On
  <2>2. P = {f[t] : t \in T}
    BY <2>1 DEF Priorities
  <2>3. IsFiniteSet({f[t] : t \in T})
    <3> HIDE DEF f, T
    <3>1. QED
      BY <2>1, ImageFinite
  <2>4. QED
    BY <2>1, <2>2, <2>3
<1>2. Cardinality(P) <= Len(Dispatchers(b, c))
  BY DEF AnalysisOk
<1>3. /\ binds(DispatcherOf(b, waiting, c, p)) = Dispatchers(b, c)[RankIn(P, p)]
      /\ binds(DispatcherOf(b, waiting, c, q)) = Dispatchers(b, c)[RankIn(P, q)]
  BY DispatcherFields
<1> HIDE DEF P
<1>4. PICK n : n = Cardinality(P)
  OBVIOUS
<1>5. n \in Nat
  BY <1>1, <1>4, FS_CardinalityType
<1>6. p \in P /\ q \in P
  BY DEF P
<1>7. PICK i, j : i = RankIn(P, p) /\ j = RankIn(P, q)
  OBVIOUS
<1>8. i \in Nat /\ j \in Nat /\ i >= 1 /\ i < j /\ j <= n
  BY <1>1, <1>4, <1>6, <1>7, RankOrder
<1>9. i \in DOMAIN Dispatchers(b, c) /\ j \in DOMAIN Dispatchers(b, c)
  BY <1>2, <1>4, <1>5, <1>8
<1>10. QED
  BY <1>3, <1>7, <1>8, <1>9

(* Who is in the body of what is added.                                    *)
AddedFor(b, all, idle, t, g) ==
  LET c == CoreOf(t)
  IN IF t \in idle THEN g = ExecutorOf(idle, c)
     ELSE g = DispatcherOf(b, all \ idle, c, priority(t))

OnSomeCore(b, tasks) == \A t \in tasks : CoreOf(t) \in 0 .. cores(b) - 1

RightlyServed(b, k, idle, F, s) ==
  LET all == OfKind(b, {k})
  IN /\ s.kind = k => \E g \in Added(b, all, idle) :
                        AddedFor(b, all, idle, F[s], g) /\ s.name \in g.body
     /\ \A g \in Added(b, all, idle) :
          s.name \in g.body => /\ s.kind = k /\ F[s] \in all
                               /\ AddedFor(b, all, idle, F[s], g)

LEMMA AddedServes ==
  ASSUME NEW a, WellFormed(a), NEW b, NEW kinds, NEW F, NEW G,
         Trace(a, b, kinds, F, G), NEW k, k \in {"sw_task", "async_task"},
         k \notin kinds, NEW idle, idle \subseteq OfKind(b, {k}),
         OnSomeCore(b, OfKind(b, {k})), NEW s, s \in a.items
  PROVE  RightlyServed(b, k, idle, F, s)
<1> DEFINE all == OfKind(b, {k})
           waiting == all \ idle
<1>1. all = {F[u] : u \in {u \in a.items : u.kind = k}}
  <2>1. /\ {k} \cap {"task", "idle"} = {}
        /\ "task" \notin {k}
    OBVIOUS
  <2>2. all = {F[u] : u \in {u \in a.items : u.kind \in {k} \ kinds}}
    BY <2>1, ImagesOfKind
  <2>3. QED
    BY <2>2
<1>2. \A u \in a.items : F[u].name = u.name
  <2>1. SUFFICES ASSUME NEW u \in a.items PROVE F[u].name = u.name
    OBVIOUS
  <2>2. ImageOf(u, F[u], kinds)
    BY DEF Trace
  <2>3. QED
    BY <2>2 DEF ImageOf
<1>3. \A t \in all : t.name = s.name => s.kind = k /\ t = F[s]
  <2>1. SUFFICES ASSUME NEW t \in all, t.name = s.name
                 PROVE  s.kind = k /\ t = F[s]
    OBVIOUS
  <2>2. PICK u \in a.items : u.kind = k /\ t = F[u]
    BY <1>1
  <2>3. u.name = s.name
    BY <1>2, <2>1, <2>2
  <2>4. u = s
    BY <2>3 DEF WellFormed
  <2>5. QED
    BY <2>2, <2>4
<1>4. s.kind = k => F[s] \in all
  BY <1>1
<1> HIDE DEF all
<1>5. ASSUME s.kind = k
      PROVE  \E g \in Added(b, all, idle) :
               AddedFor(b, all, idle, F[s], g) /\ s.name \in g.body
  <2>1. PICK c : c = CoreOf(F[s])
    OBVIOUS
  <2>2. c \in 0 .. cores(b) - 1 /\ F[s] \in all
    BY <1>4, <1>5, <2>1 DEF all, OnSomeCore
  <2>3. CASE F[s] \in idle
    <3>1. F[s] \in On(idle, c)
      BY <2>1, <2>3 DEF On
    <3>2. ExecutorOf(idle, c) \in Added(b, all, idle)
      BY <2>2, <3>1, ExecutorAdded
    <3>3. s.name \in ExecutorOf(idle, c).body
      BY <1>2, <3>1, ExecutorFields
    <3>4. QED
      BY <2>1, <2>3, <3>2, <3>3 DEF AddedFor
  <2>4. CASE F[s] \notin idle
    <3>1. PICK p : p = priority(F[s])
      OBVIOUS
    <3>2. F[s] \in On(waiting, c) /\ p \in Priorities(On(waiting, c))
          /\ F[s] \in PriorityGroup(On(waiting, c), p)
      BY <2>1, <2>2, <2>4, <3>1 DEF On, Priorities, PriorityGroup
    <3>3. DispatcherOf(b, waiting, c, p) \in Added(b, all, idle)
      BY <2>2, <3>2, DispatcherAdded
    <3>4. s.name \in DispatcherOf(b, waiting, c, p).body
      BY <1>2, <3>2, DispatcherFields
    <3>5. QED
      BY <2>1, <2>4, <3>1, <3>3, <3>4 DEF AddedFor
  <2>5. QED
    BY <2>3, <2>4
<1>6. ASSUME NEW g \in Added(b, all, idle), s.name \in g.body
      PROVE  s.kind = k /\ F[s] \in all /\ AddedFor(b, all, idle, F[s], g)
  <2>1. PICK c \in 0 .. cores(b) - 1 :
          Dispatching(b, waiting, c, g) \/ Executing(idle, c, g)
    BY AddedFrom
  <2>2. CASE Executing(idle, c, g)
    <3>1. PICK t \in On(idle, c) : t.name = s.name
      BY <1>6, <2>2, ExecutorFields DEF Executing
    <3>2. t \in idle /\ t \in all /\ CoreOf(t) = c /\ g = ExecutorOf(idle, c)
      BY <2>2, <3>1 DEF On, all, Executing
    <3>3. s.kind = k /\ t = F[s]
      BY <1>3, <3>1, <3>2
    <3>4. QED
      BY <3>2, <3>3 DEF AddedFor
  <2>3. CASE Dispatching(b, waiting, c, g)
    <3>1. PICK p : g = DispatcherOf(b, waiting, c, p)
      BY <2>3 DEF Dispatching
    <3>2. PICK t \in PriorityGroup(On(waiting, c), p) : t.name = s.name
      BY <1>6, <3>1, DispatcherFields
    <3>3. t \notin idle /\ t \in all /\ CoreOf(t) = c /\ priority(t) = p
      BY <3>2 DEF On, PriorityGroup
    <3>4. s.kind = k /\ t = F[s]
      BY <1>3, <3>2, <3>3
    <3>5. QED
      BY <3>1, <3>3, <3>4 DEF AddedFor
  <2>4. QED
    BY <2>1, <2>2, <2>3
<1>7. QED
  BY <1>5, <1>6 DEF all, RightlyServed

SpawnedKinds == {"sw_task", "async_task"}

(* With the interrupts gone, nothing may wait for a dispatcher.            *)
LEMMA NoneWaiting ==
  ASSUME NEW tasks, IsFiniteSet(tasks), AnalysisOk(tasks, << >>)
  PROVE  tasks = {}
<1> DEFINE f == [t \in tasks |-> priority(t)]
<1>1. Priorities(tasks) = {f[t] : t \in tasks}
  BY DEF Priorities
<1>2. IsFiniteSet(Priorities(tasks))
  <2> HIDE DEF f
  <2>1. QED
    BY <1>1, ImageFinite
<1>3. Cardinality(Priorities(tasks)) <= 0
  BY DEF AnalysisOk
<1>4. Cardinality(Priorities(tasks)) = 0
  BY <1>2, <1>3, FS_CardinalityType
<1>5. Priorities(tasks) = {}
  BY <1>2, <1>4, FS_EmptySet
<1>6. QED
  BY <1>5 DEF Priorities

LEMMA ShowsServed ==
  ASSUME NEW b, NEW all, NEW idle, NEW s, NEW t, NEW d,
         AddedFor(b, all, idle, t, d), s.name \in d.body,
         t \in idle => s.kind = "async_task" /\ priority(t) = 0
  PROVE  Server(s, t, d)
<1>1. CASE t \in idle
  <2>1. d = ExecutorOf(idle, CoreOf(t))
    BY <1>1 DEF AddedFor
  <2>2. d.kind = "idle" /\ CoreOf(d) = CoreOf(t)
    BY <2>1, ExecutorFields
  <2>3. QED
    BY <1>1, <2>2 DEF Server
<1>2. CASE t \notin idle
  <2>1. d = DispatcherOf(b, all \ idle, CoreOf(t), priority(t))
    BY <1>2 DEF AddedFor
  <2>2. d.kind = "task" /\ CoreOf(d) = CoreOf(t) /\ priority(d) = priority(t)
    BY <2>1, DispatcherFields
  <2>3. QED
    BY <2>2 DEF Server
<1>3. QED
  BY <1>1, <1>2

LEMMA LowerSettles ==
  ASSUME NEW a, WellFormed(a), NEW b, NEW kinds \in SUBSET SpawnedKinds,
         NEW F, NEW G, Settled(a, b, kinds, F, G),
         NEW k \in SpawnedKinds \ kinds, NEW trait, NEW idle,
         idle \subseteq OfKind(b, {k}),
         \A t \in idle : k = "async_task" /\ priority(t) = 0,
         Lower(b, k, trait, idle).tag = "ok"
  PROVE  \E F2, G2 :
           /\ Settled(a, Lower(b, k, trait, idle).app, kinds \cup {k}, F2, G2)
           /\ AllPlaced(a, F) => AllPlaced(a, F2)
<1> DEFINE all == OfKind(b, {k})
           waiting == all \ idle
           F2 == [s \in a.items |-> IF s.kind = k THEN IntoTask(F[s], trait) ELSE F[s]]
           G2 == G \cup Added(b, all, idle)
           b2 == Lower(b, k, trait, idle).app
<1>1. /\ Trace(a, b, kinds, F, G) /\ ArgsOK(a, b, kinds, G)
      /\ b = [args |-> b.args, items |-> b.items]
      /\ b.items = {F[s] : s \in a.items} \cup G
      /\ k \notin kinds /\ k \in {"sw_task", "async_task"} /\ "task" \notin kinds
  BY DEF Settled, Trace, SpawnedKinds
<1>2. \A s \in a.items :
        /\ ImageOf(s, F[s], kinds)
        /\ F[s].name = s.name /\ priority(F[s]) \in Nat /\ CoreOf(F[s]) \in Nat
        /\ s.kind \notin kinds => Keeps(s, F[s], "spawn_by")
  <2>1. \A s \in a.items : ImageOf(s, F[s], kinds)
    BY <1>1 DEF Trace
  <2>2. SUFFICES ASSUME NEW s \in a.items
                 PROVE  /\ ImageOf(s, F[s], kinds)
                        /\ F[s].name = s.name /\ priority(F[s]) \in Nat
                        /\ CoreOf(F[s]) \in Nat
                        /\ s.kind \notin kinds => Keeps(s, F[s], "spawn_by")
    OBVIOUS
  <2>3. ImageOf(s, F[s], kinds)
    BY <2>1
  <2>4. QED
    BY <2>3 DEF ImageOf
<1>3. all = {F[s] : s \in {s \in a.items : s.kind = k}}
  <2>1. {k} \cap {"task", "idle"} = {} /\ "task" \notin {k}
    BY <1>1
  <2>2. all = {F[s] : s \in {s \in a.items : s.kind \in {k} \ kinds}}
    BY <1>1, <2>1, ImagesOfKind
  <2>3. QED
    BY <1>1, <2>2
<1>4. /\ b2 = [args |-> Without(b.args, {"dispatchers"}),
               items |-> (b.items \ all)
                         \cup ({IntoTask(t, trait) : t \in all}
                               \cup Added(b, all, idle))]
      /\ \A t \in all : CoreOf(t) \in 0 .. cores(b) - 1
      /\ \A c \in 0 .. cores(b) - 1 : AnalysisOk(On(waiting, c), Dispatchers(b, c))
  BY <1>1, LowerDoes
<1>5. \A s \in a.items :
        F2[s] = IF s.kind = k THEN IntoTask(F[s], trait) ELSE F[s]
  OBVIOUS
<1>6. \A s \in a.items :
        /\ s.kind = k => \E g \in Added(b, all, idle) :
                           AddedFor(b, all, idle, F[s], g) /\ s.name \in g.body
        /\ \A g \in Added(b, all, idle) :
             s.name \in g.body => /\ s.kind = k /\ F[s] \in all
                                  /\ AddedFor(b, all, idle, F[s], g)
  <2>1. SUFFICES ASSUME NEW s \in a.items
                 PROVE  /\ s.kind = k => \E g \in Added(b, all, idle) :
                             AddedFor(b, all, idle, F[s], g) /\ s.name \in g.body
                        /\ \A g \in Added(b, all, idle) :
                             s.name \in g.body =>
                               /\ s.kind = k /\ F[s] \in all
                               /\ AddedFor(b, all, idle, F[s], g)
    OBVIOUS
  <2>2. k \in {"sw_task", "async_task"} /\ k \notin kinds
    BY <1>1
  <2>3. OnSomeCore(b, OfKind(b, {k}))
    BY <1>4 DEF OnSomeCore
  <2>4. Trace(a, b, kinds, F, G)
    BY <1>1
  <2>5. WellFormed(a) /\ idle \subseteq OfKind(b, {k}) /\ s \in a.items
    BY <2>1
  <2>6. RightlyServed(b, k, idle, F, s)
    BY <2>2, <2>3, <2>4, <2>5, AddedServes
  <2>7. QED
    BY <2>6 DEF RightlyServed
<1>7. cores(b2) = cores(b) /\ "dispatchers" \notin DOMAIN b2.args
      /\ cores(b) = cores(a) /\ cores(a) \in Nat
  <2>1. b2.args = Without(b.args, {"dispatchers"})
    BY <1>4
  <2> HIDE DEF b2
  <2>2. cores(b2) = cores(b) /\ "dispatchers" \notin DOMAIN b2.args
    BY <2>1, GetWithout DEF cores
  <2>3. cores(b) = cores(a)
    BY <1>1 DEF ArgsOK, cores
  <2>4. QED
    BY <2>2, <2>3 DEF WellFormed
<1>8. b2.items = {F2[s] : s \in a.items} \cup G2
  <2>1. b2.items = (b.items \ all) \cup ({IntoTask(t, trait) : t \in all}
                                         \cup Added(b, all, idle))
    BY <1>4
  <2>2. \A s, u \in a.items : F[s] = F[u] => s = u
    BY <1>1, ImagesDiffer
  <2>3. \A s \in a.items : F[s] \in all <=> s.kind = k
    BY <1>3, <2>2
  <2>4. \A g \in G : g \notin all
    BY <1>1 DEF Trace, OfKind
  <2>5. PICK added : added = Added(b, all, idle)
    OBVIOUS
  <2>6. G2 = G \cup added /\ b2.items = (b.items \ all)
          \cup ({IntoTask(t, trait) : t \in all} \cup added)
    BY <2>1, <2>5
  <2> HIDE DEF F2, G2, b2, all
  <2>7. \A x : x \in b2.items <=> (\E s \in a.items : x = F2[s]) \/ x \in G \/ x \in added
    BY <1>1, <1>3, <1>5, <2>3, <2>4, <2>6
  <2>8. QED
    BY <2>6, <2>7
<1>9. \A s \in a.items :
        /\ ImageOf(s, F2[s], kinds \cup {k})
        /\ CoreOf(F2[s]) = CoreOf(F[s]) /\ priority(F2[s]) = priority(F[s])
        /\ Placed(F2[s]) <=> Placed(F[s])
        /\ Timed(F2[s]) <=> Timed(F[s])
  <2>1. SUFFICES ASSUME NEW s \in a.items
                 PROVE  /\ ImageOf(s, F2[s], kinds \cup {k})
                        /\ CoreOf(F2[s]) = CoreOf(F[s])
                        /\ priority(F2[s]) = priority(F[s])
                        /\ Placed(F2[s]) <=> Placed(F[s])
                        /\ Timed(F2[s]) <=> Timed(F[s])
    OBVIOUS
  <2>2. ImageOf(s, F[s], kinds)
    BY <1>2
  <2>3. CASE s.kind = k
    <3>1. F2[s] = IntoTask(F[s], trait)
      BY <1>5, <2>3
    <3> HIDE DEF F2
    <3>2. QED
      BY <2>2, <2>3, <3>1, LoweredImage
  <2>4. CASE s.kind # k
    <3>1. F2[s] = F[s]
      BY <1>5, <2>4
    <3> HIDE DEF F2
    <3>2. ImageOf(s, F[s], kinds \cup {k})
      BY <2>2, <2>4 DEF ImageOf
    <3>3. QED
      BY <3>1, <3>2
  <2>5. QED
    BY <2>3, <2>4
<1>10. \A g \in Added(b, all, idle) :
         /\ \/ g.kind = "task" /\ g.name = "Dispatcher"
            \/ g.kind = "idle" /\ g.name = "IdleExecutor"
         /\ g.kind = "task" =>
              \E c \in 0 .. cores(b) - 1 : \E p \in Priorities(On(waiting, c)) :
                g = DispatcherOf(b, waiting, c, p)
  <2>1. SUFFICES ASSUME NEW g \in Added(b, all, idle)
                 PROVE  /\ \/ g.kind = "task" /\ g.name = "Dispatcher"
                           \/ g.kind = "idle" /\ g.name = "IdleExecutor"
                        /\ g.kind = "task" =>
                             \E c \in 0 .. cores(b) - 1 :
                               \E p \in Priorities(On(waiting, c)) :
                                 g = DispatcherOf(b, waiting, c, p)
    OBVIOUS
  <2>2. PICK c \in 0 .. cores(b) - 1 :
          Dispatching(b, waiting, c, g) \/ Executing(idle, c, g)
    BY AddedFrom
  <2>3. CASE Executing(idle, c, g)
    BY <2>3, ExecutorFields DEF Executing
  <2>4. CASE Dispatching(b, waiting, c, g)
    <3>1. PICK p \in Priorities(On(waiting, c)) : g = DispatcherOf(b, waiting, c, p)
      BY <2>4 DEF Dispatching
    <3>2. g.kind = "task" /\ g.name = "Dispatcher"
      BY <3>1, DispatcherFields
    <3>3. QED
      BY <3>1, <3>2
  <2>5. QED
    BY <2>2, <2>3, <2>4
<1> HIDE DEF F2, b2
<1>11. Trace(a, b2, kinds \cup {k}, F2, G2)
  <2>1. b2 = [args |-> b2.args, items |-> b2.items]
    BY <1>4
  <2>2. \A g \in G2 : /\ g.kind \in {"task", "idle"}
                      /\ g.name \in {"Dispatcher", "IdleExecutor"}
    BY <1>1, <1>10 DEF Trace
  <2> HIDE DEF G2
  <2>3. QED
    BY <1>8, <1>9, <2>1, <2>2 DEF Trace
<1>12. ArgsOK(a, b2, kinds \cup {k}, G2)
  BY <1>7 DEF ArgsOK
<1>13. PlacedOK(a, b2, F2)
  <2>1. PlacedOK(a, b, F)
    BY DEF Settled
  <2>2. QED
    BY <1>7, <1>9, <2>1 DEF PlacedOK, OnItsCore
<1>14. RankedOK(a, F2)
  <2>1. RankedOK(a, F)
    BY DEF Settled
  <2>2. QED
    BY <1>9, <2>1 DEF RankedOK
<1>15. AllPlaced(a, F) => AllPlaced(a, F2)
  BY <1>9 DEF AllPlaced
<1>16. ServedOK(a, b2, kinds \cup {k}, F2, G2)
  <2>1. SUFFICES ASSUME NEW s \in a.items
                 PROVE  IF s.kind \in kinds \cup {k}
                        THEN /\ CoreOf(F2[s]) < cores(b2)
                             /\ \E d \in G2 : /\ Server(s, F2[s], d)
                                              /\ \A e \in G2 : s.name \in e.body => e = d
                        ELSE \A g \in G2 : s.name \notin g.body
    BY DEF ServedOK
  <2>2. ServedOK(a, b, kinds, F, G)
    BY DEF Settled
  <2>3. \A d : Server(s, F2[s], d) <=> Server(s, F[s], d)
    BY <1>9 DEF Server
  <2>4. CASE s.kind = k
    <3>1. \A g \in G : s.name \notin g.body
      BY <1>1, <2>2, <2>4 DEF ServedOK
    <3>2. PICK d \in Added(b, all, idle) :
            AddedFor(b, all, idle, F[s], d) /\ s.name \in d.body
      BY <1>6, <2>4
    <3>3. Server(s, F[s], d)
      <4>1. F[s] \in idle => s.kind = "async_task" /\ priority(F[s]) = 0
        BY <2>4
      <4>2. QED
        BY <3>2, <4>1, ShowsServed
    <3>4. \A e \in Added(b, all, idle) : s.name \in e.body => e = d
      <4>1. \A e \in Added(b, all, idle) :
              s.name \in e.body => AddedFor(b, all, idle, F[s], e)
        BY <1>6
      <4>2. QED
        BY <3>2, <4>1 DEF AddedFor
    <3>5. CoreOf(F2[s]) < cores(b2)
      <4>1. F[s] \in all
        BY <1>3, <2>4
      <4>2. PICK c, n : c = CoreOf(F[s]) /\ n = cores(b)
        OBVIOUS
      <4>3. c \in 0 .. n - 1 /\ n \in Nat
        BY <1>4, <1>7, <4>1, <4>2
      <4>4. c < n
        BY <4>3
      <4>5. QED
        BY <1>7, <1>9, <4>2, <4>4
    <3>6. QED
      BY <2>3, <2>4, <3>1, <3>2, <3>3, <3>4, <3>5
  <2>5. CASE s.kind \in kinds
    <3>1. \A g \in Added(b, all, idle) : s.name \notin g.body
      BY <1>1, <1>6, <2>5
    <3>2. /\ CoreOf(F[s]) < cores(b)
          /\ \E d \in G : /\ Server(s, F[s], d)
                          /\ \A e \in G : s.name \in e.body => e = d
      BY <2>2, <2>5 DEF ServedOK
    <3>3. QED
      BY <1>7, <1>9, <2>3, <2>5, <3>1, <3>2
  <2>6. CASE s.kind \notin kinds \cup {k}
    BY <1>6, <2>2, <2>6 DEF ServedOK
  <2>7. QED
    BY <2>4, <2>5, <2>6
<1>17. SpawnersOK(a, G2)
  <2>1. SUFFICES ASSUME NEW g \in Added(b, all, idle), g.kind = "task",
                        NEW s \in a.items, NEW u \in a.items,
                        s.name \in g.body, u.name \in g.body
                 PROVE  Get(s.attr, "spawn_by", CoreOf(g))
                          = Get(u.attr, "spawn_by", CoreOf(g))
    BY DEF Settled, SpawnersOK
  <2>2. PICK c : c \in 0 .. cores(b) - 1
                 /\ \E p \in Priorities(On(waiting, c)) :
                      g = DispatcherOf(b, waiting, c, p)
    BY <1>10, <2>1
  <2>3. PICK p : g = DispatcherOf(b, waiting, c, p)
    BY <2>2
  <2>4. CoreOf(g) = c /\ g.kind = "task" /\ priority(g) = p
    BY <2>3, DispatcherFields
  <2>5. ASSUME NEW v \in a.items, v.name \in g.body
        PROVE  /\ F[v] \in On(waiting, c) /\ priority(F[v]) = p
               /\ Get(v.attr, "spawn_by", c) = spawn_by(F[v])
    <3>1. v.kind = k /\ F[v] \in all /\ AddedFor(b, all, idle, F[v], g)
      BY <1>6, <2>1, <2>5
    <3>2. F[v] \notin idle
      <4>1. F[v] \in idle => g = ExecutorOf(idle, CoreOf(F[v]))
        BY <3>1 DEF AddedFor
      <4>2. QED
        BY <2>4, <4>1, ExecutorFields
    <3>3. g = DispatcherOf(b, waiting, CoreOf(F[v]), priority(F[v]))
      BY <3>1, <3>2 DEF AddedFor
    <3>4. CoreOf(F[v]) = c /\ priority(F[v]) = p
      BY <2>4, <3>3, DispatcherFields
    <3>5. Keeps(v, F[v], "spawn_by")
      BY <1>1, <1>2, <3>1
    <3>6. QED
      BY <3>1, <3>2, <3>4, <3>5 DEF On, Keeps, spawn_by, Get
  <2>6. PICK tasks : tasks = On(waiting, c)
    OBVIOUS
  <2>7. AnalysisOk(tasks, Dispatchers(b, c)) /\ \A t \in tasks : CoreOf(t) = c
    BY <1>4, <2>2, <2>6 DEF On
  <2>8. PICK x, y : x = F[s] /\ y = F[u]
    OBVIOUS
  <2>9. /\ x \in tasks /\ y \in tasks /\ priority(x) = p /\ priority(y) = p
        /\ Get(s.attr, "spawn_by", c) = spawn_by(x)
        /\ Get(u.attr, "spawn_by", c) = spawn_by(y)
    BY <2>1, <2>5, <2>6, <2>8
  <2>10. spawn_by(x) = spawn_by(y)
    BY <2>7, <2>9 DEF AnalysisOk, check_disjoint_priorities,
       check_uniform_spawn_by, Priorities, IsCrossCore
  <2>11. QED
    BY <2>4, <2>9, <2>10
<1>18. OrderOK(a, G2)
  <2>1. IsFiniteSet(waiting) /\ \A t \in waiting : priority(t) \in Nat
    <3> DEFINE T == {s \in a.items : s.kind = k}
    <3>1. IsFiniteSet(T)
      BY FS_Subset DEF WellFormed
    <3>2. IsFiniteSet({F[s] : s \in T})
      <4> HIDE DEF T
      <4>1. QED
        BY <3>1, ImageFinite
    <3>3. IsFiniteSet(all)
      BY <1>3, <3>2
    <3>4. IsFiniteSet(waiting)
      BY <3>3, FS_Subset
    <3>5. QED
      BY <1>2, <1>3, <3>4
  <2>2. CASE kinds = {}
    <3>1. G2 = Added(b, all, idle) /\ b.args = a.args
      BY <1>1, <2>2 DEF ArgsOK
    <3>2. \A c : Dispatchers(b, c) = Dispatchers(a, c)
      BY <3>1 DEF Dispatchers
    <3>3. SUFFICES ASSUME NEW d \in Added(b, all, idle), NEW e \in Added(b, all, idle),
                          d.kind = "task", e.kind = "task",
                          CoreOf(d) = CoreOf(e), priority(d) < priority(e)
                   PROVE  \E i, j \in DOMAIN Dispatchers(a, CoreOf(d)) :
                            /\ i < j
                            /\ Dispatchers(a, CoreOf(d))[i] = binds(d)
                            /\ Dispatchers(a, CoreOf(d))[j] = binds(e)
      BY <3>1 DEF OrderOK
    <3>4. PICK c \in 0 .. cores(b) - 1 :
            \E p \in Priorities(On(waiting, c)) : d = DispatcherOf(b, waiting, c, p)
      BY <1>10, <3>3
    <3>5. PICK p \in Priorities(On(waiting, c)) : d = DispatcherOf(b, waiting, c, p)
      BY <3>4
    <3>6. PICK c2 \in 0 .. cores(b) - 1 :
            \E q \in Priorities(On(waiting, c2)) : e = DispatcherOf(b, waiting, c2, q)
      BY <1>10, <3>3
    <3>7. PICK q \in Priorities(On(waiting, c2)) : e = DispatcherOf(b, waiting, c2, q)
      BY <3>6
    <3>8. CoreOf(d) = c /\ priority(d) = p /\ CoreOf(e) = c2 /\ priority(e) = q
      BY <3>5, <3>7, DispatcherFields
    <3>9. c2 = c /\ p < q
      BY <3>3, <3>8
    <3>10. /\ Len(Dispatchers(b, c)) \in Nat
           /\ DOMAIN Dispatchers(b, c) = 1 .. Len(Dispatchers(b, c))
      <4>1. PICK lists : lists = Get(b.args, "dispatchers", << >>)
        OBVIOUS
      <4>2. lists \in Seq(Seq(STRING))
        BY <3>1, <4>1 DEF WellFormed
      <4>3. c < Len(lists) => lists[c + 1] \in Seq(STRING)
        <5>1. PICK n : n = cores(b) /\ n \in Nat
          BY <1>7
        <5>2. c \in 0 .. n - 1
          BY <5>1
        <5>3. QED
          BY <4>2, <5>1, <5>2
      <4>4. Dispatchers(b, c) \in Seq(STRING)
        <5>1. Dispatchers(b, c) = IF c < Len(lists) THEN lists[c + 1] ELSE << >>
          BY <4>1 DEF Dispatchers
        <5>2. << >> \in Seq(STRING)
          OBVIOUS
        <5>3. QED
          BY <4>3, <5>1, <5>2
      <4>5. QED
        BY <4>4
    <3>11. AnalysisOk(On(waiting, c), Dispatchers(b, c))
      BY <1>4
    <3>12. q \in Priorities(On(waiting, c)) /\ e = DispatcherOf(b, waiting, c, q)
      BY <3>7, <3>9
    <3> HIDE DEF waiting
    <3>13. \E i, j \in DOMAIN Dispatchers(b, c) :
             /\ i < j
             /\ Dispatchers(b, c)[i] = binds(d)
             /\ Dispatchers(b, c)[j] = binds(e)
      BY <2>1, <3>5, <3>9, <3>10, <3>11, <3>12, DispatchersRanked
    <3>14. QED
      BY <3>2, <3>8, <3>13
  <2>3. CASE kinds # {}
    <3>1. \A c \in 0 .. cores(b) - 1 : Dispatchers(b, c) = << >>
      <4>1. Get(b.args, "dispatchers", << >>) = << >>
        BY <1>1, <2>3 DEF ArgsOK, Get
      <4>2. PICK n : n = cores(b) /\ n \in Nat
        BY <1>7
      <4>3. \A c \in 0 .. n - 1 : ~ (c < Len(<< >>))
        BY <4>2
      <4>4. QED
        BY <4>1, <4>2, <4>3 DEF Dispatchers
    <3>2. \A c \in 0 .. cores(b) - 1 : On(waiting, c) = {}
      <4>1. SUFFICES ASSUME NEW c \in 0 .. cores(b) - 1 PROVE On(waiting, c) = {}
        OBVIOUS
      <4>2. AnalysisOk(On(waiting, c), << >>)
        <5>1. AnalysisOk(On(waiting, c), Dispatchers(b, c)) /\ Dispatchers(b, c) = << >>
          BY <1>4, <3>1, <4>1
        <5> HIDE DEF waiting
        <5>2. QED
          BY <5>1
      <4>3. IsFiniteSet(On(waiting, c))
        BY <2>1, FS_Subset DEF On
      <4>4. QED
        BY <4>2, <4>3, NoneWaiting
    <3>3. \A g \in Added(b, all, idle) : g.kind # "task"
      <4>1. \A c \in 0 .. cores(b) - 1 : Priorities(On(waiting, c)) = {}
        BY <3>2 DEF Priorities
      <4>2. QED
        BY <1>10, <4>1
    <3>4. OrderOK(a, G)
      BY DEF Settled
    <3>5. QED
      BY <3>3, <3>4 DEF OrderOK
  <2>4. QED
    BY <2>2, <2>3
<1>19. QED
  BY <1>11, <1>12, <1>13, <1>14, <1>15, <1>16, <1>17, <1>18 DEF Settled, b2

-----------------------------------------------------------------------------
(* What the bus tells of the kinds that have been lowered.                 *)
Lowers == {"SoftwareTasks", "AsyncPass"}
LoweredKinds(bus) == {k \in SpawnedKinds : \/ k = "sw_task" /\ "SoftwareTasks" \in bus
                                           \/ k = "async_task" /\ "AsyncPass" \in bus}

(* The application b that the passes D have made of the source a.          *)
Follows(a, b, bus, D) ==
  \E F, G : /\ Settled(a, b, LoweredKinds(bus), F, G)
            /\ "AutoAssign" \in D => AllPlaced(a, F)

LEMMA OnePass ==
  ASSUME NEW a, WellFormed(a), NEW b, NEW bus, bus \subseteq Lowers, NEW D,
         Follows(a, b, bus, D), NEW pass \in Passes,
         run_pass(pass, b).tag = "ok", Published(pass) \cap bus = {},
         pass \in Lowers \/ bus = {}
  PROVE  Follows(a, run_pass(pass, b).app, bus \cup Published(pass), D \cup {pass})
<1>1. PICK F, G : /\ Settled(a, b, LoweredKinds(bus), F, G)
                  /\ "AutoAssign" \in D => AllPlaced(a, F)
  BY DEF Follows
<1>2. LoweredKinds({}) = {}
  BY DEF LoweredKinds
<1>3. bus = {} => G = {} /\ Settled(a, b, {}, F, {})
  BY <1>1, <1>2 DEF Settled, ArgsOK
<1>4. CASE pass = "AutoAssign"
  <2>1. /\ Settled(a, b, {}, F, {}) /\ run_pass(pass, b) = AutoAssign(b)
        /\ bus = {} /\ Published(pass) = {} /\ pass \notin Lowers
    BY <1>3, <1>4 DEF Lowers, run_pass, Published
  <2>2. AutoAssign(b).tag = "ok"
    BY <2>1
  <2>3. PICK F2 : Settled(a, AutoAssign(b).app, {}, F2, {}) /\ AllPlaced(a, F2)
    BY <2>1, <2>2, AutoAssignSettles
  <2>4. bus \cup Published(pass) = {}
    BY <2>1
  <2>5. QED
    BY <1>2, <2>1, <2>3, <2>4 DEF Follows
<1>5. CASE pass = "deadline_pass"
  <2>1. /\ Settled(a, b, {}, F, {}) /\ run_pass(pass, b) = Deadline(b)
        /\ bus = {} /\ Published(pass) = {}
    BY <1>3, <1>5 DEF Lowers, run_pass, Published
  <2>2. Deadline(b).tag = "ok"
    BY <2>1
  <2>3. PICK F2 : /\ Settled(a, Deadline(b).app, {}, F2, {})
                  /\ AllPlaced(a, F) => AllPlaced(a, F2)
    BY <2>1, <2>2, DeadlineSettles
  <2>4. bus \cup Published(pass) = {}
    BY <2>1
  <2>5. "AutoAssign" \in D \cup {pass} => AllPlaced(a, F2)
    BY <1>1, <1>5, <2>3
  <2>6. QED
    BY <1>2, <2>1, <2>3, <2>4, <2>5 DEF Follows
<1>6. ASSUME pass \in Lowers, NEW k \in SpawnedKinds, NEW trait, NEW idle,
             pass = IF k = "sw_task" THEN "SoftwareTasks" ELSE "AsyncPass",
             run_pass(pass, b) = Lower(b, k, trait, idle),
             idle \subseteq OfKind(b, {k}),
             \A t \in idle : k = "async_task" /\ priority(t) = 0
      PROVE  Follows(a, run_pass(pass, b).app, bus \cup Published(pass), D \cup {pass})
  <2>1. Published(pass) = {pass}
    BY <1>6 DEF Published, Lowers
  <2>2. pass \notin bus
    BY <2>1
  <2>3. /\ k \in SpawnedKinds \ LoweredKinds(bus)
        /\ LoweredKinds(bus) \in SUBSET SpawnedKinds
    BY <1>6, <2>2 DEF LoweredKinds
  <2>4. LoweredKinds(bus \cup {pass}) = LoweredKinds(bus) \cup {k}
    BY <1>6 DEF LoweredKinds, SpawnedKinds
  <2>5. Lower(b, k, trait, idle).tag = "ok"
    BY <1>6
  <2>6. \A t \in idle : k = "async_task" /\ priority(t) = 0
    BY <1>6
  <2>7. PICK kinds : kinds = LoweredKinds(bus)
    OBVIOUS
  <2>8. /\ kinds \in SUBSET SpawnedKinds /\ k \in SpawnedKinds \ kinds
        /\ Settled(a, b, kinds, F, G)
    BY <1>1, <2>3, <2>7
  <2>9. \E F2, G2 :
          /\ Settled(a, Lower(b, k, trait, idle).app, kinds \cup {k}, F2, G2)
          /\ AllPlaced(a, F) => AllPlaced(a, F2)
    BY <1>6, <2>5, <2>6, <2>8, LowerSettles
  <2>10. PICK F2, G2 :
          /\ Settled(a, Lower(b, k, trait, idle).app, kinds \cup {k}, F2, G2)
          /\ AllPlaced(a, F) => AllPlaced(a, F2)
    BY <2>9
  <2>11. "AutoAssign" \in D \cup {pass} => AllPlaced(a, F2)
    BY <1>1, <1>6, <2>10 DEF Lowers
  <2>12. Settled(a, run_pass(pass, b).app, LoweredKinds(bus \cup Published(pass)), F2, G2)
    BY <1>6, <2>1, <2>4, <2>7, <2>10
  <2>13. QED
    BY <2>11, <2>12 DEF Follows
<1>7. CASE pass = "SoftwareTasks"
  <2>1. /\ pass \in Lowers /\ "sw_task" \in SpawnedKinds
        /\ run_pass(pass, b) = Lower(b, "sw_task", "RticSwTask", {})
    BY <1>7 DEF Lowers, SpawnedKinds, run_pass, Software
  <2>2. QED
    BY <1>6, <1>7, <2>1
<1>8. CASE pass = "AsyncPass"
  <2> DEFINE prio0 == PriorityGroup(OfKind(b, {"async_task"}), 0)
  <2>1. /\ pass \in Lowers /\ "async_task" \in SpawnedKinds
        /\ run_pass(pass, b) = Lower(b, "async_task", "RticAsyncTask", prio0)
    BY <1>8 DEF Lowers, SpawnedKinds, run_pass, Async, Err
  <2>2. /\ prio0 \subseteq OfKind(b, {"async_task"})
        /\ \A t \in prio0 : priority(t) = 0
    BY DEF PriorityGroup
  <2> HIDE DEF prio0
  <2>3. QED
    BY <1>6, <1>8, <2>1, <2>2
<1>9. QED
  BY <1>4, <1>5, <1>7, <1>8 DEF Passes

-----------------------------------------------------------------------------
(* The invariant of a run whose passes decide before they lower.           *)
PassesDone == {passes[i] : i \in 1 .. macro.done}

BusOK ==
  /\ macro.bus \subseteq Lowers
  /\ macro.bus # {} => PassesDone \cap Lowers # {}

PlaceInv ==
  macro # NoMacro /\ DecidedBeforeLowered =>
    /\ BusOK
    /\ Follows(macro.of.app, macro.app, macro.bus, PassesDone)
    /\ macro.pc \in PastPasses => Parse(macro.app).tag = "ok"

LEMMA InvokePlace ==
  ASSUME NEW s \in Sources, NEW t, NEW log, NEW pass_dir,
         Invoke(s, t, log, pass_dir)
  PROVE  PlaceInv'
<1>1. /\ macro'.of = s /\ macro'.app = s.app /\ macro'.bus = {}
      /\ macro'.done = 0 /\ macro'.pc = "passes"
  BY DEF Invoke
<1>2. WellFormed(s.app)
  BY ToolchainAssumption
<1>3. PICK a : a = s.app
  OBVIOUS
<1>4. WellFormed(a)
  BY <1>2, <1>3
<1>5. Settled(a, a, {}, [i \in a.items |-> i], {})
  BY <1>4, SourceSettled
<1>6. (PassesDone)' = {}
  BY <1>1 DEF PassesDone
<1>7. LoweredKinds({}) = {}
  BY DEF LoweredKinds
<1>8. Follows(a, a, {}, {})
  BY <1>5, <1>7 DEF Follows
<1>9. QED
  BY <1>1, <1>3, <1>6, <1>8 DEF PlaceInv, BusOK, PastPasses

LEMMA RunPassPlace ==
  ASSUME FreshInv, RunInv, PlaceInv, RunPass
  PROVE  PlaceInv'
<1>1. /\ macro # NoMacro
      /\ {"pc", "of", "target", "log", "app", "done", "bus", "pass_dir"}
           \subseteq DOMAIN macro
  <2>1. macro # NoMacro
    BY DEF RunPass, NoMacro
  <2>2. QED
    BY <2>1 DEF FreshInv, MacroOK, RunInv, RunOK
<1>2. macro.of \in Sources /\ macro.done \in 0 .. Len(passes) /\ macro.done < Len(passes)
  BY <1>1 DEF RunInv, RunOK, RunPass
<1>3. /\ Len(passes) \in Nat /\ passes \in Seq(Passes)
      /\ \A i \in 1 .. Len(passes) : passes[i] \in Passes
  BY <1>2, PassesAreSequences DEF passes
<1>4. PICK pass : pass = passes[macro.done + 1]
  OBVIOUS
<1>5. PICK result : result = run_pass(pass, macro.app)
  OBVIOUS
<1>6. PassOutput(pass, result) \/ PassError(pass, result) \/ PassPanic(pass, result)
  BY <1>4, <1>5 DEF RunPass
<1>7. pass \in Passes /\ macro.done + 1 \in DOMAIN passes
  BY <1>2, <1>3, <1>4
<1>8. CASE PassError(pass, result) \/ PassPanic(pass, result)
  <2>1. /\ macro'.of = macro.of /\ macro'.app = macro.app
        /\ macro'.bus = macro.bus /\ macro'.done = macro.done
        /\ macro'.pc \in {"failed", "panicked"}
    BY <1>1, <1>8 DEF PassError, PassPanic, Finish
  <2>2. (PassesDone)' = PassesDone
        /\ (DecidedBeforeLowered' <=> DecidedBeforeLowered)
    BY <2>1 DEF PassesDone, DecidedBeforeLowered, passes
  <2>3. QED
    BY <1>1, <2>1, <2>2 DEF PlaceInv, BusOK, PastPasses
<1>9. CASE PassOutput(pass, result)
  <2>1. /\ macro'.of = macro.of /\ macro'.app = result.app
        /\ macro'.bus = macro.bus \cup Published(pass)
        /\ macro'.done = macro.done + 1
        /\ macro'.pc = "passes"
        /\ result.tag = "ok" /\ Published(pass) \cap macro.bus = {}
    BY <1>1, <1>9 DEF PassOutput, RunPass
  <2>2. DecidedBeforeLowered' <=> DecidedBeforeLowered
    BY <2>1 DEF DecidedBeforeLowered, passes
  <2>3. SUFFICES ASSUME DecidedBeforeLowered
                 PROVE  /\ BusOK'
                        /\ Follows(macro.of.app, result.app,
                                   macro.bus \cup Published(pass), PassesDone')
    BY <2>1, <2>2 DEF PlaceInv, PastPasses
  <2>4. (PassesDone)' = PassesDone \cup {pass}
    <3>1. 1 .. macro.done + 1 = (1 .. macro.done) \cup {macro.done + 1}
      BY <1>2, <1>3
    <3>2. passes' = passes
      BY <2>1 DEF passes
    <3>3. QED
      BY <1>4, <2>1, <3>1, <3>2 DEF PassesDone
  <2>5. BusOK /\ Follows(macro.of.app, macro.app, macro.bus, PassesDone)
    BY <1>1, <2>3 DEF PlaceInv
  <2>6. pass \in Lowers \/ macro.bus = {}
    <3>1. SUFFICES ASSUME macro.bus # {} PROVE pass \in Lowers
      OBVIOUS
    <3>2. PICK i \in 1 .. macro.done : passes[i] \in Lowers
      BY <2>5, <3>1 DEF BusOK, PassesDone
    <3>3. /\ i \in DOMAIN passes /\ i < macro.done + 1
          /\ macro.done + 1 \in DOMAIN passes
      BY <1>2, <1>3, <1>7
    <3>4. QED
      BY <1>4, <2>3, <3>2, <3>3 DEF DecidedBeforeLowered, Lowers
  <2>7. BusOK'
    <3>1. macro.bus \cup Published(pass) \subseteq Lowers
      BY <2>5 DEF BusOK, Published, Lowers
    <3>2. Published(pass) # {} => pass \in Lowers
      BY DEF Published, Lowers
    <3>3. QED
      BY <2>1, <2>4, <2>5, <3>1, <3>2 DEF BusOK
  <2>8. PICK a, b, bus, D : a = macro.of.app /\ b = macro.app
                            /\ bus = macro.bus /\ D = PassesDone
    OBVIOUS
  <2>9. /\ WellFormed(a) /\ bus \subseteq Lowers /\ Follows(a, b, bus, D)
        /\ run_pass(pass, b).tag = "ok" /\ Published(pass) \cap bus = {}
        /\ pass \in Lowers \/ bus = {}
    BY <1>2, <1>5, <2>1, <2>5, <2>6, <2>8, ToolchainAssumption DEF BusOK
  <2>10. Follows(a, run_pass(pass, b).app, bus \cup Published(pass), D \cup {pass})
    BY <1>7, <2>9, OnePass
  <2>11. QED
    BY <1>5, <2>4, <2>7, <2>8, <2>10
<1>10. QED
  BY <1>6, <1>8, <1>9

LEMMA PlaceStep ==
  ASSUME IInv, FreshInv, RunInv, PlaceInv, [Next]_vars
  PROVE  PlaceInv'
<1>1. CASE UNCHANGED macro \/ macro' = NoMacro
  BY <1>1 DEF PlaceInv, BusOK, PassesDone, DecidedBeforeLowered, passes
<1>2. CASE \E t \in Targets : Build(t)
  <2>1. PICK t \in Targets : Build(t)
    BY <1>2
  <2>2. files[t].of \in Sources
    <3>1. files[t] = Source(latest[t]) /\ latest[t] \in Sources
      BY <2>1 DEF Build, RunInv, SourcesOK
    <3>2. QED
      BY <3>1 DEF Source
  <2>3. Invoke(files[t].of, t, FALSE, FALSE)
    BY <2>1 DEF Build
  <2>4. QED
    BY <2>2, <2>3, InvokePlace
<1>3. CASE CargoCheck
  <2>1. CASE Invoke(files[tool.target].of, tool.target, TRUE, tool.pass_dir)
             /\ files[tool.target].text = "source"
    <3>1. tool.target \in Targets
      BY <1>3 DEF CargoCheck, IInv, ToolOK, NoTool, Checking
    <3>2. files[tool.target].of \in Sources
      BY <2>1, <3>1 DEF RunInv, SourcesOK, HoldsSource
    <3>3. QED
      BY <2>1, <3>2, InvokePlace
  <2>2. CASE UNCHANGED macro
    BY <1>1, <2>2
  <2>3. QED
    BY <1>3, <2>1, <2>2 DEF CargoCheck, pipelineVars
<1>4. CASE Macro
  <2>1. /\ macro # NoMacro
        /\ {"pc", "of", "app", "done", "bus"} \subseteq DOMAIN macro
    <3>1. macro.pc # "off"
      BY <1>4, MacroFacts, Zenon
    <3>2. macro # NoMacro
      BY <3>1 DEF NoMacro
    <3>3. QED
      BY <3>2 DEF FreshInv, MacroOK
  <2>2. CASE ParseApp \/ AnalyseApp \/ ValidateApp \/ Generate
    <3>1. /\ macro'.of = macro.of /\ macro'.app = macro.app
          /\ macro'.bus = macro.bus /\ macro'.done = macro.done
          /\ macro'.pc \in PastPasses =>
               macro.pc \in PastPasses \/ Parse(macro.app).tag = "ok"
      BY <2>1, <2>2 DEF ParseApp, AnalyseApp, ValidateApp, Generate, Finish,
                        PastPasses
    <3>2. (PassesDone)' = PassesDone
          /\ (DecidedBeforeLowered' <=> DecidedBeforeLowered)
      BY <3>1 DEF PassesDone, DecidedBeforeLowered, passes
    <3>3. QED
      BY <2>1, <3>1, <3>2 DEF PlaceInv, BusOK
  <2>3. QED
    BY <1>4, <2>2, RunPassPlace DEF Macro, PipelineNext
<1>5. ASSUME [Next]_vars, ~ Macro, ~ \E t \in Targets : Build(t), ~ CargoCheck
      PROVE  UNCHANGED macro \/ macro' = NoMacro
  BY <1>5, NextCases
     DEF Flash, Device, vars, pipelineVars, Edit, CheckStep, Expand,
         CheckReturns, Collect, Beautify, Choose, WriteBackup, WriteMerged,
         RemoveFile, RenameBackup, RemoveExpansions, Interrupt
<1>6. QED
  BY <1>1, <1>2, <1>3, <1>4, <1>5

-----------------------------------------------------------------------------
(* What the images and the generated items come to in the end, when no     *)
(* attribute of a pass is left.                                            *)
Accepted(b) == Parse(b).tag = "ok" /\ OfKind(b, SpawnedKinds) = {}

Arrived(a, b, kinds, F, G) ==
  /\ \A s \in a.items :
       /\ F[s] \in b.items /\ F[s].name = s.name /\ F[s].body = s.body
       /\ F[s].kind \in {"task", "idle"} => F[s].body = {}
       /\ s.kind \in SpawnedKinds => s.kind \in kinds
       /\ ~ Timed(F[s])
       /\ \A t \in b.items : t.name = s.name => t = F[s]
  /\ \A t \in b.items : t \in G \/ \E s \in a.items : t = F[s]

LEMMA AtLast ==
  ASSUME NEW a, WellFormed(a), NEW b, NEW kinds, kinds \subseteq SpawnedKinds,
         NEW F, NEW G, Trace(a, b, kinds, F, G), Accepted(b)
  PROVE  Arrived(a, b, kinds, F, G)
<1>1. /\ b.items = {F[s] : s \in a.items} \cup G
      /\ \A s \in a.items : ImageOf(s, F[s], kinds)
      /\ \A g \in G : g.name \in {"Dispatcher", "IdleExecutor"}
  BY DEF Trace
<1>2. ASSUME NEW s \in a.items
      PROVE  /\ F[s].name = s.name /\ F[s].body = s.body
             /\ F[s].kind = IF s.kind \in kinds THEN "task" ELSE s.kind
  <2>1. ImageOf(s, F[s], kinds)
    BY <1>1
  <2>2. QED
    BY <2>1 DEF ImageOf
<1>3. \A i, j \in a.items : i.name = j.name => i = j
  BY DEF WellFormed
<1>4. ASSUME NEW s \in a.items
      PROVE  /\ s.name \notin {"Dispatcher", "IdleExecutor"}
             /\ s.kind \in Singular \cup {"task", "sw_task", "async_task"}
             /\ s.kind # "shared" => s.body = {}
  BY DEF WellFormed
<1>5. ASSUME NEW s \in a.items
      PROVE  s.kind \in SpawnedKinds => s.kind \in kinds
  <2>1. F[s] \notin OfKind(b, SpawnedKinds) /\ F[s] \in b.items
    BY <1>1 DEF Accepted
  <2>2. QED
    BY <1>2, <2>1 DEF OfKind
<1>6. ASSUME NEW s \in a.items
      PROVE  F[s].kind \in {"task", "idle"} => F[s].body = {}
  <2>1. s.kind = "shared" => F[s].kind = "shared"
    BY <1>2 DEF SpawnedKinds
  <2>2. QED
    BY <1>2, <1>4, <2>1
<1>7. ASSUME NEW s \in a.items
      PROVE  ~ Timed(F[s])
  <2>1. F[s].kind \in Singular \cup {"task"} /\ F[s] \in b.items
    BY <1>1, <1>2, <1>4, <1>5 DEF SpawnedKinds
  <2>2. DOMAIN F[s].attr \subseteq supported(F[s].kind)
    BY <2>1 DEF Accepted, Parse, Err, OfKind
  <2>3. "deadline" \notin supported(F[s].kind)
    BY DEF supported
  <2>4. QED
    BY <2>2, <2>3 DEF Timed
<1>8. ASSUME NEW s \in a.items, NEW t \in b.items, t.name = s.name
      PROVE  t = F[s]
  <2>1. t \notin G
    BY <1>1, <1>4, <1>8
  <2>2. PICK u \in a.items : t = F[u]
    BY <1>1, <2>1
  <2>3. u.name = s.name
    BY <1>2, <1>8, <2>2
  <2>4. QED
    BY <1>3, <2>2, <2>3
<1>9. QED
  BY <1>1, <1>2, <1>5, <1>6, <1>7, <1>8 DEF Arrived

LEMMA PlaceInvPlaces ==
  ASSUME RunInv, PlaceInv
  PROVE  EveryTaskHasItsPlace
<1> SUFFICES ASSUME macro.pc = "code", TypeChecks(macro.app), DecidedBeforeLowered
             PROVE  /\ SpawnedTasksAreServed
                    /\ OneSpawnerPerDispatcher
                    /\ DispatchersInOrder
                    /\ "AutoAssign" \in {passes[i] : i \in DOMAIN passes} =>
                         PlacedWithItsResources
                    /\ DeadlinesRanked
  BY DEF EveryTaskHasItsPlace
<1>1. macro # NoMacro
  BY DEF NoMacro
<1>2. macro.of \in Sources /\ macro.done = Len(passes)
  BY <1>1 DEF RunInv, RunOK, PastPasses
<1>3. PICK a, b, kinds : /\ a = macro.of.app /\ b = macro.app
                         /\ kinds = LoweredKinds(macro.bus)
  OBVIOUS
<1>4. PICK F, G : /\ Settled(a, b, kinds, F, G)
                  /\ "AutoAssign" \in PassesDone => AllPlaced(a, F)
  BY <1>1, <1>3 DEF PlaceInv, Follows
<1>5. /\ WellFormed(a) /\ kinds \subseteq SpawnedKinds /\ Accepted(b)
      /\ Trace(a, b, kinds, F, G)
  <2>1. Parse(b).tag = "ok"
    BY <1>1, <1>3 DEF PlaceInv, PastPasses
  <2>2. OfKind(b, SpawnedKinds) = {}
    BY <1>3 DEF TypeChecks, SpawnedKinds
  <2>3. WellFormed(a)
    BY <1>2, <1>3, ToolchainAssumption
  <2>4. QED
    BY <1>3, <1>4, <2>1, <2>2, <2>3 DEF LoweredKinds, Accepted, Settled
<1>6. /\ \A s \in a.items :
           /\ F[s] \in b.items /\ F[s].name = s.name /\ F[s].body = s.body
           /\ F[s].kind \in {"task", "idle"} => F[s].body = {}
           /\ s.kind \in SpawnedKinds => s.kind \in kinds
           /\ ~ Timed(F[s])
           /\ \A t \in b.items : t.name = s.name => t = F[s]
      /\ \A t \in b.items : t \in G \/ \E s \in a.items : t = F[s]
  <2>1. Arrived(a, b, kinds, F, G)
    BY <1>5, AtLast
  <2>2. QED
    BY <2>1 DEF Arrived
<1>7. ASSUME NEW s \in a.items PROVE Lowered(s) = F[s]
  <2>1. \E t \in macro.app.items : t.name = s.name
    BY <1>3, <1>6
  <2>2. /\ Lowered(s) \in macro.app.items /\ Lowered(s).name = s.name
    BY <2>1 DEF Lowered
  <2>3. QED
    BY <1>3, <1>6, <2>2
<1>8. /\ Spawned \subseteq a.items
      /\ \A s \in Spawned : s.kind \in kinds
  BY <1>3, <1>6 DEF Spawned, OfKind, SpawnedKinds
<1>9. \A g \in G : g \in b.items /\ g.kind \in {"task", "idle"}
  BY <1>5 DEF Trace
<1>10. SpawnedTasksAreServed
  <2>1. SUFFICES ASSUME NEW s \in Spawned
                 PROVE  LET t == Lowered(s)
                            servers == {d \in SubApp(macro.app, {"task", "idle"},
                                                     CoreOf(t)) : s.name \in d.body}
                        IN /\ CoreOf(t) < cores(macro.app)
                           /\ Cardinality(servers) = 1
                           /\ \A d \in servers :
                                IF d.kind = "idle"
                                THEN s.kind = "async_task" /\ priority(t) = 0
                                ELSE priority(d) = priority(t)
    BY DEF SpawnedTasksAreServed
  <2> DEFINE t == Lowered(s)
             servers == {d \in SubApp(macro.app, {"task", "idle"}, CoreOf(t)) :
                           s.name \in d.body}
  <2>2. s \in a.items /\ s.kind \in kinds /\ t = F[s]
    BY <1>7, <1>8, <2>1
  <2>3. PICK d \in G : /\ Server(s, F[s], d)
                       /\ \A e \in G : s.name \in e.body => e = d
    BY <1>4, <2>2 DEF Settled, ServedOK
  <2>4. CoreOf(F[s]) < cores(b)
    BY <1>4, <2>2 DEF Settled, ServedOK
  <2> HIDE DEF t
  <2>5. servers = {d}
    <3>1. d \in servers
      BY <1>3, <1>9, <2>2, <2>3 DEF Server, SubApp, OfKind
    <3>2. ASSUME NEW e \in servers PROVE e = d
      <4>1. e \in b.items /\ e.kind \in {"task", "idle"} /\ s.name \in e.body
        BY <1>3 DEF SubApp, OfKind
      <4>2. e \in G
        BY <1>6, <4>1
      <4>3. QED
        BY <2>3, <4>1, <4>2
    <3> HIDE DEF servers
    <3>3. QED
      BY <3>1, <3>2
  <2>6. Cardinality({d}) = 1
    BY FS_Singleton
  <2>7. IF d.kind = "idle" THEN s.kind = "async_task" /\ priority(t) = 0
        ELSE priority(d) = priority(t)
    BY <2>2, <2>3 DEF Server
  <2> HIDE DEF servers
  <2>8. /\ CoreOf(t) < cores(macro.app) /\ Cardinality(servers) = 1
        /\ \A e \in servers : IF e.kind = "idle"
                              THEN s.kind = "async_task" /\ priority(t) = 0
                              ELSE priority(e) = priority(t)
    BY <1>3, <2>2, <2>4, <2>5, <2>6, <2>7
  <2>9. QED
    BY <2>8 DEF servers, t
<1>11. ASSUME NEW c, NEW d \in DispatchersOn(c)
       PROVE  d \in G /\ d.kind = "task" /\ CoreOf(d) = c
  <2>1. d \in b.items /\ d.kind = "task" /\ CoreOf(d) = c /\ d.body # {}
    BY <1>3 DEF DispatchersOn, SubApp, OfKind
  <2>2. QED
    BY <1>6, <2>1
<1>12. OneSpawnerPerDispatcher
  <2>1. SUFFICES ASSUME NEW c, NEW d \in DispatchersOn(c),
                        NEW s \in Spawned, NEW u \in Spawned,
                        s.name \in d.body, u.name \in d.body
                 PROVE  Get(s.attr, "spawn_by", c) = Get(u.attr, "spawn_by", c)
    BY DEF OneSpawnerPerDispatcher
  <2>2. d \in G /\ d.kind = "task" /\ CoreOf(d) = c
    BY <1>11, <2>1
  <2>3. SpawnersOK(a, G)
    BY <1>4 DEF Settled
  <2>4. s \in a.items /\ u \in a.items
    BY <1>8
  <2>5. QED
    BY <2>1, <2>2, <2>3, <2>4 DEF SpawnersOK
<1>13. DispatchersInOrder
  <2>1. SUFFICES ASSUME NEW c, NEW d \in DispatchersOn(c), NEW e \in DispatchersOn(c),
                        priority(d) < priority(e)
                 PROVE  \E i, j \in DOMAIN Dispatchers(a, c) :
                          /\ i < j
                          /\ Dispatchers(a, c)[i] = binds(d)
                          /\ Dispatchers(a, c)[j] = binds(e)
    BY <1>3 DEF DispatchersInOrder
  <2>2. /\ d \in G /\ d.kind = "task" /\ CoreOf(d) = c
        /\ e \in G /\ e.kind = "task" /\ CoreOf(e) = c
    BY <1>11, <2>1
  <2>3. OrderOK(a, G)
    BY <1>4 DEF Settled
  <2>4. QED
    BY <2>1, <2>2, <2>3 DEF OrderOK
<1>14. ASSUME "AutoAssign" \in {passes[i] : i \in DOMAIN passes}
       PROVE  PlacedWithItsResources
  <2>1. DOMAIN passes = 1 .. macro.done
    BY <1>2, PassesAreSequences DEF passes
  <2>2. AllPlaced(a, F)
    BY <1>4, <1>14, <2>1 DEF PassesDone
  <2>3. SUFFICES ASSUME NEW s \in OfKind(macro.of.app, {"task", "sw_task", "idle"}),
                        "core" \notin DOMAIN s.attr,
                        NEW r \in shared(s), NEW f \in OfKind(macro.app, {"shared"}),
                        r \in f.body, CoreOf(f) < cores(macro.app)
                 PROVE  CoreOf(f) = CoreOf(Lowered(s))
    BY DEF PlacedWithItsResources
  <2>4. s \in a.items /\ s.kind \in MovedKinds /\ ~ Placed(s)
    BY <1>3, <2>3 DEF OfKind, MovedKinds, Placed
  <2>5. OnItsCore(a, b, F, s)
    BY <1>4, <2>2, <2>4 DEF AllPlaced, Settled, PlacedOK
  <2>6. f \in b.items /\ f.kind = "shared" /\ f \notin G
    BY <1>3, <1>9 DEF OfKind
  <2>7. PICK v \in a.items : f = F[v]
    BY <1>6, <2>6
  <2>8. v.kind = "shared" /\ r \in v.body
    <3>1. ImageOf(v, F[v], kinds)
      BY <1>5 DEF Trace
    <3>2. F[v].kind = IF v.kind \in kinds THEN "task" ELSE v.kind
      BY <3>1 DEF ImageOf
    <3>3. QED
      BY <1>6, <2>3, <2>6, <2>7, <3>2
  <2>9. CoreOf(F[v]) = CoreOf(F[s])
    BY <1>3, <2>3, <2>5, <2>7, <2>8 DEF OnItsCore
  <2>10. Lowered(s) = F[s]
    BY <1>7, <2>4
  <2>11. QED
    BY <2>7, <2>9, <2>10
<1>15. DeadlinesRanked
  <2>1. SUFFICES ASSUME NEW s \in macro.of.app.items, NEW u \in macro.of.app.items,
                        Timed(s), Timed(u)
                 PROVE  s.attr["deadline"] < u.attr["deadline"]
                          <=> priority(Lowered(s)) < priority(Lowered(u))
    BY DEF DeadlinesRanked, Timed
  <2>2. s \in a.items /\ u \in a.items
    BY <1>3
  <2>3. ~ Timed(F[s]) /\ ~ Timed(F[u])
    BY <1>6, <2>2
  <2>4. Lowered(s) = F[s] /\ Lowered(u) = F[u]
    BY <1>7, <2>2
  <2>5. RankedOK(a, F)
    BY <1>4 DEF Settled
  <2>6. QED
    BY <2>1, <2>2, <2>3, <2>4, <2>5 DEF RankedOK
<1>16. QED
  BY <1>10, <1>12, <1>13, <1>14, <1>15

LEMMA InitPlace == Init => PlaceInv
BY DEF Init, PipelineInit, PlaceInv

(* For every package and every list of passes that decides before it       *)
(* lowers: between two passes the application is settled, that is, what    *)
(* became of each item of the source and what the passes have added keep   *)
(* every promise made so far.                                              *)
THEOREM PlaceInvAlways == Spec => []PlaceInv
<1>1. IInv /\ FreshInv /\ RunInv /\ PlaceInv /\ [Next]_vars => PlaceInv'
  BY PlaceStep
<1>2. QED
  BY <1>1, InitPlace, IInvAlways, FreshInvAlways, RunInvAlways, PTL DEF Spec

(* For every package and every list of passes that decides before it       *)
(* lowers: in an application that has been accepted every spawned task     *)
(* has one server of its priority on its core, every dispatcher one core   *)
(* that spawns, the dispatchers their interrupts in order, every placed    *)
(* task its resources and every deadline its rank.                         *)
THEOREM PlacesAreKept == Spec => []EveryTaskHasItsPlace
<1>1. RunInv /\ PlaceInv => EveryTaskHasItsPlace
  BY PlaceInvPlaces
<1>2. QED
  BY <1>1, RunInvAlways, PlaceInvAlways, PTL
=============================================================================
