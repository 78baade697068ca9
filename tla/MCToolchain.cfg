SPECIFICATION Spec
CONSTANTS
  max_priority = 2
  HasCoreId = TRUE
  NON_CONFIGURABLE_EXCEPTIONS = {"NonMaskableInt", "HardFault"}
  CONFIGURABLE_EXCEPTIONS = {"SysTick"}
  U32_MAX = 1000
  NoImage = NoImage
  NoSource = NoSource
  Targets <- MCTargets
  Examples = {"app_two"}
  None = None
  Packages <- MCPackages
  Workbench <- MCWorkbench
  Edits <- MCEdits
  StartsWith <- MCStartsWith
  MaxCalls = 3
  MaxEdits = 1
  MaxInterrupts = 2
CHECK_DEADLOCK FALSE
INVARIANT EveryTaskHasItsPlace
INVARIANT InitialisedBeforeUse
INVARIANT SnapshotsTellTheRun
PROPERTY SourceSurvives
PROPERTY FreshMerge
