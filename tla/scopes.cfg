SPECIFICATION FairSpec
CONSTANTS
  Codes = {c0, bad}
  Typable = {c0}
  SaveSteps = "default"
  ExecutionMode = "full_trace"
  WithModels = FALSE
  Original = c0
  CheckValidity = TRUE
  Recompute = TRUE
  OnlyBigSteps = {FALSE}
  Features = {"transfo", "restore", "backtrack", "expected", "onfailure", "trustme", "unchecked", "notyping"}
  MaxDepth = 5
  MaxFrames = 4
  MaxId = 4
  MaxVer = 2
INVARIANTS
  TypeOK IdsContiguous TypedSound FlagsScoped HandlesMatch BacktrackNeutral
PROPERTIES
  ImplementsUndo HandlersEnd
