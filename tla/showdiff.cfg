SPECIFICATION Spec
CONSTANTS
  Codes = {c0}
  Typable = {c0}
  SaveSteps = "default"
  ExecutionMode = "step_diff"
  WithModels = FALSE
  Original = c0
  CheckValidity = FALSE
  Recompute = FALSE
  OnlyBigSteps = {FALSE}
  Features = {"small", "show"}
  MaxDepth = 5
  MaxFrames = 3
  MaxId = 8
  MaxVer = 4
INVARIANTS
  ShowExtractable
