SPECIFICATION Spec
CONSTANTS
  Codes = {c0}
  Typable = {c0}
  SaveSteps = "default"
  ExecutionMode = "full_trace"
  WithModels = FALSE
  Original = c0
  CheckValidity = TRUE
  Recompute = FALSE
  OnlyBigSteps = {FALSE}
  Features = {"transfo", "expected", "unchecked"}
  MaxDepth = 4
  MaxFrames = 4
  MaxId = 4
  MaxVer = 1
PROPERTIES
  InterruptedClosed
