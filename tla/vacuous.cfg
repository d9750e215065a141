SPECIFICATION Spec
CONSTANTS
  Codes = {c0, c1}
  Typable = {c0, c1}
  SaveSteps = "default"
  ExecutionMode = "full_trace"
  WithModels = FALSE
  Original = c0
  CheckValidity = TRUE
  Recompute = TRUE
  OnlyBigSteps = {FALSE}
  Features = {"small", "transfo", "notyping"}
  MaxDepth = 5
  MaxFrames = 3
  MaxId = 8
  MaxVer = 4
INVARIANTS
  ValidGrounded
