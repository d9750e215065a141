SPECIFICATION Spec
CONSTANTS
  Codes = {c0, c1}
  Typable = {c0, c1}
  SaveSteps = "default"
  ExecutionMode = "step_diff"
  WithModels = FALSE
  Original = c0
  CheckValidity = TRUE
  Recompute = TRUE
  OnlyBigSteps = {TRUE, FALSE}
  Features = {"big", "small", "transfo", "group", "iter", "resolve", "reparse", "preserve", "show", "ensure", "onfailure", "expected"}
  MaxDepth = 4
  MaxFrames = 2
  MaxId = 5
  MaxVer = 3
INVARIANTS
  NestingOK ValidGrounded ExitAtScriptLevel
PROPERTIES
  OnFailureRestores InterruptedClosed
