SPECIFICATION Spec
CONSTANTS
  Codes = {c0, bad}
  Typable = {c0}
  SaveSteps = "default"
  ExecutionMode = "exec"
  WithModels = FALSE
  Original = c0
  CheckValidity = FALSE
  Recompute = TRUE
  OnlyBigSteps = {FALSE}
  Features = {"small", "transfo", "onfailure"}
  MaxDepth = 5
  MaxFrames = 3
  MaxId = 8
  MaxVer = 4
PROPERTIES
  OnFailureRestores
