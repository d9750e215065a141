CONSTANTS
  Contracts <- MCContracts
  ForgetInit <- MCForgetInit
  Views <- MCViews
  Owned = {"x", "y"}
  Programs <- MCPrograms
  MaxSteps = 1
  IterCalls <- MCIterCalls
  ncx = 8
  ncy = 4
  ncz = 4
  OMP_TILE_SIZE = 2
  nbThreads = 2
  nbSteps = 2
  nbParticles = 3
  InitialCells <- MCInitialCells
  Displacements <- MCDisplacements
  gridX = 2
  gridY = 1
  gridZ = 1
  ChunkSize = 2
  NbParticles = 4
  NbSteps = 2
  Moves <- MCMoves
  HeapSize = 12
  Meshes <- MCMeshes
  Tilings <- MCTilings
  Calls <- MCCalls
  StridedCalls <- MCStridedCalls
  TILE = 3
  Images <- MCImages
  Variants = {"exp", "cbuf3", "regrot"}
  GhostCalls <- MCGhostCalls
  KernelCalls <- MCKernelCalls
SPECIFICATION Spec
INVARIANTS
  TypingKept
  ResultsKept
  EachTargetOnce
  MarksKeepPlace
  ChunksPartitioned
  ReportComplete
  DensityRight
  FieldsAgree
  PrivateBagsExclusive
  SpareIdsOrdered
  RowSumRight
  AccessesInRange
  StridedRight
  HarrisRight
  GhostsSound
  KernelsRight
PROPERTIES
  ImplementsDemo
  ChunksImplementBags
CHECK_DEADLOCK FALSE
