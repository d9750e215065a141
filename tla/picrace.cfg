CONSTANTS
  ncx = 2
  ncy = 8
  ncz = 2
  OMP_TILE_SIZE = 2
  nbThreads = 2
  nbSteps = 2
  nbParticles = 2
  InitialCells <- MCInitialCells
  Displacements <- MCDisplacements
SPECIFICATION OptSpec
INVARIANT
  SerialPushExclusive
CHECK_DEADLOCK FALSE
