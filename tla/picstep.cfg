CONSTANTS
  ncx = 4
  ncy = 1
  ncz = 1
  OMP_TILE_SIZE = 1
  NbThreads = 2
  CHUNK_SIZE = 2
  nbParticles = 3
  MaxChunks = 20
  InitialCells <- MCInitialCells
  Displacements <- MCDisplacements
  Configurations <- MCConfigurations
SPECIFICATION Spec
INVARIANTS
  TypeOK
  ChunkOwnedOnce
  ParticlesKept
  SerialPushExclusive
  SizesSettled
  SparesSuffice
PROPERTIES
  FreeChunksUntouched
  ImplementsDemo
  RunEnds
CHECK_DEADLOCK FALSE
