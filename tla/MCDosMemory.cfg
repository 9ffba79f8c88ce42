SPECIFICATION Spec
CONSTANTS
  UMB_START_SEG = 9
  UmbSize = 3
  Sizes = {1, 3}
  Strategies <- MCStrategies
  MaxPrograms = 3
INVARIANTS TypeOK HeldBlocksStand RefusedOnlyWhenFull ProcessMemoryReturned ExecNeverFatal
