SPECIFICATION LFairSpec
CONSTANTS
  PageBytes = 2
  PageCount = 5
  NULL = NULL
  Memories <- MCMemories
  Kernels <- MCKernels
INVARIANTS
  KernelInPlace
  KernelReserved
  MapCurrent
  LoaderInv
PROPERTIES
  LoaderEnds
CHECK_DEADLOCK FALSE
