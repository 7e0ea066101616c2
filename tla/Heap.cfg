SPECIFICATION Spec
CONSTANTS
  HEAP_SIZE = 112
  WORD = 120
  MallocSizes = {0, 1, 20, 119}
  ReallocSizes = {1, 24, 44}
INVARIANTS Tiling FullyCoalesced ClientsServed
PROPERTY ImplementsAllocator
