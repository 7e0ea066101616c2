SPECIFICATION HandoffSpec
CONSTANTS
  PAGE_SIZE = 2
  Maps <- BootMaps
  KernelRanges <- Kernels
  Sizes = {0, 1, 3}
  Aligns = {0, 1, 2, 4}
INVARIANT KernelMapped
CHECK_DEADLOCK FALSE
