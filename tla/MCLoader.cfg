SPECIFICATION LoaderSpec
CONSTANTS
  PAGE_SIZE = 2
  Maps <- BootMaps
  KernelRanges <- Kernels
  Sizes = {0, 1, 3}
  Aligns = {0, 1, 2, 4}
INVARIANTS   VolumesExact  MenuTrue HandoffExact GrantsSafe
CHECK_DEADLOCK FALSE
