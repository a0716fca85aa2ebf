SPECIFICATION BootSpec
CHECK_DEADLOCK FALSE
CONSTANTS
  Reports <- MCReports
  MaxReports = 3
  Limit = 3
  PhyMax = 9
  PageSize = 2
  Low = 2
  FourG = 8
  Reach = 8
  KernelSize = 2
  Core = {"c1", "c2", "c3"}
  Boot = "c0"
  Supported <- MCSupported
  KernelBits = {"avx512", "pkru"}
  BaseSize <- MCBaseSize
  CoresNums = {1, 3, 4}
  Radix = 2
  Wei = 2
  Texts = {}
  Wanted = {1, 3}
INVARIANTS
  KernelOnRam
