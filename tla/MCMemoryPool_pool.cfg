\* Pools: requests of two sizes and alignments, in two blocks that touch.  Where
\* padding made regions overlap, entries stay behind and may fill the map.
\* Host and device: two clients, three addresses, one tick of the clock.
SPECIFICATION MemorySpec
CONSTANTS
  Word = 1000
  InitialSize = 6
  Sizes = {1, 2, 3}
  ElemSizes = {1, 4}
  Bases = {0, 6}
  Gpu = FALSE
  MaxBlocks = 2
  MaxEntries = 3
  Threads = {t1, t2}
  Global = g
  Mats = {m1, m2}
  HostBlocks = {1, 2, 3}
  HostSizes = {1, 2}
  Threshold = 2
  Delay = 0
  HostInitial = 4
  HostWord = 16
  MaxTime = 1
  MaxBytes = 1
  GpuMats = {m1, m2}
  GpuBlocks = {1, 2, 3}
  Shapes <- ThreeShapes
  ByteSizes = {4}
  Alignment = 2
  Pitch = 4
  Small = 4
  GpuInitial = 8
  GpuDelay = 0
  MaxGpuTime = 1
  MaxFree = 2
SYMMETRY Symmetry
INVARIANTS TypeOK NoOverlap NothingLeaks FitsBest HostSound DeviceSound
CHECK_DEADLOCK FALSE
