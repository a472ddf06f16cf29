SPECIFICATION Spec
CONSTANTS
  Parts = {"space"}
  Nodes = {1, 2, 3, 4, 5, 6, 7, 8, 9}
  NoNode = 0
  Wrap = 24
  Areas = {1, 2, 3}
  SpaceStart = 1
  SpaceSize = 9
  SectionPages = 3
  PhyStart = 100
  Callers = {1}
  Sizes = {2, 4}
  Prefers = {5}
  Aligns = {1, 2}
  Taken = {3}
  RT_PAGE_MAX_ORDER = 3
  RegionStart = 1
  RegionEnd = 6
  InstallStart = 8
  ShadowEnd = 12
  MaxShared = 1
  RT_ALIGN_SIZE = 8
  MemItemSize = 12
  MIN_SIZE = 12
  MemSize = 96
  MemRequests = {5, 20, 32, 150}
  HeapAlign = 8
  RT_MEMHEAP_SIZE = 24
  PoolSize = 208
  HeapRequests = {5, 20, 60}
  HeapCallers = {1, 2}
INVARIANT
  AreasApart
