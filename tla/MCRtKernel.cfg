SPECIFICATION Spec
CONSTANTS
  t1 = t1
  t2 = t2
  t3 = t3
  Threads = {t1, t2, t3}
  Idle = idle
  InitPrio <- MCPrio
  WaitLists = {"recv", "send", m1, m2}
  Kinds = {"sem", "event", "mb", "mq", "mp", "mutex", "heap", "timer"}
  Flag = "PRIO"
  Permits = 1
  MaxPermits = 2
  Flags = {1, 2}
  Wants <- MCWants
  Msgs = {w1, w2}
  MbSize = 2
  Blocks = {b1, b2}
  Nil = nil
  Mutexes = {m1, m2}
  HoldMax = 2
  NoPrio = 255
  None = none
  NPages = 8
  ZonePages = 2
  Classes = {1, 2}
  NMax <- MCNMax
  ChunkSize <- MCChunkSize
  PageSize = 4
  LargeSizes = {2}
  ReleaseThresh = 1
  h1 = h1
  s1 = s1
  s2 = s2
  HardTimers = {h1}
  SoftTimers = {s1, s2}
  TimerSets <- MCTimerSets
  ThreadTimer = tt
  TickMod = 11
  FirstTick = 9
  LastTick = 3
  Times = {1, 2}
  MaxLag = 1
  IsrStarts = FALSE
  NoTimer = nt
SYMMETRY MCSymmetry
INVARIANTS
  ThreadsInPlace
  MessagesInOrder
  NothingGivenTwice
  NoLostWakeup
  MutualExclusion
  PriorityInherited
  HeapAccounted
  TimersOnTime
  SoftTimersServed
