\* The two allocators: a pool shared by two threads, which is too small for
\* all their blocks, and a pool of the thread's own.
CONSTANTS
  t1 = t1
  t2 = t2
  Thread <- MCThreads
  PoolSize = 18
  Word <- MCWord
  Size <- MCSizes
  Arguments <- MCArguments
SPECIFICATION FairSpec
INVARIANTS
  ListTilesPool
  BusyExact
  BestFitFound
  NoFreeNeighbours
PROPERTIES
  ImplementsHeap
  Termination
