\* Two threads, up to three blocks each; sizes of slab 0 and of slab 2, and
\* memory for five of the smaller blocks.
CONSTANTS
  t1 = t1
  t2 = t2
  Thread <- MCThreads
  N = 2
  Size = {1, 3}
  MEMBLOCK_SIZE = 15
  SLAB_MAX = 2
SPECIFICATION FairSpec
INVARIANTS
  SpaceExact
  ListedAreFree
PROPERTIES
  ImplementsHeap
  Termination
