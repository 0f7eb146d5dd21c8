\* exercise09: what the client may write and where the next header is.
CONSTANTS
  t1 = t1
  t2 = t2
  Thread <- MCThreads
  PoolSize = 18
  Word <- MCWord
  Size = {4}
  Arguments <- MCOverlap
SPECIFICATION Spec
INVARIANT SegmentHasItsSize
