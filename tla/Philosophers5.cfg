\* The table of the source, every philosopher eats twice.
CONSTANTS
  NUM_PHILOSOPHER = 5
  EAT_ITERATIONS = 2
SPECIFICATION FairSpec
INVARIANTS
  NeighboursDontEatTogether
  NoCircularWait
  DestroyedWhenDone
PROPERTY Termination
