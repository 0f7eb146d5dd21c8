\* Two of three trains at two platforms; the program is run twice and can be
\* interrupted, and the second run can meet a train that the first has left
\* behind, so that there are three trains for two platforms.  After an
\* interrupt at the wrong time a run hangs, and after the last run nothing
\* happens: deadlock is not checked.
CONSTANTS
  NUM_PLANES = 3
  NumForked = 2
  NUM_PLATFORMS = 2
  MaxRuns = 2
SPECIFICATION FairSpec
INVARIANTS
  PlatformsExact
  EndsAfterAllTrains
PROPERTY HealthyRunEnds
CHECK_DEADLOCK FALSE
