\* The semaphore of task2_b, four runs of each program: enough for the runs
\* that lower the semaphore to 0 and for one that meets it there.  After the
\* last run nothing happens, and a run can hang: deadlock is not checked.
CONSTANTS
  Rounds = {0, 1, 2}
  Value = 2
  MaxRuns = 4
SPECIFICATION SumFairSpec
INVARIANT SemaphoreExact
PROPERTY HealthyRunEnds
CHECK_DEADLOCK FALSE
