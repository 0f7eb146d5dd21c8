\* Three threads: one that is cancelled, one that is joined, and one that
\* is still on its way.  The parent and its child have no parameters.
CONSTANT NumThreads = 3
SPECIFICATION InterruptSpec
INVARIANTS
  SparedKeepFile
  CancelledDeleteFile
  BlockedUntilAlarm
PROPERTIES
  Termination
  EndsUnlessOvertaken
