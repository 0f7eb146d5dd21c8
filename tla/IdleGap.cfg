\* The inputs of the run schedulers; in some of them everybody who has come
\* is served before the last process arrives.
CONSTANTS
  Workloads <- MCWorkloads
  MAX_TIMESTEPS = 40
  RoundRobinQuantum = 4
  LotteryQuantum = 3
  TicketPool = 30
SPECIFICATION Spec
INVARIANT EverybodyIsServed
