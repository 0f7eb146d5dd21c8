\* exercise08/input.csv, four other long inputs and all inputs of three
\* processes, with the quanta and the ticket pool of the source.
CONSTANTS
  Workloads <- MCWorkloads
  MAX_TIMESTEPS = 40
  RoundRobinQuantum = 4
  LotteryQuantum = 3
  TicketPool = 30
SPECIFICATION Spec
INVARIANTS
  OnlyViableProvided
  BoundedWaiting
  OneWorking
  ServedWithoutGaps
  MatchesExampleOutput
PROPERTY PicksFirstBest
