\* Three consumers, four ones and three zeroes: consumers wait and race main.
CONSTANTS
  NumConsumers <- MCNumConsumers
  Ones <- MCOnes
SPECIFICATION FairSpec
INVARIANTS
  PopFindsValue
  OneZeroEach
  NoLostWakeup
PROPERTY ImplementsWorkQueue
