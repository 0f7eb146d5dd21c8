\* Three consumers, three ones and three zeroes.
CONSTANTS
  NumConsumers = 3
  Ones = 3
SPECIFICATION FairSpec
INVARIANTS
  PopFindsValue
PROPERTIES
  ImplementsWorkQueue
  DrainsOncePushed
