SPECIFICATION FairSpec
CONSTANTS
  MaxQueueSize = 2
  FrameBound = 5
INVARIANT TypeOK
INVARIANT NewestInOrder
INVARIANT StoppedIsEmpty
PROPERTY ImplementsLossyQueue
PROPERTY StopReturns
PROPERTY WaitPopReturns
