CONSTANTS
  Capacity = 5
  MaxSize = 4
  MaxBytes = 13
SPECIFICATION FairSpec
INVARIANT ChunkIntact
INVARIANT IInv
PROPERTY AllocationEnds
PROPERTY AllConsumed
PROPERTY ImplementsFifo
