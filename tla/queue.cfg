CONSTANTS
  p1 = p1  p2 = p2  c1 = c1  c2 = c2  main = main
  n1 = n1  n2 = n2  n3 = n3  n4 = n4
  Nodes = {n1, n2, n3, n4}
  NULL = NULL
  Back = Back
  Threads = {p1, p2, c1, main}
  Main = main
  Watched = {p1, p2, c1}
  Uses <- Sound
  SlotCount = 3
  SlotOf <- OneEach
  NoValue = NoValue
  SizeMod = 4
SPECIFICATION Spec
CHECK_DEADLOCK FALSE
INVARIANT MemorySafe
INVARIANT QueueShape
PROPERTY Linearizable
PROPERTY CallsDoNotBlock
PROPERTY DestructorEnds
