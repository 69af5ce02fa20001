CONSTANTS
  w1 = w1  w2 = w2  p1 = p1  p2 = p2  main = main  k1 = k1  k2 = k2  k3 = k3  k4 = k4
  Workers = {w1, w2}
  Posters = {p1, p2}
  Main = main
  NoAgent = NoAgent
  Tasks = {k1, k2, k3, k4}
  NoTask = NoTask
  Child <- ChainOfTwo
  Waits <- FirstWaits
SPECIFICATION FairSpec
CHECK_DEADLOCK FALSE
INVARIANT PoolInv
INVARIANT EachTaskOnce
PROPERTY FuturesReady
PROPERTY DestructorEnds
