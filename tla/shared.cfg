CONSTANTS
  main = main  t1 = t1  w1 = w1  o1 = o1  o2 = o2
  Threads = {main, t1, w1}
  Workers = {w1}
  Main = main
  Pools = {o1, o2}
  Nil = Nil
  Instance = Instance
  NoThread = NoThread
  Spare = {t1}
SPECIFICATION Spec
CHECK_DEADLOCK FALSE
INVARIANT CountsOwners
INVARIANT TouchesLive
INVARIANT OnePool
