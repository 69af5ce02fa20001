CONSTANTS
  t1 = t1  t2 = t2  t3 = t3  s1 = s1  n1 = n1
  Threads = {t1, t2, t3}
  NoThread = NoThread
  Sanitizers = {s1}
  Functions = {"Store", "Deaccess", "Reset"}
  Uses <- MainUsesAll
  ThreadMax = 3
  Nodes = {n1}
  NullNode = NullNode
  NoSlot = NoSlot
SPECIFICATION Spec
SYMMETRY OtherThreads
INVARIANT RegistersAgree
INVARIANT IInv
PROPERTY NoSlotStolen
