CONSTANTS
  c1 = c1  c2 = c2
  Clients = {c1, c2}
  Kinds = {"missing", "post", "denied", "no_path", "directory", "small", "large", "empty"}
  Size <- Files
  PipeCap = 2
  MaxFd = 8
  TakenFds = {0, 2, 3, 7}
SPECIFICATION FairSpec
CHECK_DEADLOCK FALSE
INVARIANT LoopInv
INVARIANT DescriptorsOwned
INVARIANT AnswersComplete
PROPERTY Served
