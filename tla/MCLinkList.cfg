CONSTANTS
  Threads = {"t1"}
  Lists = {"a", "b"}
  Owner <- OneThread
  Values = {1, 2, 3, 4}
  PoolSize = 4
  ArraySize = 5
  SkipNum = 2
  MaxOps = 3
  MaxAdds <- LongAndShort
  NoFile = NoFile
SPECIFICATION Spec
INVARIANTS TypeOK NodesAccounted CountsRight SkipsForward
PROPERTY ImplementsLists
CHECK_DEADLOCK FALSE
