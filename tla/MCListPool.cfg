CONSTANTS
  Threads = {"t1", "t2"}
  Lists = {"a", "b"}
  Owner <- TwoThreads
  Values = {1, 2}
  PoolSize = 3
  ArraySize = 12
  SkipNum = 2
  MaxOps = 2
  MaxAdds <- OneAndTwo
  NoFile = NoFile
SPECIFICATION Spec
INVARIANT CountsRight
CHECK_DEADLOCK FALSE
