SPECIFICATION FairSpec
CONSTANTS
  f1 = f1
  f2 = f2
  c1 = c1
  c2 = c2
  p1 = p1
  p2 = p2
  NoRecord = NoRecord
  Flows <- MCFlows
  Codes <- MCCodes
  Parsers <- MCParsers
  HashOf <- MCTwoHash
  Traces <- MCShort
  BucketSize = 2
  Lens = {1, 2}
  Secs = {1, 2, 3}
  FlowTimeout = 2
  FastTimeout = 1
  PoolSize = 1
  CutOff = 2
  MaxFileSize = 3
  Word = 64
  MaxFileNum = 2
PROPERTIES ExitCompletes BatchTaken ImplementsHandoff
