SPECIFICATION Spec
CONSTANTS
  f1 = f1
  f2 = f2
  c1 = c1
  c2 = c2
  p1 = p1
  p2 = p2
  NoRecord = NoRecord
  Flows <- MCFlows
  Codes <- MCCodes
  Parsers <- MCParsers
  HashOf <- MCOneHash
  Traces <- MCTraces
  BucketSize = 1
  Lens = {1, 2}
  Secs = {1, 2, 3}
  FlowTimeout = 2
  FastTimeout = 1
  PoolSize = 2
  CutOff = 2
  MaxFileSize = 3
  Word = 64
  MaxFileNum = 2
SYMMETRY Symmetry
INVARIANTS TypeOK Exclusion CurrentFaithful IndexFaithful AscendingOffsets ChainsAccounted FlowStoredWhole IndexFilesAgree
