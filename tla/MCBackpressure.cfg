SPECIFICATION FairSpec
CONSTANTS
  f1 = f1
  f2 = f2
  p1 = p1
  p2 = p2
  Flows <- MCFlows
  Parsers <- MCParsers
  BucketOf <- MCBucketOf
  NumBuckets = 2
  PoolSize = 3
  UpBounder = 2
  FlowTimeout = 2
  FastTimeout = 1
  MaxSec = 3
PROPERTIES NoEarlyExport ExhaustedRecovers OldFlowExported
