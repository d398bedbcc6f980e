SPECIFICATION Spec
CONSTANTS
  f1 = f1
  f2 = f2
  f3 = f3
  Records <- MCRecords
  CutOff = 3
  MaxNodes = 4
  MaxPackets = 5
INVARIANTS TypeOK TailIsLast NodesOnOneChain
PROPERTY ImplementsLists
