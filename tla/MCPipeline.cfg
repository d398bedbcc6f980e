SPECIFICATION FairSpec
CONSTANTS
  k1 = k1
  k2 = k2
  k3 = k3
  p1 = p1
  p2 = p2
  Collector = Collector
  Scanner = Scanner
  None = None
  Packets <- MCPackets
  Parsers <- MCParsers
INVARIANTS OneOwner Conserved
PROPERTY ShutdownCompletes
