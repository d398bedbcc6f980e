CONSTANTS
  NoList = NoList
  NoFile = NoFile
  Kinds = {"btree"}
  WordBits = 3
  TriePerNode = 4
  Depth = 3
  MaxPerNode = 2
  Keys <- MCKeys
  Bounds <- MCBounds
  MaxAdds <- MCMaxAdds
  MaxAgain = 3
  MaxPerKey <- MCMaxPerKey
SPECIFICATION Spec
INVARIANT BTreeQueryExact
