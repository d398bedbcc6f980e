CONSTANTS
  NoList = NoList
  NoFile = NoFile
  Kinds = {"trie", "btree"}
  WordBits = 3
  TriePerNode = 4
  Depth = 3
  MaxPerNode = 4
  Keys <- MCKeys
  Bounds <- MCBounds
  MaxAdds <- MCMaxAdds
  MaxAgain = 3
  MaxPerKey <- MCMaxPerKey
SPECIFICATION Spec
INVARIANTS TypeOK NodesCounted HoldsMap EntriesKept TrieQueryExact BTreeQuerySound ReloadedSame
