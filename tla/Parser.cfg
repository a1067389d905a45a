CONSTANTS
  Configs <- MCConfigs
  Messages <- MCMessages
  Values <- MCValues
  SortedKeys <- MCSortedKeys
  KeyNumbers <- MCKeyNumbers
  MaxInt64 = 20
  MaxBatch = 2
SPECIFICATION Spec
INVARIANT RowsAligned
INVARIANT TimeAxis
INVARIANT NothingLostSilently
INVARIANT PartialIsClean
INVARIANT HistoryFree
INVARIANT WrittenExactly
