SPECIFICATION FairSpec
CONSTANTS
  Workers = 4
  Rows = 3
  Layers = 2
  KvLength = 13
  MaxChunks = 16
  MinChunkKeys = 4
  SecondWaveKeys = 6
  Prompts = {4, 7, 11}
  MaxCalls = 2
INVARIANTS
  ExchangeComplete
  RowsRestAtZero
  OneLength
  RowsWrittenOnce
  NewKeyOnce
  ReadsSettledKeys
PROPERTIES
  CallsEnd
