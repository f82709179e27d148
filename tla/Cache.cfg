\* Every number of shards, lists of options; Len among Puts and a Close.
\* A New that has failed and a closed cache stop.
CONSTANTS
  Caps <- SomeCaps
  Ttls <- SomeTtls
  ShardCounts <- AllShardCounts
  OptionLists <- SomeOptionLists
  Millisecond = 4
  Keys <- MCKeys
  Hash <- MCHash
  Callers = {c1}
  MayClose = TRUE
  None = None
SPECIFICATION Spec
INVARIANTS
  TypeOK
  
  OptionsHonoured
  
  
PROPERTIES
  LenIsBetween
CHECK_DEADLOCK FALSE
