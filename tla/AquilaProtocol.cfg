SPECIFICATION FairSpec
CONSTANTS
  c1 = c1
  c2 = c2
  Blank = Blank
  NSectors = 2
  SectorBits = 2
  MaxEntries = 4
  PersistSize = 1024
  Conds = {c1, c2}
  Acts = {0, 1}
  Asks <- EveryAsk
  Subs <- TwoSubs
  MaxOnSubs = 1
  MaxActions = 2
  Tables <- TwoEntries
  Setups <- Sparse
  TxSize = 2
  MaxDepth = 3
  MaxPackets = 3
  MaxEmits = 1
  MaxResets = 1
CHECK_DEADLOCK FALSE
INVARIANT EventsRunEntries
PROPERTIES ImplementsList AlwaysAnswered
