SPECIFICATION MCSpec
CONSTANTS
  Me = me
  n1 = n1
  n2 = n2
  Nodes = {n1, n2}
  NonRouting = {}
  Bcast = bcast
  NBuffers = 2
  Reqs = {r1, r2}
  ReqOptions <- EveryOption
  RxHeaders <- EveryHeader
  TracStatuses = {"SUCCESS", "NO_ACK", "CHANNEL_ACCESS_FAILURE"}
  SeqSpace = 3
  AckTicks = 2
  MaxJitter = 1
  MaxBlocks = 1
  MaxSubmit = 3
  MaxRx = 2
INVARIANTS LockAccounting OneTransmission FramesAreOwned SecurityAccounting WaitersHaveTimer SuccessIsAcked
SYMMETRY SymmetricReqs
