SPECIFICATION LiveSpec
CONSTANTS
  Me = me
  n1 = n1
  n2 = n2
  Nodes = {n1}
  NonRouting = {}
  Bcast = bcast
  NBuffers = 2
  Reqs = {r1, r2}
  ReqOptions <- TxOptions
  RxHeaders <- TxHeaders
  TracStatuses = {"SUCCESS"}
  SeqSpace = 2
  AckTicks = 2
  MaxJitter = 1
  MaxBlocks = 1
  MaxSubmit = 2
  MaxRx = 1
PROPERTIES FallsSilent ServiceSpec
