SPECIFICATION MCSpec
CONSTANTS
  s = s
  a = a
  b = b
  c = c
  d = d
  Stations = {s, a, b, c, d}
  Origin = s
  Everyone = Everyone
  Floods <- FloodChoices
  MaxMulticasts = 2
  MaxLost = 2
  n1 = n1
  n2 = n2
  n3 = n3
  Nodes = {n1, n2, n3}
  AddrSpace = 9
  FirstAuto = 3
  Crc <- SameCrc
  IdByte <- IdBytes
  Reliable = TRUE
  Alone = TRUE
  Forgotten = TRUE
  TxSize = 1
  MaxAsks = 2
  MaxPings = 4
CHECK_DEADLOCK FALSE
INVARIANTS Unique MulticastIsExact
PROPERTY AllAssigned
