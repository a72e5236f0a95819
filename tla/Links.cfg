SPECIFICATION MCSpec
CONSTANTS
  s = s
  a = a
  b = b
  d = d
  Nodes = {s, a, b, d}
  Unknown = Unknown
  Absent = Absent
  Group = Group
  NonRouting = {}
  Members = {d}
  Source = s
  Best = 7
  RouteTableSize = 2
  DefaultScore = 2
  DefaultRank = 2
  MaxRank = 3
  GroupsAmount = 2
  DiscoveryTableSize = 2
  DiscoveryTicks = 2
  Setups <- SetupChoices
  MaxFrames = 2
  MaxLearned = 3
  BufferLength = 2
  Roles <- RoleChoices
  WSize = 3
  Peer = "peer"
  Stranger = "stranger"
  MaxWritten = 4
  MaxHeard = 3
  MillisRange = 4
  LoopGap = 2
  SlipMax = 24
  Packets <- MeshPackets
  Commands <- PcCommands
  Noise <- LineNoise
  MaxCommands = 3
  MaxFaults = 1
CHECK_DEADLOCK FALSE
INVARIANTS TableIsSound NoPairLoop TransfersAreExact BytesAreExact CarriesOutSent AnsweredAgain
PROPERTIES WaitersServed EveryCallReturns WritesAreSent
