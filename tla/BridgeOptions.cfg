SPECIFICATION BridgeSpec
CONSTANTS
  SlipMax = 24
  Packets <- NothingReceived
  Commands <- Questions
  Noise <- LineNoise
  MaxCommands = 4
  MaxFaults = 1
CHECK_DEADLOCK FALSE
INVARIANT OptionsAreCurrent
