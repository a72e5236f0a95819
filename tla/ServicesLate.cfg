SPECIFICATION Spec
CONSTANTS
  Timeout = 2
  Wrap = 6
  MaxDepth = 2
  Callbacks = {TRUE}
  MaxRequests = 2
  Setups <- Sketches
  Asks <- Names
  VarMax = 1
  FuncMax = 1
  ServiceMax = 1
CHECK_DEADLOCK FALSE
INVARIANT OwnResponse
