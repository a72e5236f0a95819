SPECIFICATION MCSpec
CONSTANTS
  s1 = s1
  s2 = s2
  s3 = s3
  Sources = {s1, s2, s3}
  TableSize = 2
  SeqSpace = 7
  Window = 2
  Ttl = 2
  MaxAge = 1
  PerPeriod = 2
  MaxFrames <- FewFrames
  p1 = p1
  Packets = {p1, p2, p3}
  Size = 4
  t1 = t1
  t2 = t2
  t3 = t3
  SysTimers = {t1, t2, t3}
  Interval <- Intervals
  Periodic = {t2}
  CountRange = 4
  MaxMillis = 7
  MaxStarts = 5
  MaxTimers = 2
  Delays = {1, 2}
  Runs = {0, 1, 2}
  ClockRange = 3
  MaxClock = 4
  MaxChanges = 3
  pin1 = pin1
  pin2 = pin2
  Serials = {pin1, pin2}
  RingSize = 3
  DataBits = 1
  MaxBytes = 3
  MaxLevel = 15
  TabSize = 2
  Documents <- Printed
  Damages <- Characters
  BufferSizes = {4, 99}
  Capacities = {3, 9}
  NestingLimits = {1, 3}
CHECK_DEADLOCK FALSE
INVARIANTS TellsCopies TimersAreExact ReadsAreExact ReadsWhatWasPrinted
PROPERTIES ImplementsFifo KeepsTime
SYMMETRY OthersAlike
