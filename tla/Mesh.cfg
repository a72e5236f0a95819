SPECIFICATION MCSpec
CONSTANTS
  TxSize = 2
  RxSize = 2
  MaxLoops = 2
  Security = TRUE
  MaxSend = 4
  MaxRx = 3
  Sizes = {0, 3, 4, 6, 9}
  MaxKeys = 2
  MaxAired = 3
INVARIANTS OneRequest SleepsIdle SecuredIsExact
PROPERTIES CallbacksInOrder DeliveredInOrder EachGetsThrough ImplementsRadio RadioAnswers
