SPECIFICATION FairSpec
CONSTANTS
  MaxMsgs = 3
  Size <- MCSize
  ChanSizes = {0, 1, 2}
  BufSize = 2
INVARIANTS Fifo NoLossWithoutFailure
PROPERTIES ImplementsLogStream Terminates EventuallyDelivered
CHECK_DEADLOCK FALSE
