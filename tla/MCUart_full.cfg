SPECIFICATION Spec
CONSTANTS
  FIFO_DEPTH = 4
  BPS_CNT = 10
  DataBits = 2
  Byte <- MCByte
  None = none
INVARIANT FullFlagMeansFull
