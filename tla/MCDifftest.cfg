SPECIFICATION DiffSpec
CONSTANTS
  MCK = 3
  Id <- MCId
  First = 0
  Succ <- MCSucc
  None = none
  Wrong = wrong
  IRINGBUF_LEN = 3
  MaxN = 2
INVARIANTS DiffTypeOK RingHoldsLast
PROPERTIES RefInStep VerdictIsRight FalseAlarmOnlyOnce CommandReturns
