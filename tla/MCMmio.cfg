SPECIFICATION MmioSpec
CONSTANTS
  MCK = 3
  Id <- MCId
  First = 0
  Succ <- MCSucc
  None = none
  Wrong = wrong
  MAX_WAVE_SIZE = 12
  ResetTime = 4
INVARIANT MmioTypeOK
PROPERTIES StoreReachesDevice NoByteTwice
