SPECIFICATION FairSpec
CONSTANTS
  MCK = 6
  Id <- MCId
  First = 0
  Succ <- MCSucc
  None = none
  Wrong = wrong
INVARIANTS FlowInv StoresOnlyWhenValid
PROPERTIES RetiresInOrder StoreIssuedOnce RedirectNotLost AlwaysRetiresAgain EveryDecodedRetires
