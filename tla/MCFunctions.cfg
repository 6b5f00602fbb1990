SPECIFICATION Spec
CHECK_DEADLOCK FALSE
CONSTANTS
  XLEN = 3
  Memory <- MCMemory
  RADIX = 4
  MSIZE = 4
  Data <- MCData
  UPTR = 128
  HeapStart = 16
  HeapEnd = 40
  CHAR_BITS = 3
  SHORT_BITS = 4
  INT_BITS = 5
  Vocabularies <- MCVocabularies
  Sizes = {0, 1, 7, 8, 9, 20, 60}
  Requests = 4
  Chars = {0, 1, 2}
  MemSize = 5
INVARIANTS
  ExprMeansGrammar LoadsReadWhatStoresWrote StringsAreRight
  MovesOldContents BlocksApart FieldReadsBack TruncatesToPrefix
