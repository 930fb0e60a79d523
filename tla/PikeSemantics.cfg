SPECIFICATION FairSpec
CONSTANTS
  Calls <- MatchCalls
  MaxCode = 17
  MaxOvec = 6
INVARIANTS PoolExact RefusalExact WithinPikePrice AnswersExpected
PROPERTIES CopyOnWrite Termination
