SPECIFICATION FairSpec
CONSTANTS
  MaxShims = 2
  MaxAsks = 4
INVARIANTS StreamInStep AnswerIsMine NothingLeftRunning KillStands
PROPERTIES EveryCallReturns
