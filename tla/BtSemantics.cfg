SPECIFICATION FairSpec
CONSTANTS
  Calls <- BtCalls
  MaxStack = 8
  MaxTrail = 30
INVARIANTS TypeOK Accounts AttemptsSound AnswersExpected WithinCertificate
PROPERTIES Implements Termination
