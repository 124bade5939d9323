\* Expected to be violated: InsufficientIsTruthful.
SPECIFICATION Spec
CONSTANTS
  t1 = t1
  t2 = t2
  t3 = t3
  Calls <- TwoCalls
  Accounts <- TwoAccounts
  Requests <- MixedRequests
  InitBalance <- TwoBalances
  MaxBigint = 6
  MaxConns = 2
  NoCall = NoCall
  NoRequest = NoRequest
PROPERTY InsufficientIsTruthful
\* All calls answered is a legitimate end.
CHECK_DEADLOCK FALSE
