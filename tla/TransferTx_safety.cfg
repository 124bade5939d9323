\* Every kind of request, two calls at once.
SPECIFICATION FairSpec
CONSTANTS
  t1 = t1
  t2 = t2
  t3 = t3
  Calls <- TwoCalls
  Accounts <- TwoAccounts
  Requests <- MixedRequests
  InitBalance <- TwoBalances
  MaxBigint = 6
  MaxConns = 2
  NoCall = NoCall
  NoRequest = NoRequest
INVARIANTS TypeOK BooksBalance ReplyMatchesEffect
PROPERTIES OverdraftOnlyOnStaleRead ImplementsLedger
\* All calls answered is a legitimate end.
CHECK_DEADLOCK FALSE
