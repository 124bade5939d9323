\* Three calls, two connections, opposite directions: nobody waits for ever.
SPECIFICATION FairSpec
CONSTANTS
  t1 = t1
  t2 = t2
  t3 = t3
  Calls <- ThreeCalls
  Accounts <- ThreeAccounts
  Requests <- CrossRequests
  InitBalance <- ThreeBalances
  MaxBigint = 6
  MaxConns = 2
  NoCall = NoCall
  NoRequest = NoRequest
INVARIANT NoDeadlock
PROPERTIES EveryCallAnswered
\* All calls answered is a legitimate end.
CHECK_DEADLOCK FALSE
