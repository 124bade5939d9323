\* Two servers, a task with one retry, two things that go wrong.
SPECIFICATION FairSpec
CONSTANTS
  s1 = s1
  s2 = s2
  t1 = t1
  Servers <- TwoServers
  Tasks <- OneTask
  MaxRetry = 1
  LastVersion = 2
  CurrenciesVersion = 1
  MaxTrouble = 2
  NoServer = NoServer
INVARIANTS TypeOK WholeSchema OneRunPerTry
PROPERTIES ExitsClean ImplementsTaskQueue EndsWhenDone  RatesReturn
