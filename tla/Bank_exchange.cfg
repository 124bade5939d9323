\* Two requests of every shape over the statements of the store, one crawl.
SPECIFICATION BankSpec
CONSTANTS
  p1 = p1
  p2 = p2
  alice = alice
  bob = bob
  usd = usd
  eur = eur
  Posts <- TwoPosts
  Accounts <- ThreeAccounts
  Owner <- Owners
  Currency <- AccountCurrencies
  InitBalance <- Balances
  Currencies <- TwoCurrencies
  Rates = {1, 3}
  Bodies <- MixedBodies
  MaxBigint = 31
  Exact = 16
  MaxCrawls = 1
  NoBody = NoBody
  NoRate = NoRate
  MaxConns = 2
  NoCall = NoCall
SYMMETRY Symmetry
INVARIANTS TypeOK AnswerMatchesBooks PayerAsked FairExchange
PROPERTIES ImplementsCreateTransfer
\* All requests answered and no crawl to come is a legitimate end.
CHECK_DEADLOCK FALSE
