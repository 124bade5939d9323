\* Three requests of any kind, by anybody who has been given a token.
SPECIFICATION Spec
CONSTANTS
  r1 = r1
  r2 = r2
  r3 = r3
  ann = ann
  Bob = Bob
  cy = cy
  annMail = annMail
  bobMail = bobMail
  newMail = newMail
  old = old
  new = new
  usd = usd
  cad = cad
  xxx = xxx
  Requests <- ThreeRequests
  Words <- ThreeWords
  Alphanum <- ThreeWords
  Lowercase <- TwoWords
  Emails <- ThreeEmails
  Passwords <- TwoPasswords
  Roles <- TwoRoles
  Currencies <- ThreeCurrencies
  Supported <- TwoCurrencies
  Bodies <- AllBodies
  InitUsers <- AnnAndBob
  InitAccounts <- AnnsAccount
  PageSize = 2
  Half = 4
  Decrees <- Demotion
  Duration = 0
  MaxTime = 1
  NoRow = NoRow
  NoValue = NoValue
  NoToken = NoToken
  NoBody = NoBody
SYMMETRY Symmetry
INVARIANTS TypeOK ProvidersApart TokenSawRow AnswersMatchRows ShowsOwnAccounts
PROPERTIES ChangedByRight StampBackOnlyTogether
\* All requests ended is a legitimate end.
CHECK_DEADLOCK FALSE
