--------------------------- MODULE CreateTransfer ---------------------------
(***************************************************************************)
(* The handler createTransfer (api/transfer.go) with its helpers           *)
(* validAccount and currencyExchange, several requests at once, while the  *)
(* crawler (crawl/crawl.py) replaces the exchange rates.                   *)
(*                                                                         *)
(* Two components are composed here.  The handler calls the money store    *)
(* through the specification it implements, Ledger: TransferTxProofs shows *)
(* that a call of TransferTx is one such step.  The crawler and the        *)
(* handler share table currencies: the crawler empties it and fills it in  *)
(* two transactions, the handler reads two rates in two queries.           *)
(*                                                                         *)
(* Each query of the handler is a step.  Owners and currencies of accounts *)
(* never change once an account is there, and no route deletes one.        *)
(***************************************************************************)
EXTENDS Integers

CONSTANTS
  Posts,        \* requests of POST /api/auth/transfers, past the middlewares
  Accounts,     \* ids of the rows of table accounts
  Owner,        \* accounts.owner
  Currency,     \* accounts.currency
  InitBalance,  \* accounts.balance at the start
  Currencies,   \* the currencies of accounts, and of crawl/currency.txt
  Rates,        \* rates the bank's page may show, in a unit that makes them whole
  Bodies,       \* what a request may ask for, and who asks
  MaxBigint,    \* largest int64
  Exact,        \* float64 is exact for naturals up to this one, 2^53
  MaxCrawls,    \* bound on the crawls, for TLC
  NoBody,       \* a request not made yet
  NoRate        \* no row in table currencies

ASSUME AccountsAssumption == Accounts \subseteq Nat
ASSUME CurrencyAssumption == Currency \in [Accounts -> Currencies]
\* The pages of the bank show no rate of 0 for these currencies.
ASSUME RatesAssumption == Rates \subseteq Nat \ {0} /\ NoRate \notin Rates
ASSUME MaxAssumption == MaxBigint \in Nat /\ MaxCrawls \in Nat
ASSUME ExactAssumption == Exact \in Nat \ {0}
\* The binding of transferRequest: ids and amounts are positive int64s.
ASSUME BodiesAssumption ==
  /\ \A b \in Bodies :
       /\ {b.from, b.to} \subseteq Nat \ {0}
       /\ b.amount \in 1 .. MaxBigint
       /\ b.currency \in Currencies
  /\ NoBody \notin Bodies
ASSUME InitBalanceAssumption == InitBalance \in [Accounts -> Int]

VARIABLES
  balance, posted, transfers, arg, reply,  \* the money store, see Ledger
  rate,     \* table currencies: the rate of every currency, or NoRate
  page,     \* the rates the running crawl has parsed
  crawler,  \* the next step of the crawler
  crawls,   \* how many crawls have emptied the table
  body,     \* what every request asks for
  step,     \* how far every request has come
  read,     \* fromExchangeRate and toExchangeRate of every request
  status,   \* the HTTP status of the answer, 0 before there is one
  during    \* history: the crawls that filled the table each rate was read from

store == <<balance, posted, transfers, arg, reply>>
currencies == <<rate, page, crawler, crawls>>
handler == <<body, step, read, status, during>>
vars == <<store, currencies, handler>>

Bigint == -MaxBigint - 1 .. MaxBigint
TransferTxParams == [from : Accounts, to : Accounts, fromAmount : 1 .. MaxBigint, toAmount : Bigint]
Store == INSTANCE Ledger WITH Calls <- Posts, Requests <- TransferTxParams, NoRequest <- NoBody

Empty == [c \in Currencies |-> NoRate]
NothingRead == <<NoRate, NoRate>>

Init ==
  /\ Store!Init
  /\ rate \in [Currencies -> Rates]
  /\ page = Empty
  /\ crawler = "idle"
  /\ crawls = 0
  /\ body = [p \in Posts |-> NoBody]
  /\ step = [p \in Posts |-> "idle"]
  /\ read = [p \in Posts |-> NothingRead]
  /\ status = [p \in Posts |-> 0]
  /\ during = [p \in Posts |-> <<0, 0>>]

-----------------------------------------------------------------------------
(* The crawler.                                                            *)

(* The page is downloaded and the table emptied, in a transaction of its   *)
(* own; lines that do not parse are skipped, so the page may lack any      *)
(* currency.  A download that fails ends the crawl before it touches the   *)
(* table.                                                                  *)
Truncate(found) ==
  /\ crawler = "idle"
  /\ crawls < MaxCrawls
  /\ page' = found
  /\ rate' = Empty
  /\ crawler' = "emptied"
  /\ crawls' = crawls + 1
  /\ UNCHANGED <<store, handler>>

Insert ==
  /\ crawler = "emptied"
  /\ rate' = page
  /\ page' = Empty
  /\ crawler' = "idle"
  /\ UNCHANGED <<store, crawls, handler>>

(* The crawl ends between its two commits: the table stays empty until the *)
(* next one.                                                               *)
CrawlDies ==
  /\ crawler = "emptied"
  /\ page' = Empty
  /\ crawler' = "idle"
  /\ UNCHANGED <<store, rate, crawls, handler>>

-----------------------------------------------------------------------------
(* The handler.                                                            *)
Goto(p, to) == step' = [step EXCEPT ![p] = to]

(* The request is answered; its local variables go.                        *)
Respond(p, code) ==
  /\ Goto(p, "done")
  /\ status' = [status EXCEPT ![p] = code]
  /\ UNCHANGED <<body, read, during>>

GoOn(p, to) == Goto(p, to) /\ UNCHANGED <<body, read, status, during>>

Arrive(p, b) ==
  /\ step[p] = "idle"
  /\ body' = [body EXCEPT ![p] = b]
  /\ Goto(p, "bound")
  /\ UNCHANGED <<store, currencies, read, status, during>>

(* server.validAccount for the sender, then the comparison of its owner    *)
(* with the authenticated user.                                            *)
SlipValidAccount(p) ==      \* a slip: the owner is not compared
  /\ step[p] = "bound"
  /\ IF body[p].from \notin Accounts THEN Respond(p, 404)
     ELSE IF Currency[body[p].from] # body[p].currency THEN Respond(p, 400)
     ELSE GoOn(p, "sender")
  /\ UNCHANGED <<store, currencies>>

ValidAccount(p) ==
  /\ step[p] = "bound"
  /\ IF body[p].from \notin Accounts THEN Respond(p, 404)
     ELSE IF Currency[body[p].from] # body[p].currency THEN Respond(p, 400)
     ELSE IF Owner[body[p].from] # body[p].caller THEN Respond(p, 401)
     ELSE GoOn(p, "sender")
  /\ UNCHANGED <<store, currencies>>

GetReceiver(p) ==
  /\ step[p] = "sender"
  /\ IF body[p].to \in Accounts THEN GoOn(p, "receiver") ELSE Respond(p, 404)
  /\ UNCHANGED <<store, currencies>>

(* GetExchangeRate, the first (n = 1) and the second (n = 2) time.         *)
GetExchangeRate(p, n, here, id, next) ==
  /\ step[p] = here
  /\ IF rate[Currency[id]] = NoRate
       THEN Respond(p, 404)
       ELSE /\ read' = [read EXCEPT ![p][n] = rate[Currency[id]]]
            /\ during' = [during EXCEPT ![p][n] = crawls]
            /\ Goto(p, next)
            /\ UNCHANGED <<body, status>>
  /\ UNCHANGED <<store, currencies>>

GetFromRate(p) == GetExchangeRate(p, 1, "receiver", body[p].from, "fromRate")
GetToRate(p) == GetExchangeRate(p, 2, "fromRate", body[p].to, "bothRates")

(* int64(float64(amount) * (from / to)).  The conversion of the amount, the *)
(* quotient and the product are rounded, each off by at most one part in   *)
(* Exact.  Equal rates divide to exactly 1, and the product with it is     *)
(* exact too.                                                              *)
Float64(amount) ==
  IF amount <= Exact THEN {amount}
  ELSE amount - amount \div Exact .. amount + amount \div Exact

(* The whole part of the product: its fraction is cut off.                 *)
Whole(float, from, to) ==
  IF from = to THEN {float}
  ELSE (float * from * (Exact - 1) * (Exact - 1)) \div (to * Exact * Exact)
         .. (float * from * (Exact + 1) * (Exact + 1)) \div (to * Exact * Exact)

(* Out of range, the result depends on the machine: the least int64        *)
(* (amd64) or the nearest one (arm64).                                     *)
Int64(whole) == IF whole > MaxBigint THEN {-MaxBigint - 1, MaxBigint} ELSE {whole}

SlipUpsideDown(amount, from, to) ==     \* a slip: to / from
  UNION {UNION {Int64(whole) : whole \in Whole(float, to, from)} : float \in Float64(amount)}
SlipUnbounded(amount, from, to) ==      \* a slip: the amounts are uint64
  UNION {Whole(float, from, to) : float \in Float64(amount)}
Converted(amount, from, to) ==
  UNION {UNION {Int64(whole) : whole \in Whole(float, from, to)} : float \in Float64(amount)}

CallTransferTx(p) ==
  /\ step[p] = "bothRates"
  /\ \E after \in Converted(body[p].amount, read[p][1], read[p][2]) :
       Store!Submit(p, [from |-> body[p].from, to |-> body[p].to,
                        fromAmount |-> body[p].amount, toAmount |-> after])
  /\ GoOn(p, "called")
  /\ UNCHANGED currencies

(* TransferTx returns.                                                     *)
SlipStatusOf(answer) == IF answer = "ok" THEN 200 ELSE 400  \* a slip: any error is the client's
StatusOf(answer) ==
  CASE answer = "ok" -> 200
    [] answer = "insufficient" -> 400
    [] answer = "error" -> 500

TransferTxReturns(p) ==
  /\ step[p] = "called"
  /\ \/ \E answer \in {"ok", "error"} :
          Store!Transfer(p, answer) /\ Respond(p, StatusOf(answer))
     \/ \E answer \in {"insufficient", "error"} :
          Store!Refuse(p, answer) /\ Respond(p, StatusOf(answer))
  /\ UNCHANGED currencies

(* A query fails.  When it is that of the second rate, errorResponse gets  *)
(* the nil error of the first and panics: gin's Recovery answers 500.      *)
QueryFails(p) ==
  /\ step[p] \in {"bound", "sender", "receiver", "fromRate"}
  /\ Respond(p, 500)
  /\ UNCHANGED <<store, currencies>>

(* The server dies before it calls the store: no answer at all.            *)
Die(p) ==
  /\ step[p] \in {"bound", "sender", "receiver", "fromRate", "bothRates"}
  /\ Respond(p, 0)
  /\ UNCHANGED <<store, currencies>>

-----------------------------------------------------------------------------
Handle(p) ==
  \/ ValidAccount(p)
  \/ GetReceiver(p)
  \/ GetFromRate(p)
  \/ GetToRate(p)
  \/ CallTransferTx(p)
  \/ TransferTxReturns(p)

Next ==
  \/ \E found \in [Currencies -> Rates \union {NoRate}] : Truncate(found)
  \/ Insert
  \/ CrawlDies
  \/ \E p \in Posts :
       \/ \E b \in Bodies : Arrive(p, b)
       \/ Handle(p)
       \/ QueryFails(p)
       \/ Die(p)

Spec == Init /\ [][Next]_vars

-----------------------------------------------------------------------------
(* Properties.                                                             *)
TypeOK ==
  /\ balance \in [Accounts -> Int]
  /\ posted \in [Accounts -> Int]
  /\ transfers \subseteq Posts
  /\ arg \in [Posts -> TransferTxParams \union {NoBody}]
  /\ reply \in [Posts -> {"none", "ok", "insufficient", "error"}]
  /\ rate \in [Currencies -> Rates \union {NoRate}]
  /\ page \in [Currencies -> Rates \union {NoRate}]
  /\ crawler \in {"idle", "emptied"}
  /\ crawls \in 0 .. MaxCrawls
  /\ body \in [Posts -> Bodies \union {NoBody}]
  /\ step \in [Posts -> {"idle", "bound", "sender", "receiver", "fromRate", "bothRates", "called", "done"}]
  /\ read \in [Posts -> (Rates \union {NoRate}) \X (Rates \union {NoRate})]
  /\ status \in [Posts -> {0, 200, 400, 401, 404, 500}]
  /\ during \in [Posts -> (0 .. MaxCrawls) \X (0 .. MaxCrawls)]

(* A status that promises an outcome is right about it: 200 means the      *)
(* money has moved, 400, 401 and 404 that it has not and never will.  Only *)
(* a 500, or no answer, leaves the customer in doubt.                      *)
AnswerMatchesBooks ==
  \A p \in Posts :
    /\ status[p] = 200 => p \in transfers
    /\ status[p] \in {400, 401, 404} => p \notin transfers

(* Whatever the two ends of a transfer are, it was asked for by the owner  *)
(* of the account that pays, in that account's currency, and that account  *)
(* pays what was asked.                                                    *)
PayerAsked ==
  \A p \in transfers :
    /\ Owner[arg[p].from] = body[p].caller
    /\ Currency[arg[p].from] = body[p].currency
    /\ arg[p].fromAmount = body[p].amount

(* Money is only booked when both rates were there, and when the two were  *)
(* read from the table as one crawl left it, the credit is worth no more   *)
(* than the debit and what three roundings add, one part in Exact each.    *)
(* Within one currency it is the debit itself up to Exact; above, rounding *)
(* the amount may add its one part.  (Between the reads a crawl may        *)
(* replace the rates, and then even a transfer within one currency is      *)
(* multiplied by their ratio.)                                             *)
FairExchange ==
  \A p \in transfers :
    LET debit == arg[p].fromAmount
        credit == arg[p].toAmount
    IN  /\ read[p] \in Rates \X Rates
        /\ during[p][1] = during[p][2] =>
             /\ credit * read[p][2] * (Exact * Exact * Exact)
                  <= debit * read[p][1] * ((Exact + 1) * (Exact + 1) * (Exact + 1))
             /\ Currency[arg[p].from] = Currency[arg[p].to] =>
                  IF debit <= Exact THEN credit = debit ELSE credit * Exact <= debit * (Exact + 1)
=============================================================================
