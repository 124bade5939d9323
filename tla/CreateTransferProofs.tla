------------------------ MODULE CreateTransferProofs -------------------------
(***************************************************************************)
(* Proofs about CreateTransfer, for any accounts, requests, rates, and     *)
(* number of crawls.                                                       *)
(***************************************************************************)
EXTENDS CreateTransfer, TLAPS

(* What the checks of the handler have established by a step.              *)
Checked(p) ==
  /\ body[p].from \in Accounts
  /\ Owner[body[p].from] = body[p].caller
  /\ Currency[body[p].from] = body[p].currency

CheckedInv ==
  \A p \in Posts :
    /\ step[p] # "idle" => body[p] \in Bodies
    /\ step[p] \in {"sender", "receiver", "fromRate", "bothRates"} => Checked(p)
    /\ step[p] \in {"receiver", "fromRate", "bothRates"} => body[p].to \in Accounts
    /\ step[p] \in {"fromRate", "bothRates"} => read[p][1] \in Rates
    /\ step[p] = "bothRates" => read[p][2] \in Rates

(* A rate that was read is in the table until the next crawl empties it,   *)
(* and a crawl fills only a table that is empty.                           *)
RatesInv ==
  /\ crawler = "emptied" => rate = Empty
  /\ \A p \in Posts :
       /\ during[p][1] <= crawls
       /\ step[p] = "fromRate" /\ during[p][1] = crawls
            => rate[Currency[body[p].from]] = read[p][1]
       /\ step[p] = "bothRates" /\ during[p][1] = during[p][2]
             /\ Currency[body[p].from] = Currency[body[p].to]
            => read[p][1] = read[p][2]

(* The argument of the call of the store is what was asked, checked and    *)
(* converted.                                                              *)
Fair(p) ==
  LET debit == arg[p].fromAmount
      credit == arg[p].toAmount
  IN  during[p][1] = during[p][2] =>
        /\ credit * read[p][2] * (Exact * Exact * Exact)
             <= debit * read[p][1] * ((Exact + 1) * (Exact + 1) * (Exact + 1))
        /\ Currency[arg[p].from] = Currency[arg[p].to] =>
             IF debit <= Exact THEN credit = debit ELSE credit * Exact <= debit * (Exact + 1)

Asked(p) ==
  /\ arg[p] \in TransferTxParams
  /\ Owner[arg[p].from] = body[p].caller
  /\ Currency[arg[p].from] = body[p].currency
  /\ arg[p].fromAmount = body[p].amount
  /\ read[p] \in Rates \X Rates
  /\ Fair(p)

AskedInv == \A p \in Posts : step[p] = "called" \/ p \in transfers => Asked(p)

StatusInv ==
  \A p \in Posts :
    /\ status[p] = 200 => p \in transfers
    /\ p \in transfers => step[p] = "done" /\ status[p] \in {200, 500}

IInv ==
  /\ TypeOK
  /\ CheckedInv
  /\ RatesInv
  /\ AskedInv
  /\ StatusInv

-----------------------------------------------------------------------------
(* int64(float64(amount) * (from / to)): each rounding adds at most one     *)
(* part in Exact, cutting off and leaving the range add nothing.           *)
LEMMA Division ==
  ASSUME NEW a \in Nat, NEW b \in Nat \ {0}
  PROVE  /\ a \div b \in Nat
         /\ (a \div b) * b <= a
         /\ a \div b <= a
OBVIOUS

LEMMA Monotone ==
  ASSUME NEW x \in Int, NEW y \in Int, x <= y, NEW k \in Nat
  PROVE  x * k <= y * k
OBVIOUS

(* The conversion of an amount is exact, or off by one part in Exact.      *)
LEMMA Float64Facts ==
  ASSUME NEW amount \in Nat, NEW float \in Float64(amount)
  PROVE  /\ float \in Nat
         /\ float * Exact <= amount * (Exact + 1)
         /\ amount <= Exact => float = amount
<1> DEFINE part == amount \div Exact
<1>1. Exact \in Nat \ {0}
  BY ExactAssumption
<1>2. CASE amount <= Exact
  <2>1. float = amount
    BY <1>2 DEF Float64
  <2>2. amount * Exact <= amount * (Exact + 1)
    BY <1>1
  <2> QED
    BY <2>1, <2>2
<1>3. CASE ~(amount <= Exact)
  <2>1. part \in Nat /\ part * Exact <= amount /\ part <= amount
    BY <1>1, Division
  <2>2. float \in amount - part .. amount + part
    BY <1>3 DEF Float64
  <2> HIDE DEF part
  <2>3. float \in Nat /\ float <= amount + part
    BY <2>1, <2>2
  <2>4. float * Exact <= (amount + part) * Exact
    BY <1>1, <2>1, <2>3, Monotone
  <2>5. (amount + part) * Exact = amount * Exact + part * Exact
        /\ amount * (Exact + 1) = amount * Exact + amount
    BY <1>1, <2>1
  <2> QED
    BY <1>1, <1>3, <2>1, <2>3, <2>4, <2>5
<1> QED
  BY <1>2, <1>3

(* The quotient and the product round up by one part in Exact each, at     *)
(* most, and not at all when the rates are equal.                          *)
LEMMA WholeFacts ==
  ASSUME NEW float \in Nat, NEW from \in Nat \ {0}, NEW to \in Nat \ {0},
         NEW whole \in Whole(float, from, to)
  PROVE  /\ whole \in Nat
         /\ whole * (to * Exact * Exact) <= float * from * (Exact + 1) * (Exact + 1)
         /\ from = to => whole = float
<1> DEFINE low == float * from * (Exact - 1) * (Exact - 1)
           high == float * from * (Exact + 1) * (Exact + 1)
           below == to * Exact * Exact
<1>1. Exact \in Nat \ {0}
  BY ExactAssumption
<1>2. low \in Nat /\ high \in Nat /\ below \in Nat \ {0}
  <2>1. Exact * Exact \in Nat \ {0} /\ Exact - 1 \in Nat /\ Exact + 1 \in Nat
    BY <1>1
  <2>2. (Exact - 1) * (Exact - 1) \in Nat /\ (Exact + 1) * (Exact + 1) \in Nat
    BY <2>1
  <2>3. float * from \in Nat
    OBVIOUS
  <2> QED
    BY <1>1, <2>1, <2>2, <2>3
<1>3. CASE from = to
  <2>1. whole = float
    BY <1>3 DEF Whole
  <2>2. Exact * Exact <= (Exact + 1) * (Exact + 1)
    BY <1>1
  <2>3. (Exact * Exact) * (float * from) <= ((Exact + 1) * (Exact + 1)) * (float * from)
    BY <1>1, <2>2, Monotone
  <2> QED
    BY <1>1, <1>3, <2>1, <2>3
<1>4. CASE from # to
  <2>1. whole \in low \div below .. high \div below
    BY <1>4 DEF Whole
  <2> HIDE DEF low, high, below
  <2>2. /\ low \div below \in Nat
        /\ high \div below \in Nat /\ (high \div below) * below <= high
    BY <1>2, Division
  <2>3. whole \in Nat /\ whole <= high \div below
    BY <2>1, <2>2
  <2>4. whole * below <= (high \div below) * below
    BY <1>2, <2>2, <2>3, Monotone
  <2>5. whole * below <= high
    BY <1>2, <2>2, <2>3, <2>4
  <2> QED
    BY <1>4, <2>3, <2>5 DEF below, high
<1> QED
  BY <1>3, <1>4

(* A conversion fits int64, whatever the machine makes of one out of       *)
(* range, and never is more than what was converted.                       *)
LEMMA Int64Facts ==
  ASSUME NEW whole \in Nat, NEW after \in Int64(whole)
  PROVE  /\ after \in Bigint
         /\ after <= whole
         /\ whole <= MaxBigint => after = whole
BY MaxAssumption DEF Int64, Bigint

LEMMA ConvertedFacts ==
  ASSUME NEW amount \in 1 .. MaxBigint, NEW from \in Rates, NEW to \in Rates,
         NEW after \in Converted(amount, from, to)
  PROVE  /\ after \in Bigint
         /\ after * to * (Exact * Exact * Exact)
              <= amount * from * ((Exact + 1) * (Exact + 1) * (Exact + 1))
         /\ from = to =>
              IF amount <= Exact THEN after = amount ELSE after * Exact <= amount * (Exact + 1)
<1>1. /\ MaxBigint \in Nat /\ amount \in Nat /\ amount <= MaxBigint
      /\ from \in Nat \ {0} /\ to \in Nat \ {0} /\ Exact \in Nat \ {0}
  BY MaxAssumption, RatesAssumption, ExactAssumption
<1>2. PICK float \in Float64(amount) : \E whole \in Whole(float, from, to) : after \in Int64(whole)
  BY DEF Converted
<1>3. /\ float \in Nat /\ float * Exact <= amount * (Exact + 1)
      /\ amount <= Exact => float = amount
  BY <1>1, <1>2, Float64Facts
<1>4. PICK whole \in Whole(float, from, to) : after \in Int64(whole)
  BY <1>2
<1>5. /\ whole \in Nat
      /\ whole * (to * Exact * Exact) <= float * from * (Exact + 1) * (Exact + 1)
      /\ from = to => whole = float
  BY <1>1, <1>3, <1>4, WholeFacts
<1>6. after \in Bigint /\ after <= whole /\ (whole <= MaxBigint => after = whole)
  BY <1>4, <1>5, Int64Facts
<1>7. after \in Int
  BY <1>1, <1>6 DEF Bigint
<1>8. after * to * (Exact * Exact * Exact)
        <= amount * from * ((Exact + 1) * (Exact + 1) * (Exact + 1))
  <2> DEFINE up == from * (Exact + 1) * (Exact + 1)
             below == to * Exact * Exact
  <2>1. up \in Nat /\ below \in Nat
    BY <1>1
  <2>2. (after * below) * Exact <= (whole * below) * Exact
    <3> HIDE DEF below
    <3>1. after * below <= whole * below
      BY <1>5, <1>6, <1>7, <2>1, Monotone
    <3> QED
      BY <1>1, <1>5, <1>7, <2>1, <3>1, Monotone
  <2>3. (whole * below) * Exact <= (float * up) * Exact
    <3>1. whole * below <= float * up
      BY <1>1, <1>3, <1>5
    <3> HIDE DEF below, up
    <3> QED
      BY <1>1, <1>3, <1>5, <2>1, <3>1, Monotone
  <2>4. (float * Exact) * up <= (amount * (Exact + 1)) * up
    <3> HIDE DEF up
    <3> QED
      BY <1>1, <1>3, <2>1, Monotone
  <2>5. (after * below) * Exact <= (amount * (Exact + 1)) * up
    <3> HIDE DEF up, below
    <3>1. (float * up) * Exact = (float * Exact) * up
      BY <1>1, <1>3, <2>1
    <3>2. /\ (after * below) * Exact \in Int /\ (whole * below) * Exact \in Int
          /\ (float * up) * Exact \in Int /\ (amount * (Exact + 1)) * up \in Int
      BY <1>1, <1>3, <1>5, <1>7, <2>1
    <3> QED
      BY <2>2, <2>3, <2>4, <3>1, <3>2
  <2> QED
    BY <1>1, <1>7, <2>5
<1>9. from = to =>
        IF amount <= Exact THEN after = amount ELSE after * Exact <= amount * (Exact + 1)
  <2> SUFFICES ASSUME from = to
               PROVE  IF amount <= Exact THEN after = amount
                                         ELSE after * Exact <= amount * (Exact + 1)
    OBVIOUS
  <2>1. whole = float
    BY <1>5
  <2>2. CASE amount <= Exact
    BY <1>1, <1>3, <1>6, <2>1, <2>2
  <2>3. CASE ~(amount <= Exact)
    <3>1. after * Exact <= float * Exact
      BY <1>1, <1>3, <1>6, <1>7, <2>1, Monotone
    <3> QED
      BY <1>1, <1>3, <1>7, <2>3, <3>1
  <2> QED
    BY <2>2, <2>3
<1> QED
  BY <1>6, <1>8, <1>9

-----------------------------------------------------------------------------
(* One half of a pair is replaced.                                         *)
LEMMA PairFacts ==
  ASSUME NEW S, NEW T, NEW f \in [T -> S \X S], NEW t \in T, NEW v \in S, NEW n \in {1, 2},
         NEW g, g = [f EXCEPT ![t][n] = v]
  PROVE  /\ g \in [T -> S \X S]
         /\ g[t][n] = v
         /\ g[t][3 - n] = f[t][3 - n]
         /\ \A u \in T \ {t} : g[u] = f[u]
<1> DEFINE pair == [f[t] EXCEPT ![n] = v]
<1>1. f[t] \in S \X S
  OBVIOUS
<1>2. pair = IF n = 1 THEN <<v, f[t][2]>> ELSE <<f[t][1], v>>
  <2>1. \A a, b \in S : /\ [<<a, b>> EXCEPT ![1] = v] = <<v, b>>
                        /\ [<<a, b>> EXCEPT ![2] = v] = <<a, v>>
    OBVIOUS
  <2>2. PICK a \in S, b \in S : f[t] = <<a, b>>
    BY <1>1
  <2>3. CASE n = 1
    BY <2>1, <2>2, <2>3
  <2>4. CASE n = 2
    BY <2>1, <2>2, <2>4
  <2> QED
    BY <2>3, <2>4
<1>3. pair \in S \X S /\ pair[n] = v /\ pair[3 - n] = f[t][3 - n]
  BY <1>1, <1>2
<1>4. [f EXCEPT ![t][n] = v] = [f EXCEPT ![t] = pair]
  OBVIOUS
<1> HIDE DEF pair
<1> QED
  BY <1>3, <1>4

(* The request is answered before it calls the store.                      *)
LEMMA EarlyAnswer ==
  ASSUME IInv, NEW p \in Posts, NEW code \in {0, 400, 401, 404, 500},
         step[p] \in {"bound", "sender", "receiver", "fromRate", "bothRates"},
         Respond(p, code), UNCHANGED <<store, currencies>>
  PROVE  IInv'
<1> USE DEF Respond, Goto, store, currencies
<1>1. p \notin transfers
  BY DEF IInv, StatusInv
<1>2. TypeOK'
  BY DEF IInv, TypeOK
<1>3. /\ \A q \in Posts \ {p} : step'[q] = step[q] /\ status'[q] = status[q]
      /\ step'[p] = "done" /\ status'[p] = code
  BY DEF IInv, TypeOK
<1>4. CheckedInv'
  BY <1>3 DEF IInv, CheckedInv, Checked
<1>5. RatesInv'
  BY <1>3 DEF IInv, RatesInv
<1>6. AskedInv'
  BY <1>1, <1>3 DEF IInv, AskedInv, Asked, Fair
<1>7. StatusInv'
  BY <1>1, <1>3 DEF IInv, StatusInv
<1> QED
  BY <1>2, <1>4, <1>5, <1>6, <1>7 DEF IInv

(* A check of the handler has passed.                                      *)
LEMMA CheckPassed ==
  ASSUME IInv, NEW p \in Posts, NEW to,
         \/ step[p] = "bound" /\ to = "sender" /\ Checked(p)
         \/ step[p] = "sender" /\ to = "receiver" /\ body[p].to \in Accounts,
         GoOn(p, to), UNCHANGED <<store, currencies>>
  PROVE  IInv'
<1> USE DEF GoOn, Goto, store, currencies
<1>1. p \notin transfers
  BY DEF IInv, StatusInv
<1>2. TypeOK'
  BY DEF IInv, TypeOK
<1>3. /\ \A q \in Posts \ {p} : step'[q] = step[q]
      /\ step'[p] = to
  BY DEF IInv, TypeOK
<1>4. CheckedInv'
  BY <1>3 DEF IInv, CheckedInv, Checked
<1>5. RatesInv'
  BY <1>3 DEF IInv, RatesInv
<1>6. AskedInv'
  BY <1>1, <1>3 DEF IInv, AskedInv, Asked, Fair
<1>7. StatusInv'
  BY <1>1, <1>3 DEF IInv, StatusInv
<1> QED
  BY <1>2, <1>4, <1>5, <1>6, <1>7 DEF IInv

(* The crawler changes the rates: none that was read before is compared    *)
(* with one read later.                                                    *)
LEMMA TruncateStep ==
  ASSUME IInv, NEW found \in [Currencies -> Rates \union {NoRate}], Truncate(found)
  PROVE  IInv'
<1> USE DEF Truncate, store, handler
<1>1. /\ crawls \in Nat /\ crawls' \in 0 .. MaxCrawls
      /\ \A p \in Posts : during[p][1] \in Nat
  BY MaxAssumption DEF IInv, TypeOK
<1>2. TypeOK'
  BY <1>1 DEF IInv, TypeOK, Empty
<1>3. CheckedInv'
  BY DEF IInv, CheckedInv, Checked
<1>4. RatesInv'
  BY <1>1 DEF IInv, RatesInv, Empty
<1>5. AskedInv' /\ StatusInv'
  BY DEF IInv, AskedInv, Asked, Fair, StatusInv
<1> QED
  BY <1>2, <1>3, <1>4, <1>5 DEF IInv

(* The table was empty, so no rate read since the crawl is in it.          *)
LEMMA InsertStep == ASSUME IInv, Insert \/ CrawlDies PROVE IInv'
<1> USE DEF Insert, CrawlDies, store, handler
<1>1. rate = Empty /\ (rate' = page \/ rate' = rate) /\ page' = Empty
      /\ crawler' = "idle" /\ UNCHANGED <<crawls, store, handler>>
  BY DEF IInv, RatesInv
<1>2. TypeOK'
  BY <1>1 DEF IInv, TypeOK, Empty
<1>3. CheckedInv'
  BY <1>1 DEF IInv, CheckedInv, Checked
<1>4. RatesInv'
  <2>1. ASSUME NEW p \in Posts, step[p] = "fromRate" PROVE during[p][1] # crawls
    <3>1. read[p][1] \in Rates /\ body[p].from \in Accounts
      BY <2>1 DEF IInv, CheckedInv, Checked
    <3>2. rate[Currency[body[p].from]] = NoRate
      BY <1>1, <3>1, CurrencyAssumption DEF Empty
    <3> QED
      BY <2>1, <3>1, <3>2, RatesAssumption DEF IInv, RatesInv
  <2> QED
    BY <1>1, <2>1 DEF IInv, RatesInv
<1>5. AskedInv' /\ StatusInv'
  BY <1>1 DEF IInv, AskedInv, Asked, Fair, StatusInv
<1> QED
  BY <1>2, <1>3, <1>4, <1>5 DEF IInv

(* The first rate is in the table, as it is read.                          *)
LEMMA FromRateStep == ASSUME IInv, NEW p \in Posts, GetFromRate(p) PROVE IInv'
<1> USE DEF GetFromRate, GetExchangeRate, store, currencies
<1> DEFINE price == rate[Currency[body[p].from]]
<1>1. CASE Respond(p, 404)
  BY <1>1, EarlyAnswer
<1>2. CASE price # NoRate /\ read' = [read EXCEPT ![p][1] = price]
           /\ during' = [during EXCEPT ![p][1] = crawls]
           /\ Goto(p, "fromRate") /\ UNCHANGED <<body, status>>
  <2>0. step[p] = "receiver" /\ p \notin transfers /\ Checked(p) /\ body[p].to \in Accounts
    BY DEF IInv, StatusInv, CheckedInv
  <2>1. price \in Rates \union {NoRate} /\ price \in Rates
    BY <1>2, <2>0, CurrencyAssumption DEF IInv, TypeOK, Checked
  <2> HIDE DEF price
  <2>2. /\ read' \in [Posts -> (Rates \union {NoRate}) \X (Rates \union {NoRate})]
        /\ read'[p][1] = price
        /\ \A q \in Posts \ {p} : read'[q] = read[q]
    <3>1. read \in [Posts -> (Rates \union {NoRate}) \X (Rates \union {NoRate})]
      BY DEF IInv, TypeOK
    <3> QED
      BY <1>2, <2>1, <3>1, PairFacts
  <2>3. /\ during' \in [Posts -> (0 .. MaxCrawls) \X (0 .. MaxCrawls)]
        /\ during'[p][1] = crawls
        /\ \A q \in Posts \ {p} : during'[q] = during[q]
    <3>1. during \in [Posts -> (0 .. MaxCrawls) \X (0 .. MaxCrawls)] /\ crawls \in 0 .. MaxCrawls
      BY DEF IInv, TypeOK
    <3> QED
      BY <1>2, <3>1, PairFacts
  <2>4. step' = [step EXCEPT ![p] = "fromRate"]
    BY <1>2 DEF Goto
  <2>5. TypeOK'
    BY <1>2, <2>2, <2>3, <2>4 DEF IInv, TypeOK
  <2>6. step'[p] = "fromRate" /\ \A q \in Posts \ {p} : step'[q] = step[q]
    BY <2>4 DEF IInv, TypeOK
  <2>7. CheckedInv'
    BY <1>2, <2>0, <2>1, <2>2, <2>6 DEF IInv, CheckedInv, Checked
  <2>8. RatesInv'
    <3>1. rate[Currency[body[p].from]] = read'[p][1] /\ crawls <= crawls
      BY <2>2 DEF IInv, TypeOK, price
    <3> QED
      BY <1>2, <2>2, <2>3, <2>6, <3>1 DEF IInv, RatesInv
  <2>9. AskedInv'
    BY <1>2, <2>0, <2>2, <2>3, <2>6 DEF IInv, AskedInv, Asked, Fair
  <2>10. StatusInv'
    BY <1>2, <2>0, <2>6 DEF IInv, StatusInv
  <2> QED
    BY <2>5, <2>7, <2>8, <2>9, <2>10 DEF IInv
<1> QED
  BY <1>1, <1>2

(* The second one is too; in between there may have been a crawl.          *)
LEMMA ToRateStep == ASSUME IInv, NEW p \in Posts, GetToRate(p) PROVE IInv'
<1> USE DEF GetToRate, GetExchangeRate, store, currencies
<1> DEFINE price == rate[Currency[body[p].to]]
<1>1. CASE Respond(p, 404)
  BY <1>1, EarlyAnswer
<1>2. CASE price # NoRate /\ read' = [read EXCEPT ![p][2] = price]
           /\ during' = [during EXCEPT ![p][2] = crawls]
           /\ Goto(p, "bothRates") /\ UNCHANGED <<body, status>>
  <2>0. /\ step[p] = "fromRate" /\ p \notin transfers /\ Checked(p)
        /\ body[p].to \in Accounts /\ read[p][1] \in Rates
    BY DEF IInv, StatusInv, CheckedInv
  <2>1. price \in Rates \union {NoRate} /\ price \in Rates
    BY <1>2, <2>0, CurrencyAssumption DEF IInv, TypeOK
  <2> HIDE DEF price
  <2>2. /\ read' \in [Posts -> (Rates \union {NoRate}) \X (Rates \union {NoRate})]
        /\ read'[p][2] = price /\ read'[p][1] = read[p][1]
        /\ \A q \in Posts \ {p} : read'[q] = read[q]
    <3>1. read \in [Posts -> (Rates \union {NoRate}) \X (Rates \union {NoRate})]
      BY DEF IInv, TypeOK
    <3> QED
      BY <1>2, <2>1, <3>1, PairFacts
  <2>3. /\ during' \in [Posts -> (0 .. MaxCrawls) \X (0 .. MaxCrawls)]
        /\ during'[p][2] = crawls /\ during'[p][1] = during[p][1]
        /\ \A q \in Posts \ {p} : during'[q] = during[q]
    <3>1. during \in [Posts -> (0 .. MaxCrawls) \X (0 .. MaxCrawls)] /\ crawls \in 0 .. MaxCrawls
      BY DEF IInv, TypeOK
    <3> QED
      BY <1>2, <3>1, PairFacts
  <2>4. step' = [step EXCEPT ![p] = "bothRates"]
    BY <1>2 DEF Goto
  <2>5. TypeOK'
    BY <1>2, <2>2, <2>3, <2>4 DEF IInv, TypeOK
  <2>6. step'[p] = "bothRates" /\ \A q \in Posts \ {p} : step'[q] = step[q]
    BY <2>4 DEF IInv, TypeOK
  <2>7. CheckedInv'
    BY <1>2, <2>0, <2>1, <2>2, <2>6 DEF IInv, CheckedInv, Checked
  <2>8. RatesInv'
    <3>1. ASSUME during[p][1] = crawls, Currency[body[p].from] = Currency[body[p].to]
          PROVE  read'[p][1] = read'[p][2]
      BY <2>0, <2>2, <3>1 DEF IInv, RatesInv, price
    <3> QED
      BY <1>2, <2>2, <2>3, <2>6, <3>1 DEF IInv, RatesInv
  <2>9. AskedInv'
    BY <1>2, <2>0, <2>2, <2>3, <2>6 DEF IInv, AskedInv, Asked, Fair
  <2>10. StatusInv'
    BY <1>2, <2>0, <2>6 DEF IInv, StatusInv
  <2> QED
    BY <2>5, <2>7, <2>8, <2>9, <2>10 DEF IInv
<1> QED
  BY <1>1, <1>2

-----------------------------------------------------------------------------
(* The call: its argument is the conversion of what was asked.             *)
LEMMA CallStep == ASSUME IInv, NEW p \in Posts, CallTransferTx(p) PROVE IInv'
<1>1. PICK after \in Converted(body[p].amount, read[p][1], read[p][2]) :
        Store!Submit(p, [from |-> body[p].from, to |-> body[p].to,
                         fromAmount |-> body[p].amount, toAmount |-> after])
  BY DEF CallTransferTx
<1> DEFINE r == [from |-> body[p].from, to |-> body[p].to,
                 fromAmount |-> body[p].amount, toAmount |-> after]
<1>2. /\ step[p] = "bothRates" /\ step' = [step EXCEPT ![p] = "called"]
      /\ arg' = [arg EXCEPT ![p] = r]
      /\ UNCHANGED <<balance, posted, transfers, reply>>
      /\ UNCHANGED <<rate, page, crawler, crawls, body, read, status, during>>
  BY <1>1 DEF CallTransferTx, GoOn, Goto, Store!Submit, currencies
<1>3. /\ p \notin transfers /\ Checked(p) /\ body[p].to \in Accounts
      /\ read[p][1] \in Rates /\ read[p][2] \in Rates /\ body[p] \in Bodies
  BY <1>2 DEF IInv, StatusInv, CheckedInv
<1>4. body[p].amount \in 1 .. MaxBigint
  BY <1>3, BodiesAssumption
<1> DEFINE Gains(debit, credit) ==
             credit * read[p][2] * (Exact * Exact * Exact)
               <= debit * read[p][1] * ((Exact + 1) * (Exact + 1) * (Exact + 1))
           Within(debit, credit) ==
             IF debit <= Exact THEN credit = debit ELSE credit * Exact <= debit * (Exact + 1)
<1>5. /\ after \in Bigint
      /\ Gains(body[p].amount, after)
      /\ read[p][1] = read[p][2] => Within(body[p].amount, after)
  BY <1>1, <1>3, <1>4, ConvertedFacts
<1>6. r \in TransferTxParams
  BY <1>3, <1>4, <1>5 DEF TransferTxParams, Checked
<1>7. /\ step'[p] = "called" /\ arg'[p] = r
      /\ \A q \in Posts \ {p} : step'[q] = step[q] /\ arg'[q] = arg[q]
  BY <1>2 DEF IInv, TypeOK
<1>8. TypeOK'
  <2> HIDE DEF r
  <2> QED
    BY <1>2, <1>6 DEF IInv, TypeOK
<1>9. CheckedInv'
  BY <1>2, <1>3, <1>7 DEF IInv, CheckedInv, Checked
<1>10. RatesInv'
  BY <1>2, <1>7 DEF IInv, RatesInv
<1>11. AskedInv'
  <2>1. read[p] \in Rates \X Rates
    BY <1>3 DEF IInv, TypeOK
  <2>2. during[p][1] = during[p][2] /\ Currency[body[p].from] = Currency[body[p].to]
          => Within(body[p].amount, after)
    BY <1>2, <1>5 DEF IInv, RatesInv
  <2>3. /\ r.from = body[p].from /\ r.to = body[p].to
        /\ r.fromAmount = body[p].amount /\ r.toAmount = after
    OBVIOUS
  <2>4. Fair(p)'
    BY <1>2, <1>5, <1>7, <2>2, <2>3 DEF Fair
  <2>5. Asked(p)'
    BY <1>2, <1>3, <1>6, <1>7, <2>1, <2>3, <2>4 DEF Asked, Checked
  <2>6. ASSUME NEW q \in Posts \ {p}, step'[q] = "called" \/ q \in transfers'
        PROVE  Asked(q)'
    BY <1>2, <1>7, <2>6 DEF IInv, AskedInv, Asked, Fair
  <2> QED
    BY <2>5, <2>6 DEF AskedInv
<1>12. StatusInv'
  BY <1>2, <1>3, <1>7 DEF IInv, StatusInv
<1> QED
  BY <1>8, <1>9, <1>10, <1>11, <1>12 DEF IInv

(* The store answers: only a transfer that has moved money is answered 200.*)
LEMMA ReturnStep == ASSUME IInv, NEW p \in Posts, TransferTxReturns(p) PROVE IInv'
<1>1. /\ step[p] = "called" /\ UNCHANGED <<rate, page, crawler, crawls>>
      /\ \/ \E answer \in {"ok", "error"} :
               Store!Transfer(p, answer) /\ Respond(p, StatusOf(answer))
         \/ \E answer \in {"insufficient", "error"} :
               Store!Refuse(p, answer) /\ Respond(p, StatusOf(answer))
  BY DEF TransferTxReturns, currencies
<1>2. Asked(p) /\ p \notin transfers
  BY <1>1 DEF IInv, AskedInv, StatusInv
<1>3. PICK answer \in {"ok", "insufficient", "error"}, moved \in {TRUE, FALSE} :
        /\ IF moved THEN Store!Transfer(p, answer) /\ answer # "insufficient"
                    ELSE Store!Refuse(p, answer) /\ answer # "ok"
        /\ Respond(p, StatusOf(answer))
  BY <1>1
<1>4. /\ step' = [step EXCEPT ![p] = "done"]
      /\ status' = [status EXCEPT ![p] = StatusOf(answer)]
      /\ reply' = [reply EXCEPT ![p] = answer]
      /\ transfers' = transfers \union (IF moved THEN {p} ELSE {})
      /\ UNCHANGED <<arg, body, read, during, rate, page, crawler, crawls>>
  BY <1>1, <1>3 DEF Respond, Goto, Store!Transfer, Store!Refuse
<1>5. balance' \in [Accounts -> Int] /\ posted' \in [Accounts -> Int]
  <2>1. CASE moved
    <3>1. arg[p].fromAmount \in Int /\ arg[p].toAmount \in Int
      BY <1>2, MaxAssumption DEF Asked, TransferTxParams, Bigint
    <3>2. \A a \in Accounts : Store!Effect(arg[p], a) \in Int
      BY <3>1 DEF Store!Effect
    <3> QED
      BY <1>3, <2>1, <3>2 DEF Store!Transfer, IInv, TypeOK
  <2>2. CASE ~moved
    BY <1>3, <2>2 DEF Store!Refuse, IInv, TypeOK
  <2> QED
    BY <2>1, <2>2
<1>6. /\ StatusOf(answer) \in {200, 400, 500}
      /\ StatusOf(answer) = 200 => moved
      /\ moved => StatusOf(answer) \in {200, 500}
  BY <1>3 DEF StatusOf
<1>7. /\ step'[p] = "done" /\ status'[p] = StatusOf(answer)
      /\ \A q \in Posts \ {p} : step'[q] = step[q] /\ status'[q] = status[q]
  BY <1>4 DEF IInv, TypeOK
<1>8. TypeOK'
  BY <1>4, <1>5, <1>6 DEF IInv, TypeOK
<1>9. CheckedInv'
  BY <1>1, <1>4, <1>7 DEF IInv, CheckedInv, Checked
<1>10. RatesInv'
  BY <1>4, <1>7 DEF IInv, RatesInv
<1>11. AskedInv'
  <2>1. \A q \in Posts : Asked(q) => Asked(q)'
    BY <1>4 DEF Asked, Fair
  <2> QED
    BY <1>2, <1>4, <1>7, <2>1 DEF IInv, AskedInv
<1>12. StatusInv'
  BY <1>2, <1>4, <1>6, <1>7 DEF IInv, StatusInv
<1> QED
  BY <1>8, <1>9, <1>10, <1>11, <1>12 DEF IInv

-----------------------------------------------------------------------------
(* Nothing is asked yet, and no crawl is running.                          *)
LEMMA InitStep == Init => IInv
<1> SUFFICES ASSUME Init PROVE IInv
  OBVIOUS
<1>1. 0 \in 0 .. MaxCrawls
  BY MaxAssumption
<1>2. TypeOK
  <2>1. /\ balance = InitBalance /\ posted = [a \in Accounts |-> 0] /\ transfers = {}
        /\ arg = [t \in Posts |-> NoBody] /\ reply = [t \in Posts |-> "none"]
    BY DEF Init, Store!Init
  <2>2. balance \in [Accounts -> Int] /\ posted \in [Accounts -> Int]
    BY <2>1, InitBalanceAssumption
  <2> QED
    BY <1>1, <2>1, <2>2 DEF Init, TypeOK, Empty, NothingRead
<1>3. CheckedInv /\ AskedInv /\ StatusInv
  BY DEF Init, Store!Init, CheckedInv, AskedInv, StatusInv
<1>4. RatesInv
  BY DEF Init, RatesInv
<1> QED
  BY <1>2, <1>3, <1>4 DEF IInv

(* Every step of the handler and of the crawler keeps the invariant.       *)
LEMMA NextStep == IInv /\ [Next]_vars => IInv'
<1> SUFFICES ASSUME IInv, [Next]_vars PROVE IInv'
  OBVIOUS
<1>1. ASSUME NEW found \in [Currencies -> Rates \union {NoRate}], Truncate(found) PROVE IInv'
  BY <1>1, TruncateStep
<1>2. CASE Insert \/ CrawlDies
  BY <1>2, InsertStep
<1>3. ASSUME NEW p \in Posts, NEW b \in Bodies, Arrive(p, b) PROVE IInv'
  <2>1. /\ step[p] = "idle" /\ step' = [step EXCEPT ![p] = "bound"]
        /\ body' = [body EXCEPT ![p] = b]
        /\ UNCHANGED <<balance, posted, transfers, arg, reply, rate, page, crawler, crawls,
                       read, status, during>>
    BY <1>3 DEF Arrive, Goto, store, currencies
  <2>2. /\ step'[p] = "bound" /\ body'[p] = b
        /\ \A q \in Posts \ {p} : step'[q] = step[q] /\ body'[q] = body[q]
    BY <2>1 DEF IInv, TypeOK
  <2>3. p \notin transfers
    BY <2>1 DEF IInv, StatusInv
  <2>4. TypeOK'
    BY <2>1 DEF IInv, TypeOK
  <2>5. CheckedInv'
    BY <2>1, <2>2 DEF IInv, CheckedInv, Checked
  <2>6. RatesInv'
    BY <2>1, <2>2 DEF IInv, RatesInv
  <2>7. AskedInv' /\ StatusInv'
    BY <2>1, <2>2, <2>3 DEF IInv, AskedInv, Asked, Fair, StatusInv
  <2> QED
    BY <2>4, <2>5, <2>6, <2>7 DEF IInv
<1>4. ASSUME NEW p \in Posts, ValidAccount(p) PROVE IInv'
  <2>1. step[p] = "bound" /\ UNCHANGED <<store, currencies>>
    BY <1>4 DEF ValidAccount
  <2>2. \/ \E code \in {400, 401, 404} : Respond(p, code)
        \/ GoOn(p, "sender") /\ Checked(p)
    BY <1>4 DEF ValidAccount, Checked
  <2> QED
    BY <2>1, <2>2, EarlyAnswer, CheckPassed
<1>5. ASSUME NEW p \in Posts, GetReceiver(p) PROVE IInv'
  <2>1. /\ step[p] = "sender" /\ UNCHANGED <<store, currencies>>
        /\ Respond(p, 404) \/ (GoOn(p, "receiver") /\ body[p].to \in Accounts)
    BY <1>5 DEF GetReceiver
  <2> QED
    BY <2>1, EarlyAnswer, CheckPassed
<1>6. ASSUME NEW p \in Posts, GetFromRate(p) \/ GetToRate(p) PROVE IInv'
  BY <1>6, FromRateStep, ToRateStep
<1>7. ASSUME NEW p \in Posts, CallTransferTx(p) \/ TransferTxReturns(p) PROVE IInv'
  BY <1>7, CallStep, ReturnStep
<1>8. ASSUME NEW p \in Posts, QueryFails(p) PROVE IInv'
  BY <1>8, EarlyAnswer DEF QueryFails
<1>9. ASSUME NEW p \in Posts, Die(p) PROVE IInv'
  BY <1>9, EarlyAnswer DEF Die
<1>10. CASE UNCHANGED vars
  <2> USE <1>10 DEF vars, store, currencies, handler
  <2>1. TypeOK' /\ CheckedInv'
    BY DEF IInv, TypeOK, CheckedInv, Checked
  <2>2. RatesInv' /\ StatusInv'
    BY DEF IInv, RatesInv, StatusInv
  <2>3. AskedInv'
    BY DEF IInv, AskedInv, Asked, Fair
  <2> QED
    BY <2>1, <2>2, <2>3 DEF IInv
<1> QED
  BY <1>1, <1>2, <1>3, <1>4, <1>5, <1>6, <1>7, <1>8, <1>9, <1>10 DEF Next, Handle

(* The inductive invariant: what the handler has checked by a step, what   *)
(* the rates it holds have to do with the table, and what the store was    *)
(* asked to do (createTransfer, currencyExchange, crawl.py).               *)
THEOREM Invariance == Spec => []IInv
BY InitStep, NextStep, PTL DEF Spec

(* Types.  The credit fits int64 on every machine the conversion runs on.  *)
THEOREM TypeCorrect == Spec => []TypeOK
<1>1. IInv => TypeOK
  BY DEF IInv
<1> QED
  BY <1>1, Invariance, PTL

(* The status of an answer is right about the books (the statuses          *)
(* createTransfer gives the errors of TransferTx).                         *)
THEOREM AnswersAreTrue == Spec => []AnswerMatchesBooks
<1>1. IInv => AnswerMatchesBooks
  <2> SUFFICES ASSUME IInv, NEW p \in Posts
               PROVE  /\ status[p] = 200 => p \in transfers
                      /\ status[p] \in {400, 401, 404} => p \notin transfers
    BY DEF AnswerMatchesBooks
  <2> QED
    BY DEF IInv, StatusInv
<1> QED
  BY <1>1, Invariance, PTL

(* Only the owner of an account moves its money, and as much as asked (the *)
(* checks of validAccount and of the owner).                               *)
THEOREM PayersAsked == Spec => []PayerAsked
<1>1. IInv => PayerAsked
  BY DEF IInv, TypeOK, AskedInv, Asked, PayerAsked
<1> QED
  BY <1>1, Invariance, PTL

(* Changing money at the rates of one crawl gains nothing but what three   *)
(* roundings may, and within one currency nothing at all up to Exact       *)
(* (currencyExchange and its conversion by way of float64).                *)
THEOREM ExchangeIsFair == Spec => []FairExchange
<1>1. IInv => FairExchange
  <2> SUFFICES ASSUME IInv, NEW p \in transfers PROVE Asked(p) /\ p \in Posts
    BY DEF FairExchange, Asked, Fair
  <2> QED
    BY DEF IInv, TypeOK, AskedInv
<1> QED
  BY <1>1, Invariance, PTL
=============================================================================
