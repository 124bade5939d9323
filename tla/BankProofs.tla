----------------------------- MODULE BankProofs -----------------------------
(***************************************************************************)
(* Proofs about Bank.  What is known of the handler while the store is one *)
(* step (CreateTransferProofs) and what is known of the statements of the  *)
(* store (TransferTxProofs) hold together, each with the help of the       *)
(* other: the handler calls the store with arguments TransferTx is         *)
(* written for, and TransferTx answers as the handler expects.             *)
(***************************************************************************)
EXTENDS Bank, CreateTransferProofs

TxP == INSTANCE TransferTxProofs
         WITH Calls <- Posts, Requests <- TransferTxParams, NoRequest <- NoBody

(* A request waits for the store exactly while its call is under way.      *)
LinkInv ==
  \A p \in Posts :
    /\ step[p] = "called" <=> pc[p] \in Tx!InTx \union {"called"}
    /\ pc[p] = "done" => step[p] = "done"

BankInv == IInv /\ TxP!IInv /\ LinkInv

-----------------------------------------------------------------------------
(* What TransferTx assumes of its constants holds of those it is given     *)
(* here; the arguments of its calls are those it is written for.           *)
LEMMA StoreAssumptions ==
  /\ MaxBigint \in Nat /\ Accounts \subseteq Nat
  /\ TransferTxParams \subseteq
       [from : Nat, to : Nat, fromAmount : Nat \ {0}, toAmount : TxP!Bigint]
  /\ InitBalance \in [Accounts -> TxP!Bigint]
  /\ MaxConns \in Nat \ {0}
  /\ NoCall \notin Posts
  /\ NoBody \notin TransferTxParams
<1> USE AccountsAssumption, MaxAssumption, BankAssumption DEF Bigint, TxP!Bigint
<1>1. ASSUME NEW r \in TransferTxParams
      PROVE  r \in [from : Nat, to : Nat, fromAmount : Nat \ {0}, toAmount : TxP!Bigint]
  <2>1. /\ r = [from |-> r.from, to |-> r.to, fromAmount |-> r.fromAmount, toAmount |-> r.toAmount]
        /\ r.from \in Accounts /\ r.to \in Accounts
        /\ r.fromAmount \in 1 .. MaxBigint /\ r.toAmount \in Bigint
    BY DEF TransferTxParams
  <2>2. r.fromAmount \in Nat \ {0}
    BY <2>1
  <2> QED
    BY <2>1, <2>2
<1>2. TransferTxParams \subseteq
        [from : Nat, to : Nat, fromAmount : Nat \ {0}, toAmount : TxP!Bigint]
  BY <1>1
<1> QED
  BY <1>2

(* The statements Bank is made of are those of TransferTxProofs.           *)
LEMMA SameStatements ==
  ASSUME NEW p \in Posts
  PROVE  /\ \A r : Tx!Submit(p, r) <=> TxP!Submit(p, r)
         /\ Tx!Progress(p) <=> TxP!Progress(p)
         /\ Tx!Trouble(p) <=> TxP!Trouble(p)
<1> USE DEF Tx!committed, TxP!committed, Tx!private, TxP!private, Tx!Goto, TxP!Goto,
            Tx!Answer, TxP!Answer, Tx!Fail, TxP!Fail, Tx!NoEntries, TxP!NoEntries,
            Tx!Release, TxP!Release, Tx!InTx, TxP!InTx,
            Tx!Bigint, TxP!Bigint, Tx!CheckOn, TxP!CheckOn, Tx!CreateEntry, TxP!CreateEntry,
            Tx!AddAccountBalance, TxP!AddAccountBalance, Tx!First, TxP!First,
            Tx!Second, TxP!Second, Tx!DebitFirst, TxP!DebitFirst, Tx!Credit, TxP!Credit,
            Tx!Debit, TxP!Debit
<1>1. \A r : Tx!Submit(p, r) <=> TxP!Submit(p, r)
  BY DEF Tx!Submit, TxP!Submit
<1>2. Tx!Begin(p) <=> TxP!Begin(p)
  <2>1. Tx!Open = TxP!Open
    BY DEF Tx!Open, TxP!Open
  <2> QED
    BY <2>1 DEF Tx!Begin, TxP!Begin, Tx!Cardinality, TxP!Cardinality
<1>3. Tx!Check(p) <=> TxP!Check(p)
  BY DEF Tx!Check, TxP!Check
<1>4. Tx!CreateTransfer(p) <=> TxP!CreateTransfer(p)
  BY DEF Tx!CreateTransfer, TxP!CreateTransfer
<1>5. Tx!CreateFromEntry(p) <=> TxP!CreateFromEntry(p)
  BY DEF Tx!CreateFromEntry, TxP!CreateFromEntry
<1>6. Tx!CreateToEntry(p) <=> TxP!CreateToEntry(p)
  BY DEF Tx!CreateToEntry, TxP!CreateToEntry
<1>7. Tx!AddFirst(p) <=> TxP!AddFirst(p)
  BY DEF Tx!AddFirst, TxP!AddFirst
<1>8. Tx!AddSecond(p) <=> TxP!AddSecond(p)
  BY DEF Tx!AddSecond, TxP!AddSecond
<1>9. Tx!Commit(p) <=> TxP!Commit(p)
  BY DEF Tx!Commit, TxP!Commit
<1>10. Tx!Rollback(p) <=> TxP!Rollback(p)
  BY DEF Tx!Rollback, TxP!Rollback
<1>11. Tx!BeginFails(p) <=> TxP!BeginFails(p)
  BY DEF Tx!BeginFails, TxP!BeginFails
<1>12. Tx!CheckQueryFails(p) <=> TxP!CheckQueryFails(p)
  BY DEF Tx!CheckQueryFails, TxP!CheckQueryFails
<1>13. Tx!StatementFails(p) <=> TxP!StatementFails(p)
  BY DEF Tx!StatementFails, TxP!StatementFails
<1>14. Tx!Disconnect(p) <=> TxP!Disconnect(p)
  BY DEF Tx!Disconnect, TxP!Disconnect
<1> QED
  BY <1>1, <1>2, <1>3, <1>4, <1>5, <1>6, <1>7, <1>8, <1>9, <1>10, <1>11, <1>12, <1>13, <1>14
     DEF Tx!Progress, TxP!Progress, Tx!Trouble, TxP!Trouble

LEMMA InitInv == BankInit => BankInv
<1> SUFFICES ASSUME BankInit PROVE BankInv
  OBVIOUS
<1>1. IInv
  BY InitStep DEF BankInit
<1>2. TxP!Init
  BY DEF BankInit, Tx!Init, TxP!Init, Tx!NoEntries, TxP!NoEntries
<1>3. TxP!IInv
  BY <1>2, StoreAssumptions, TxP!InitIInv
<1> QED
  BY <1>1, <1>2, <1>3 DEF BankInv, LinkInv, BankInit, Init, TxP!Init, Tx!InTx
-----------------------------------------------------------------------------
(* A step of the crawler, or of the handler before its call of the store,  *)
(* is one of CreateTransfer, and the store has no part in it.              *)
LEMMA CrawlStep ==
  ASSUME Crawl, UNCHANGED inside
  PROVE  Next /\ UNCHANGED TxP!vars /\ step' = step
BY DEF Crawl, Truncate, Insert, CrawlDies, Next, store, handler, inside,
       TxP!vars, TxP!committed, TxP!private

LEMMA PrepareStep ==
  ASSUME BankInv, NEW p \in Posts, Prepare(p), UNCHANGED inside
  PROVE  Next /\ UNCHANGED TxP!vars /\ LinkInv'
<1>1. Next
  BY DEF Prepare, Next, Handle
<1>2. UNCHANGED TxP!vars
  BY DEF Prepare, Arrive, ValidAccount, GetReceiver, GetFromRate, GetToRate, GetExchangeRate,
         QueryFails, Die, store, inside, TxP!vars, TxP!committed, TxP!private
<1>3. /\ step[p] \notin {"called", "done"}
      /\ \E to \in {"bound", "sender", "receiver", "fromRate", "bothRates", "done"} :
           step' = [step EXCEPT ![p] = to]
  BY DEF Prepare, Arrive, ValidAccount, GetReceiver, GetFromRate, GetToRate, GetExchangeRate,
         QueryFails, Die, GoOn, Respond, Goto
<1>4. pc' = pc /\ step \in [Posts -> {"idle", "bound", "sender", "receiver", "fromRate",
                                     "bothRates", "called", "done"}]
  BY DEF BankInv, IInv, TypeOK, inside
<1> QED
  BY <1>1, <1>2, <1>3, <1>4 DEF BankInv, LinkInv

(* The call of the store: what the handler has checked and computed makes  *)
(* it a call TransferTx expects.                                           *)
LEMMA CallOfStore ==
  ASSUME BankInv, NEW p \in Posts, Call(p)
  PROVE  Next /\ TxP!Next /\ LinkInv'
<1>1. Next
  BY DEF Call, Next, Handle
<1>2. step[p] = "bothRates" /\ step' = [step EXCEPT ![p] = "called"]
  BY DEF Call, CallTransferTx, GoOn, Goto
<1>3. step \in [Posts -> {"idle", "bound", "sender", "receiver", "fromRate",
                          "bothRates", "called", "done"}]
  BY DEF BankInv, IInv, TypeOK
<1>4. arg'[p] \in TransferTxParams
  <2>1. IInv'
    BY NextStep, <1>1 DEF BankInv
  <2> QED
    BY <1>2, <1>3, <2>1 DEF IInv, AskedInv, Asked
<1>5. TxP!Submit(p, arg'[p])
  BY SameStatements DEF Call
<1>6. pc[p] = "idle" /\ pc' = [pc EXCEPT ![p] = "called"]
  BY <1>5 DEF TxP!Submit, TxP!Goto
<1>7. LinkInv'
  <2>1. pc \in [Posts -> TxP!PC]
    BY DEF BankInv, TxP!IInv, TxP!TypeOK
  <2> QED
    BY <1>2, <1>3, <1>6, <2>1 DEF BankInv, LinkInv
<1> QED
  BY <1>1, <1>4, <1>5, <1>7 DEF TxP!Next

(* The statements of the call: the last one is the return of TransferTx    *)
(* that the handler answers with, the others it does not see.              *)
LEMMA StatementOfStore ==
  ASSUME BankInv, NEW p \in Posts, RunStore(p)
  PROVE  [Next]_vars /\ TxP!Next /\ LinkInv'
<1>1. TxP!Progress(p) \/ TxP!Trouble(p)
  BY SameStatements DEF RunStore
<1>2. TxP!Next
  BY <1>1 DEF TxP!Next
<1>3. /\ pc[p] \in TxP!InTx \union {"called"} /\ reply[p] = "none"
      /\ \/ /\ \/ \E answer \in {"ok", "error"} : TxP!Abstract!Transfer(p, answer)
               \/ \E answer \in {"insufficient", "error"} : TxP!Abstract!Refuse(p, answer)
            /\ TxP!Goto(p, "done")
         \/ \E to \in TxP!InTx : TxP!Goto(p, to) /\ UNCHANGED TxP!Abstract!vars
  BY <1>1, StoreAssumptions, TxP!StatementAsLedger DEF BankInv
<1>4. step[p] = "called" /\ UNCHANGED currencies
  BY <1>3 DEF BankInv, LinkInv, RunStore, Tx!InTx, TxP!InTx
<1>5. reply \in [Posts -> {"none", "ok", "insufficient", "error"}] /\ pc \in [Posts -> TxP!PC]
      /\ step \in [Posts -> {"idle", "bound", "sender", "receiver", "fromRate",
                             "bothRates", "called", "done"}]
  BY DEF BankInv, IInv, TypeOK, TxP!IInv, TxP!TypeOK
<1>6. ASSUME NEW answer \in {"ok", "insufficient", "error"}, reply' = [reply EXCEPT ![p] = answer]
      PROVE  Respond(p, StatusOf(answer))
  <2>1. reply'[p] = answer /\ answer # reply[p]
    BY <1>3, <1>5, <1>6
  <2> QED
    BY <2>1 DEF RunStore
<1>7. ASSUME NEW answer \in {"ok", "error"}, TxP!Abstract!Transfer(p, answer)
      PROVE  TransferTxReturns(p)
  <2>1. Store!Transfer(p, answer)
    BY <1>7 DEF TxP!Abstract!Transfer, Store!Transfer, TxP!Abstract!Pending, Store!Pending,
                TxP!Abstract!Effect, Store!Effect
  <2>2. Respond(p, StatusOf(answer))
    BY <1>6, <2>1 DEF Store!Transfer
  <2> QED
    BY <1>4, <2>1, <2>2 DEF TransferTxReturns
<1>8. ASSUME NEW answer \in {"insufficient", "error"}, TxP!Abstract!Refuse(p, answer)
      PROVE  TransferTxReturns(p)
  <2>1. Store!Refuse(p, answer)
    BY <1>8 DEF TxP!Abstract!Refuse, Store!Refuse, TxP!Abstract!Pending, Store!Pending
  <2>2. Respond(p, StatusOf(answer))
    BY <1>6, <2>1 DEF Store!Refuse
  <2> QED
    BY <1>4, <2>1, <2>2 DEF TransferTxReturns
<1>9. CASE TxP!Goto(p, "done") /\ TransferTxReturns(p)
  <2>1. step' = [step EXCEPT ![p] = "done"] /\ pc' = [pc EXCEPT ![p] = "done"]
    BY <1>9 DEF TransferTxReturns, Respond, Goto, TxP!Goto
  <2>2. LinkInv'
    BY <1>4, <1>5, <2>1 DEF BankInv, LinkInv, Tx!InTx
  <2> QED
    BY <1>2, <1>9, <2>2 DEF Next, Handle
<1>10. CASE \E to \in TxP!InTx : TxP!Goto(p, to) /\ UNCHANGED TxP!Abstract!vars
  <2>1. UNCHANGED store
    BY <1>10 DEF TxP!Abstract!vars, store
  <2>2. UNCHANGED handler
    BY <2>1 DEF RunStore, store
  <2>3. LinkInv'
    BY <1>4, <1>5, <1>10, <2>2 DEF BankInv, LinkInv, TxP!Goto, handler, Tx!InTx, TxP!InTx
  <2> QED
    BY <1>2, <1>4, <2>1, <2>2, <2>3 DEF vars
<1> QED
  BY <1>3, <1>7, <1>8, <1>9, <1>10

(* BankInv is an inductive invariant, and every step of the bank is a step *)
(* of CreateTransfer or one it does not see, and likewise of TransferTx.   *)
LEMMA BankStep ==
  BankInv /\ [BankNext]_bankVars => [Next]_vars /\ [TxP!Next]_(TxP!vars) /\ BankInv'
<1> SUFFICES ASSUME BankInv, [BankNext]_bankVars
             PROVE  [Next]_vars /\ [TxP!Next]_(TxP!vars) /\ BankInv'
  OBVIOUS
<1>1. [Next]_vars /\ [TxP!Next]_(TxP!vars) /\ LinkInv'
  <2>1. CASE Crawl /\ UNCHANGED inside
    BY <2>1, CrawlStep DEF BankInv, LinkInv, inside
  <2>2. ASSUME NEW p \in Posts, Prepare(p) /\ UNCHANGED inside PROVE <1>1
    BY <2>2, PrepareStep
  <2>3. ASSUME NEW p \in Posts, Call(p) PROVE <1>1
    BY <2>3, CallOfStore
  <2>4. ASSUME NEW p \in Posts, RunStore(p) PROVE <1>1
    BY <2>4, StatementOfStore
  <2>5. CASE UNCHANGED bankVars
    BY <2>5 DEF bankVars, vars, store, handler, inside, TxP!vars, TxP!committed, TxP!private,
                BankInv, LinkInv
  <2> QED
    BY <2>1, <2>2, <2>3, <2>4, <2>5 DEF BankNext
<1>2. IInv'
  BY <1>1, NextStep DEF BankInv
<1>3. TxP!IInv'
  BY <1>1, StoreAssumptions, TxP!StepIInv DEF BankInv
<1> QED
  BY <1>1, <1>2, <1>3 DEF BankInv

(* What the two halves know of each other: the handler has checked what    *)
(* the store assumes of a call, conversion included, and waits while the   *)
(* call is under way (createTransfer calls server.store.TransferTx).       *)
THEOREM BankInvariance == BankSpec => []BankInv
BY InitInv, BankStep, PTL DEF BankSpec

(* The handler over the statements of the store is the handler over the    *)
(* ledger: what is proved of CreateTransfer holds of the two together      *)
(* (createTransfer waits for server.store.TransferTx and answers with what *)
(* it returns).                                                            *)
THEOREM BankImplementsCreateTransfer == BankSpec => ImplementsCreateTransfer
<1>1. BankInit => Init
  BY DEF BankInit
<1> QED
  BY <1>1, BankStep, BankInvariance, PTL DEF BankSpec, ImplementsCreateTransfer, Spec

(* And the calls the handler makes are calls TransferTx is written for:    *)
(* both accounts are there, the debit is positive, the credit fits a       *)
(* bigint (the binding, validAccount and currencyExchange).                *)
THEOREM BankImplementsTransferTx == BankSpec => Tx!Spec
<1>1. BankInit => Tx!Init
  BY DEF BankInit
<1>2. [TxP!Next]_(TxP!vars) => [Tx!Next]_(Tx!vars)
  BY SameStatements DEF TxP!Next, Tx!Next, TxP!vars, Tx!vars, TxP!committed, Tx!committed,
                        TxP!private, Tx!private
<1> QED
  BY <1>1, <1>2, BankStep, BankInvariance, PTL DEF BankSpec, Tx!Spec

(* What the clients of createTransfer are told is true of the tables that  *)
(* the statements of TransferTx leave, nobody's money moves but on his own *)
(* request, and at the rates of one crawl a transfer gains no more than    *)
(* three roundings of float64 do.                                          *)
THEOREM BankKeepsItsWord == BankSpec => [](AnswerMatchesBooks /\ PayerAsked /\ FairExchange)
<1>1. BankSpec => Spec
  BY BankImplementsCreateTransfer DEF ImplementsCreateTransfer
<1> QED
  BY <1>1, AnswersAreTrue, PayersAsked, ExchangeIsFair, PTL

(* Whatever the requests and the crawler do, the books of the store        *)
(* balance and no two of its calls wait for each other (addMoney).         *)
THEOREM BankBooksBalance == BankSpec => [](Tx!BooksBalance /\ Tx!NoDeadlock)
<1>1. TxP!Spec => []TxP!BooksBalance
  BY StoreAssumptions, TxP!BooksAlwaysBalance
<1>2. TxP!Spec => []TxP!NoDeadlock
  BY StoreAssumptions, TxP!NoCallsDeadlock
<1>3. TxP!BooksBalance => Tx!BooksBalance
  BY DEF TxP!BooksBalance, Tx!BooksBalance
<1>4. TxP!NoDeadlock => Tx!NoDeadlock
  <2>1. \A t, u \in Posts : Tx!Blocked(t, u) => TxP!Blocked(t, u)
    <3>1. Tx!Open = TxP!Open
      BY DEF Tx!Open, TxP!Open, Tx!InTx, TxP!InTx
    <3> QED
      BY <3>1 DEF Tx!Blocked, TxP!Blocked, Tx!Awaits, TxP!Awaits, Tx!First, TxP!First,
         Tx!Second, TxP!Second, Tx!DebitFirst, TxP!DebitFirst, Tx!Credit, TxP!Credit,
         Tx!Debit, TxP!Debit, Tx!Cardinality, TxP!Cardinality
  <2> QED
    BY <2>1 DEF TxP!NoDeadlock, Tx!NoDeadlock
<1>5. BankSpec => TxP!Spec
  <2>1. Tx!Init => TxP!Init
    BY DEF Tx!Init, TxP!Init, Tx!NoEntries, TxP!NoEntries
  <2> QED
    BY <2>1, BankStep, BankInvariance, PTL DEF BankSpec, BankInit, TxP!Spec
<1> QED
  BY <1>1, <1>2, <1>3, <1>4, <1>5, PTL
=============================================================================
