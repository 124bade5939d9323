----------------------------- MODULE TransferTx -----------------------------
(***************************************************************************)
(* SQLStore.TransferTx and execTx (db/sqlc/store.go), one action per SQL   *)
(* statement, run by several calls at once against one PostgreSQL server   *)
(* at its default isolation level, READ COMMITTED:                         *)
(*   - a SELECT without FOR UPDATE sees the last committed version and     *)
(*     takes no lock;                                                      *)
(*   - an UPDATE takes the row's lock, waiting for the transaction that    *)
(*     holds it, and then works on the version committed last; locks are   *)
(*     held until COMMIT or ROLLBACK;                                      *)
(*   - what a transaction wrote is invisible to the others until COMMIT;   *)
(*   - the foreign-key checks of the INSERTs take FOR KEY SHARE locks,     *)
(*     which do not conflict with an UPDATE of a non-key column.           *)
(*                                                                         *)
(* Failures: any statement may fail, ROLLBACK may fail, the answer of a    *)
(* COMMIT that took effect may be lost, and a connection may drop at any   *)
(* time, on which the server discards the transaction.                     *)
(***************************************************************************)
EXTENDS Integers, FiniteSets

CONSTANTS
  Calls,        \* calls of TransferTx, each made once
  Accounts,     \* ids of the rows of table accounts
  Requests,     \* the arguments a call may be made with
  InitBalance,  \* balance of every account at the start
  MaxBigint,    \* largest value of a bigint column, 2^63 - 1 in the server
  MaxConns,     \* size of the connection pool
  NoCall,       \* the holder of a free row lock
  NoRequest     \* the argument of a call not made yet

Bigint == -MaxBigint - 1 .. MaxBigint

ASSUME MaxBigintAssumption == MaxBigint \in Nat
ASSUME AccountsAssumption == Accounts \subseteq Nat
\* toAmount is what currencyExchange makes of a positive amount: it may be 0, and
\* when the product does not fit an int64, it is negative on some machines.
ASSUME RequestsAssumption ==
  Requests \subseteq [from : Nat, to : Nat, fromAmount : Nat \ {0}, toAmount : Bigint]
ASSUME InitBalanceAssumption == InitBalance \in [Accounts -> Bigint]
ASSUME MaxConnsAssumption == MaxConns \in Nat \ {0}
ASSUME NoCallAssumption == NoCall \notin Calls
ASSUME NoRequestAssumption == NoRequest \notin Requests

VARIABLES
  balance,    \* accounts.balance, as committed
  posted,     \* sum of the committed entries of every account
  transfers,  \* the calls with a committed row in table transfers
  lock,       \* holder of every account's row lock
  ver,        \* the lock holder's uncommitted balance; 0 when the row is free
  pend,       \* per call, the sum per account of its uncommitted entries
  pc,         \* how far every call has come
  arg,        \* argument of every call
  seen,       \* balance that the check of every call read
  cause,      \* the error fn returned, for a call that rolls back
  reply       \* answer to every call, "none" before there is one

committed == <<balance, posted, transfers>>
private == <<lock, ver, pend>>
vars == <<committed, private, pc, arg, seen, cause, reply>>

(* The states of a call, named for the statement that ran last.            *)
InTx == {"begun", "checked", "transferRow", "fromEntryRow", "toEntryRow",
         "firstAdded", "secondAdded", "rollback"}
PC == {"idle", "called", "done"} \union InTx
Answers == {"ok", "insufficient", "error"}

NoEntries == [a \in Accounts |-> 0]
Open == {t \in Calls : pc[t] \in InTx}

(* The two AddAccountBalance of addMoney, in the order TransferTx passes   *)
(* them: by account id, so that calls meeting on two rows meet in order.   *)
Credit(r) == [id |-> r.to, amount |-> r.toAmount]
Debit(r) == [id |-> r.from, amount |-> -r.fromAmount]
SlipSenderFirst(r) == TRUE  \* a slip: debit first, whatever the ids
DebitFirst(r) == r.from < r.to
First(r) == IF DebitFirst(r) THEN Debit(r) ELSE Credit(r)
Second(r) == IF DebitFirst(r) THEN Credit(r) ELSE Debit(r)

Init ==
  /\ balance = InitBalance
  /\ posted = NoEntries
  /\ transfers = {}
  /\ lock = [a \in Accounts |-> NoCall]
  /\ ver = [a \in Accounts |-> 0]
  /\ pend = [t \in Calls |-> NoEntries]
  /\ pc = [t \in Calls |-> "idle"]
  /\ arg = [t \in Calls |-> NoRequest]
  /\ seen = [t \in Calls |-> 0]
  /\ cause = [t \in Calls |-> "none"]
  /\ reply = [t \in Calls |-> "none"]

-----------------------------------------------------------------------------
(* Moves of a call that several statements share.                          *)
Goto(t, to) == pc' = [pc EXCEPT ![t] = to]

Answer(t, answer) ==
  /\ Goto(t, "done")
  /\ reply' = [reply EXCEPT ![t] = answer]

(* fn returns an error: execTx goes on to tx.Rollback.                     *)
Fail(t, err) ==
  /\ Goto(t, "rollback")
  /\ cause' = [cause EXCEPT ![t] = err]

(* The transaction ends: its rows are released, its private writes go.     *)
Release(t) ==
  /\ lock' = [a \in Accounts |-> IF lock[a] = t THEN NoCall ELSE lock[a]]
  /\ ver' = [a \in Accounts |-> IF lock[a] = t THEN 0 ELSE ver[a]]
  /\ pend' = [pend EXCEPT ![t] = NoEntries]

-----------------------------------------------------------------------------
Submit(t, r) ==
  /\ pc[t] = "idle"
  /\ arg' = [arg EXCEPT ![t] = r]
  /\ Goto(t, "called")
  /\ UNCHANGED <<committed, private, seen, cause, reply>>

(* connPool.Begin waits for a free connection of the pool.                 *)
Begin(t) ==
  /\ pc[t] = "called"
  /\ Cardinality(Open) < MaxConns
  /\ Goto(t, "begun")
  /\ UNCHANGED <<committed, private, arg, seen, cause, reply>>

BeginFails(t) ==
  /\ pc[t] = "called"
  /\ Answer(t, "error")
  /\ UNCHANGED <<committed, private, arg, seen, cause>>

(* The check reads the committed row, no lock taken.  The error of         *)
(* GetAccount is dropped and the zero Account it comes with is compared:   *)
(* a missing account, or any failed query, counts as a balance of 0.       *)
SlipCheckOn(t, bal) ==      \* a slip: compares the amount of the other currency
  /\ pc[t] = "begun"
  /\ seen' = [seen EXCEPT ![t] = bal]
  /\ IF bal < arg[t].toAmount
       THEN Fail(t, "insufficient")
       ELSE Goto(t, "checked") /\ UNCHANGED cause
  /\ UNCHANGED <<committed, private, arg, reply>>

CheckOn(t, bal) ==
  /\ pc[t] = "begun"
  /\ seen' = [seen EXCEPT ![t] = bal]
  /\ IF bal < arg[t].fromAmount
       THEN Fail(t, "insufficient")
       ELSE Goto(t, "checked") /\ UNCHANGED cause
  /\ UNCHANGED <<committed, private, arg, reply>>

Check(t) ==
  CheckOn(t, IF arg[t].from \in Accounts THEN balance[arg[t].from] ELSE 0)

CheckQueryFails(t) == CheckOn(t, 0)

(* INSERT INTO transfers; both its foreign keys name accounts.             *)
SlipCreateTransfer(t) ==    \* a slip: the INSERT runs on the pool, outside tx
  /\ pc[t] = "checked"
  /\ IF {arg[t].from, arg[t].to} \subseteq Accounts
       THEN Goto(t, "transferRow") /\ transfers' = transfers \union {t} /\ UNCHANGED cause
       ELSE Fail(t, "error") /\ UNCHANGED transfers
  /\ UNCHANGED <<balance, posted, private, arg, seen, reply>>

CreateTransfer(t) ==
  /\ pc[t] = "checked"
  /\ IF {arg[t].from, arg[t].to} \subseteq Accounts
       THEN Goto(t, "transferRow") /\ UNCHANGED cause
       ELSE Fail(t, "error")
  /\ UNCHANGED <<committed, private, arg, seen, reply>>

(* INSERT INTO entries.                                                    *)
CreateEntry(t, here, id, amount, next) ==
  /\ pc[t] = here
  /\ pend' = [pend EXCEPT ![t][id] = @ + amount]
  /\ Goto(t, next)
  /\ UNCHANGED <<committed, lock, ver, arg, seen, cause, reply>>

CreateFromEntry(t) ==
  CreateEntry(t, "transferRow", arg[t].from, -arg[t].fromAmount, "fromEntryRow")

CreateToEntry(t) ==
  CreateEntry(t, "fromEntryRow", arg[t].to, arg[t].toAmount, "toEntryRow")

(* UPDATE accounts SET balance = balance + amount WHERE id = id: waits for *)
(* the row, then adds to the newest version this transaction may see; a    *)
(* sum that does not fit the column is an error.                           *)
SlipAddAccountBalance(t, here, up, next) ==  \* a slip: SET balance = <value the check read> + amount
  /\ pc[t] = here
  /\ lock[up.id] \in {NoCall, t}
  /\ lock' = [lock EXCEPT ![up.id] = t]
  /\ ver' = [ver EXCEPT ![up.id] = up.amount +
               (IF up.id = arg[t].from THEN seen[t]
                ELSE IF lock[up.id] = t THEN ver[up.id] ELSE balance[up.id])]
  /\ Goto(t, next)
  /\ UNCHANGED <<committed, pend, arg, seen, cause, reply>>

AddAccountBalance(t, here, up, next) ==
  /\ pc[t] = here
  /\ lock[up.id] \in {NoCall, t}
  /\ LET sum == (IF lock[up.id] = t THEN ver[up.id] ELSE balance[up.id]) + up.amount
     IN  IF sum \in Bigint
           THEN /\ lock' = [lock EXCEPT ![up.id] = t]
                /\ ver' = [ver EXCEPT ![up.id] = sum]
                /\ Goto(t, next)
                /\ UNCHANGED cause
           ELSE Fail(t, "error") /\ UNCHANGED <<lock, ver>>
  /\ UNCHANGED <<committed, pend, arg, seen, reply>>

AddFirst(t) == AddAccountBalance(t, "toEntryRow", First(arg[t]), "firstAdded")
AddSecond(t) == AddAccountBalance(t, "firstAdded", Second(arg[t]), "secondAdded")

(* tx.Commit: all the writes at once.  The answer of the server may be     *)
(* lost on the way, and then the caller is told of an error.               *)
Commit(t) ==
  /\ pc[t] = "secondAdded"
  /\ balance' = [a \in Accounts |-> IF lock[a] = t THEN ver[a] ELSE balance[a]]
  /\ posted' = [a \in Accounts |-> posted[a] + pend[t][a]]
  /\ transfers' = transfers \union {t}
  /\ Release(t)
  /\ \E answer \in {"ok", "error"} : Answer(t, answer)
  /\ UNCHANGED <<arg, seen, cause>>

(* tx.Rollback; when it fails too, both errors are put in a new one that   *)
(* errors.Is no longer finds ErrInsufficientBalance in.                    *)
SlipRollback(t) ==          \* a slip: the error path returns without tx.Rollback
  /\ pc[t] = "rollback"
  /\ Answer(t, cause[t])
  /\ UNCHANGED <<committed, private, arg, seen, cause>>

Rollback(t) ==
  /\ pc[t] = "rollback"
  /\ Release(t)
  /\ \E answer \in {cause[t], "error"} : Answer(t, answer)
  /\ UNCHANGED <<committed, arg, seen, cause>>

(* A statement after the check returns an error, whatever the reason; so   *)
(* may one that waits for a row (lock timeout, cancelled request).         *)
StatementFails(t) ==
  /\ pc[t] \in {"checked", "transferRow", "fromEntryRow", "toEntryRow", "firstAdded"}
  /\ Fail(t, "error")
  /\ UNCHANGED <<committed, private, arg, seen, reply>>

(* The connection drops: the server discards the transaction.              *)
SlipDisconnect(t) ==        \* a slip: execTx drops the error of tx.Commit
  /\ pc[t] \in InTx
  /\ Release(t)
  /\ Answer(t, IF pc[t] = "secondAdded" THEN "ok" ELSE "error")
  /\ UNCHANGED <<committed, arg, seen, cause>>

Disconnect(t) ==
  /\ pc[t] \in InTx
  /\ Release(t)
  /\ Answer(t, "error")
  /\ UNCHANGED <<committed, arg, seen, cause>>

(* What a call does when nothing fails ...                                 *)
Progress(t) ==
  \/ Begin(t)
  \/ Check(t)
  \/ CreateTransfer(t)
  \/ CreateFromEntry(t)
  \/ CreateToEntry(t)
  \/ AddFirst(t)
  \/ AddSecond(t)
  \/ Commit(t)
  \/ Rollback(t)

(* ... and what may go wrong.                                              *)
Trouble(t) ==
  \/ BeginFails(t)
  \/ CheckQueryFails(t)
  \/ StatementFails(t)
  \/ Disconnect(t)

Next ==
  \E t \in Calls :
    \/ \E r \in Requests : Submit(t, r)
    \/ Progress(t)
    \/ Trouble(t)

Spec == Init /\ [][Next]_vars

(* The server runs the statements it is sent, and execTx sends the next    *)
(* one as soon as it has the answer.  Nothing is assumed of failures, in   *)
(* particular not that one ends a wait for a row, nor that a call is made. *)
Fairness == \A t \in Calls : WF_vars(Progress(t))
FairSpec == Spec /\ Fairness

-----------------------------------------------------------------------------
(* Properties.  The operators named Slip... above are not part of the      *)
(* model: each is a mistake the code could have made, kept to see that the *)
(* properties below notice it.                                             *)

(* Every variable keeps its type, and every balance fits its column.       *)
TypeOK ==
  /\ balance \in [Accounts -> Bigint]
  /\ posted \in [Accounts -> Int]
  /\ transfers \subseteq Calls
  /\ lock \in [Accounts -> Calls \union {NoCall}]
  /\ ver \in [Accounts -> Bigint]
  /\ pend \in [Calls -> [Accounts -> Int]]
  /\ pc \in [Calls -> PC]
  /\ arg \in [Calls -> Requests \union {NoRequest}]
  /\ seen \in [Calls -> Int]
  /\ cause \in [Calls -> {"none", "insufficient", "error"}]
  /\ reply \in [Calls -> Answers \union {"none"}]

(* The balance of an account is what it began with plus its entries: no    *)
(* update of addMoney is lost to a concurrent one, and entries and         *)
(* balances are written together or not at all.                            *)
BooksBalance == \A a \in Accounts : balance[a] = InitBalance[a] + posted[a]

(* What a caller is told is true: after a nil error the transfer is        *)
(* booked, after ErrInsufficientBalance it is not and never will be.       *)
ReplyMatchesEffect ==
  \A t \in Calls :
    /\ reply[t] = "ok" => t \in transfers
    /\ reply[t] = "insufficient" => t \notin transfers

(* A transfer that takes the sender below zero was checked against a       *)
(* balance that had changed by the time it committed: sequential calls     *)
(* cannot overdraw, only the missing lock of the check makes it possible.  *)
(* (A negative credit is a debit of the receiver that nothing checks.)     *)
OverdraftOnlyOnStaleRead ==
  [][\A t \in transfers' \ transfers :
       balance'[arg[t].from] < 0 /\ arg[t].toAmount >= 0
         => seen[t] # balance[arg[t].from]]_vars

(* The row a call would update next, if an update is its next statement.   *)
Awaits(t, a) ==
  \/ pc[t] = "toEntryRow" /\ a = First(arg[t]).id
  \/ pc[t] = "firstAdded" /\ a = Second(arg[t]).id

(* Blocked(t, u): call t waits for a row that call u holds, or for a       *)
(* connection while u has one of a pool that is all in use.                *)
Blocked(t, u) ==
  /\ t # u
  /\ \/ \E a \in Accounts : Awaits(t, a) /\ lock[a] = u
     \/ pc[t] = "called" /\ Cardinality(Open) >= MaxConns /\ u \in Open

(* No set of calls waits for rows and connections held within the set: the *)
(* updates come in the order of the account ids, so PostgreSQL never has a *)
(* deadlock to break, and whoever waits for a connection has no row yet.   *)
NoDeadlock ==
  \A S \in (SUBSET Calls) \ {{}} : \E t \in S : \A u \in S : ~Blocked(t, u)

(* Why rows cannot close a circle: a call that waits for a row holds only  *)
(* rows of smaller ids.                                                    *)
LockOrder ==
  \A t, u \in Calls : \A a, b \in Accounts :
    Blocked(t, u) /\ Awaits(t, a) /\ lock[b] = t => b < a

(* Every call that is made is answered, whatever the others do: nobody     *)
(* waits for ever for a row or for a connection of the pool.               *)
EveryCallAnswered == \A t \in Calls : pc[t] = "called" ~> reply[t] # "none"

(* The detailed steps implement the ledger: all of a transfer happens in   *)
(* its Commit, and every other step is a stutter or an answer.             *)
Abstract == INSTANCE Ledger
ImplementsLedger == Abstract!Spec

(* "your account balance is insufficient" (db/sqlc/error.go) is the        *)
(* promise that a transfer is only made out of money the account has.      *)
NoOverdraft ==
  (\A a \in Accounts : InitBalance[a] >= 0) => \A a \in Accounts : balance[a] >= 0

(* The same sentence, told to a caller: the error is raised only when the  *)
(* committed balance is below the amount at that moment.                   *)
InsufficientIsTruthful ==
  [][\A t \in Calls :
       cause[t] = "none" /\ cause'[t] = "insufficient" /\ arg[t].from \in Accounts
         => balance[arg[t].from] < arg[t].fromAmount]_vars
=============================================================================
