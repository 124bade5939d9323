-------------------------- MODULE TransferTxProofs --------------------------
(***************************************************************************)
(* Proofs about TransferTx, for any number of calls, accounts, requests    *)
(* and connections.  IInv below says, for every statement a call may have  *)
(* reached, which rows it holds, what its uncommitted versions and entries *)
(* are worth, and what is known of its argument; each property of          *)
(* TransferTx proved here is a consequence of it.                          *)
(***************************************************************************)
EXTENDS TransferTx, FiniteSetTheorems, TLAPS

Effect(r, a) == Abstract!Effect(r, a)

(* The states of a call after its foreign keys were checked.               *)
Writing == {"transferRow", "fromEntryRow", "toEntryRow", "firstAdded", "secondAdded"}

ArgInv ==
  \A t \in Calls :
    /\ pc[t] = "idle" => arg[t] = NoRequest
    /\ pc[t] # "idle" => arg[t] \in Requests
    /\ pc[t] \in Writing => arg[t].from \in Accounts /\ arg[t].to \in Accounts
    /\ pc[t] \in Writing \union {"checked"} => seen[t] >= arg[t].fromAmount

(* Rows are held from an update to the end of the transaction.             *)
LockInv ==
  \A t \in Calls : \A a \in Accounts :
    /\ lock[a] = t => pc[t] \in {"firstAdded", "secondAdded", "rollback"}
    /\ pc[t] = "firstAdded" => (lock[a] = t <=> a = First(arg[t]).id)
    /\ pc[t] = "secondAdded" =>
         (lock[a] = t <=> a \in {First(arg[t]).id, Second(arg[t]).id})

(* A held row's version is its committed balance plus the holder's own     *)
(* updates: nobody else can commit a change of it meanwhile.               *)
VerInv ==
  \A t \in Calls : \A a \in Accounts :
    lock[a] = t =>
      /\ pc[t] = "firstAdded" => ver[a] = balance[a] + First(arg[t]).amount
      /\ pc[t] = "secondAdded" => ver[a] = balance[a] + Effect(arg[t], a)

PendInv ==
  \A t \in Calls : \A a \in Accounts :
    /\ pc[t] \in {"idle", "called", "begun", "checked", "transferRow", "done"}
         => pend[t][a] = 0
    /\ pc[t] = "fromEntryRow" =>
         pend[t][a] = IF a = arg[t].from THEN -arg[t].fromAmount ELSE 0
    /\ pc[t] \in {"toEntryRow", "firstAdded", "secondAdded"} =>
         pend[t][a] = Effect(arg[t], a)

ReplyInv ==
  \A t \in Calls :
    /\ pc[t] = "done" <=> reply[t] # "none"
    /\ pc[t] = "rollback" => cause[t] \in {"insufficient", "error"}
    /\ t \in transfers => pc[t] = "done"

IInv ==
  /\ TypeOK
  /\ ArgInv
  /\ LockInv
  /\ VerInv
  /\ PendInv
  /\ ReplyInv
  /\ BooksBalance
  /\ ReplyMatchesEffect

-----------------------------------------------------------------------------
USE DEF committed, private, vars, Goto, Answer, Fail, Release

(* The width of the column is a set of integers, and 0 fits it.           *)
LEMMA BigintFacts == Bigint \subseteq Int /\ 0 \in Bigint
BY MaxBigintAssumption DEF Bigint

(* What the assumptions say of a single request and of the column width.   *)
LEMMA RequestType ==
  ASSUME NEW r \in Requests
  PROVE  /\ r.from \in Nat
         /\ r.to \in Nat
         /\ r.fromAmount \in Nat \ {0}
         /\ r.toAmount \in Int
BY RequestsAssumption, BigintFacts

(* The two updates of a call touch its two ends, and add up to its effect. *)
LEMMA UpdateOrder ==
  ASSUME NEW r \in Requests
  PROVE  /\ {First(r).id, Second(r).id} = {r.from, r.to}
         /\ First(r).id <= Second(r).id
         /\ First(r).id \in Nat /\ Second(r).id \in Nat
         /\ First(r).amount \in Int /\ Second(r).amount \in Int
BY RequestType DEF First, Second, DebitFirst, Debit, Credit

LEMMA EffectOfUpdates ==
  ASSUME NEW r \in Requests, NEW a
  PROVE  Effect(r, a) = (IF a = First(r).id THEN First(r).amount ELSE 0)
                      + (IF a = Second(r).id THEN Second(r).amount ELSE 0)
BY RequestType DEF First, Second, DebitFirst, Debit, Credit, Effect, Abstract!Effect

(* One more entry keeps the sums of entries what they are, and elsewhere   *)
(* the same.                                                               *)
LEMMA PendUpdate ==
  ASSUME NEW p \in [Calls -> [Accounts -> Int]], NEW t \in Calls, NEW id,
         NEW amount \in Int,
         NEW q, q = [p EXCEPT ![t][id] = @ + amount]
  PROVE  /\ q \in [Calls -> [Accounts -> Int]]
         /\ \A u \in Calls : \A a \in Accounts :
              q[u][a] = IF u = t /\ a = id THEN p[u][a] + amount ELSE p[u][a]
<1> DEFINE row == [a \in Accounts |-> IF a = id THEN p[t][a] + amount ELSE p[t][a]]
<1>1. p[t] \in [Accounts -> Int]
  OBVIOUS
<1>2. [p[t] EXCEPT ![id] = p[t][id] + amount] = row
  BY <1>1
<1>3. q = [u \in Calls |-> IF u = t THEN row ELSE p[u]]
  BY <1>2
<1>4. row \in [Accounts -> Int]
  BY <1>1
<1>5. \A a \in Accounts : row[a] = IF a = id THEN p[t][a] + amount ELSE p[t][a]
  OBVIOUS
<1> HIDE DEF row
<1>6. \A u \in Calls : q[u] = IF u = t THEN row ELSE p[u]
  BY <1>3
<1>7. q \in [Calls -> [Accounts -> Int]]
  BY <1>3, <1>4
<1> QED
  BY <1>5, <1>6, <1>7

(* An INSERT INTO entries keeps the types.                                 *)
LEMMA EntryType ==
  ASSUME TypeOK, NEW t \in Calls, NEW here, NEW id, NEW amount \in Int, NEW next \in PC,
         CreateEntry(t, here, id, amount, next)
  PROVE  TypeOK'
<1> DEFINE row == [pend[t] EXCEPT ![id] = pend[t][id] + amount]
<1>1. pend' = [pend EXCEPT ![t] = row]
  BY DEF CreateEntry
<1>2. row \in [Accounts -> Int]
  <2>1. pend[t] \in [Accounts -> Int]
    BY DEF TypeOK
  <2>2. id \in Accounts => pend[t][id] + amount \in Int
    BY <2>1
  <2> QED
    BY <2>1, <2>2
<1> HIDE DEF row
<1>3. pend' \in [Calls -> [Accounts -> Int]]
  BY <1>1, <1>2 DEF TypeOK
<1>4. pc' \in [Calls -> PC]
  BY DEF TypeOK, CreateEntry
<1> QED
  BY <1>3, <1>4 DEF TypeOK, CreateEntry

(* An UPDATE of a balance keeps the types.                                 *)
LEMMA AddType ==
  ASSUME TypeOK, NEW t \in Calls, NEW here, NEW up, NEW next \in PC,
         AddAccountBalance(t, here, up, next)
  PROVE  TypeOK'
<1> DEFINE sum == (IF lock[up.id] = t THEN ver[up.id] ELSE balance[up.id]) + up.amount
<1> HIDE DEF sum
<1>1. CASE sum \in Bigint
  <2>1. /\ lock' = [lock EXCEPT ![up.id] = t]
        /\ ver' = [ver EXCEPT ![up.id] = sum]
        /\ pc' = [pc EXCEPT ![t] = next]
        /\ UNCHANGED <<balance, posted, transfers, pend, arg, seen, cause, reply>>
    BY <1>1 DEF AddAccountBalance, sum
  <2>2. lock' \in [Accounts -> Calls \union {NoCall}]
    BY <2>1 DEF TypeOK
  <2>3. ver' \in [Accounts -> Bigint]
    BY <2>1, <1>1 DEF TypeOK
  <2>4. pc' \in [Calls -> PC]
    BY <2>1 DEF TypeOK
  <2> QED
    BY <2>1, <2>2, <2>3, <2>4 DEF TypeOK
<1>2. CASE sum \notin Bigint
  <2>1. /\ pc' = [pc EXCEPT ![t] = "rollback"]
        /\ cause' = [cause EXCEPT ![t] = "error"]
        /\ UNCHANGED <<balance, posted, transfers, lock, ver, pend, arg, seen, reply>>
    BY <1>2 DEF AddAccountBalance, sum
  <2>2. pc' \in [Calls -> PC]
    BY <2>1 DEF TypeOK, PC, InTx
  <2>3. cause' \in [Calls -> {"none", "insufficient", "error"}]
    BY <2>1 DEF TypeOK
  <2> QED
    BY <2>1, <2>2, <2>3 DEF TypeOK
<1> QED
  BY <1>1, <1>2

(* Type correctness of every step.                                         *)
LEMMA TypeStep == TypeOK /\ ArgInv /\ [Next]_vars => TypeOK'
<1> SUFFICES ASSUME TypeOK, ArgInv, [Next]_vars PROVE TypeOK'
  OBVIOUS
<1> USE BigintFacts DEF TypeOK
<1>1. CASE UNCHANGED vars
  BY <1>1
<1>2. ASSUME NEW t \in Calls, NEW r \in Requests, Submit(t, r) PROVE TypeOK'
  BY <1>2 DEF Submit, PC
<1>3. ASSUME NEW t \in Calls, Begin(t) PROVE TypeOK'
  BY <1>3 DEF Begin, PC, InTx
<1>4. ASSUME NEW t \in Calls, Check(t) PROVE TypeOK'
  BY <1>4 DEF Check, CheckOn, PC, InTx
<1>5. ASSUME NEW t \in Calls, CreateTransfer(t) PROVE TypeOK'
  BY <1>5 DEF CreateTransfer, PC, InTx
<1>6. ASSUME NEW t \in Calls, CreateFromEntry(t) PROVE TypeOK'
  <2>1. arg[t] \in Requests
    BY <1>6 DEF CreateFromEntry, CreateEntry, ArgInv
  <2>2. -arg[t].fromAmount \in Int
    BY <2>1, RequestType
  <2>3. "fromEntryRow" \in PC
    BY DEF PC, InTx
  <2> QED
    BY <1>6, <2>2, <2>3, EntryType DEF CreateFromEntry
<1>7. ASSUME NEW t \in Calls, CreateToEntry(t) PROVE TypeOK'
  <2>1. arg[t] \in Requests
    BY <1>7 DEF CreateToEntry, CreateEntry, ArgInv
  <2>2. arg[t].toAmount \in Int
    BY <2>1, RequestType
  <2>3. "toEntryRow" \in PC
    BY DEF PC, InTx
  <2> QED
    BY <1>7, <2>2, <2>3, EntryType DEF CreateToEntry
<1>8. ASSUME NEW t \in Calls, AddFirst(t) PROVE TypeOK'
  <2>1. "firstAdded" \in PC
    BY DEF PC, InTx
  <2> QED
    BY <1>8, <2>1, AddType DEF AddFirst
<1>9. ASSUME NEW t \in Calls, AddSecond(t) PROVE TypeOK'
  <2>1. "secondAdded" \in PC
    BY DEF PC, InTx
  <2> QED
    BY <1>9, <2>1, AddType DEF AddSecond
<1>10. ASSUME NEW t \in Calls, Commit(t) PROVE TypeOK'
  BY <1>10 DEF Commit, PC, InTx, Answers, NoEntries
<1>11. ASSUME NEW t \in Calls, Rollback(t) PROVE TypeOK'
  BY <1>11 DEF Rollback, PC, InTx, Answers, NoEntries
<1>12. ASSUME NEW t \in Calls, BeginFails(t) PROVE TypeOK'
  BY <1>12 DEF BeginFails, PC, Answers
<1>13. ASSUME NEW t \in Calls, CheckQueryFails(t) PROVE TypeOK'
  BY <1>13 DEF CheckQueryFails, CheckOn, PC, InTx
<1>14. ASSUME NEW t \in Calls, StatementFails(t) PROVE TypeOK'
  BY <1>14 DEF StatementFails, PC, InTx
<1>15. ASSUME NEW t \in Calls, Disconnect(t) PROVE TypeOK'
  BY <1>15 DEF Disconnect, PC, InTx, Answers, NoEntries
<1> QED
  BY <1>1, <1>2, <1>3, <1>4, <1>5, <1>6, <1>7, <1>8, <1>9, <1>10, <1>11,
     <1>12, <1>13, <1>14, <1>15 DEF Next, Progress, Trouble

LEMMA IntTypes ==
  TypeOK => \A a \in Accounts : balance[a] \in Int /\ ver[a] \in Int /\ posted[a] \in Int
BY BigintFacts DEF TypeOK

(* The argument of a call is fixed, and known to be sound once checked.    *)
LEMMA ArgStep == IInv /\ TypeOK' /\ [Next]_vars => ArgInv'
<1> SUFFICES ASSUME IInv, TypeOK', [Next]_vars PROVE ArgInv'
  OBVIOUS
<1> USE DEF IInv, TypeOK, ArgInv, Writing, InTx
<1>1. CASE UNCHANGED vars
  BY <1>1
<1>2. ASSUME NEW t \in Calls, NEW r \in Requests, Submit(t, r) PROVE ArgInv'
  BY <1>2 DEF Submit
<1>3. ASSUME NEW t \in Calls, Begin(t) PROVE ArgInv'
  BY <1>3 DEF Begin
<1>4. ASSUME NEW t \in Calls, Check(t) PROVE ArgInv'
  <2>1. arg[t] \in Requests
    BY <1>4 DEF Check, CheckOn
  <2>2. arg[t].fromAmount \in Int
    BY <2>1, RequestType
  <2> QED
    BY <1>4, <2>1, <2>2, BigintFacts DEF Check, CheckOn
<1>5. ASSUME NEW t \in Calls, CreateTransfer(t) PROVE ArgInv'
  BY <1>5 DEF CreateTransfer
<1>6. ASSUME NEW t \in Calls, CreateFromEntry(t) PROVE ArgInv'
  BY <1>6 DEF CreateFromEntry, CreateEntry
<1>7. ASSUME NEW t \in Calls, CreateToEntry(t) PROVE ArgInv'
  BY <1>7 DEF CreateToEntry, CreateEntry
<1>8. ASSUME NEW t \in Calls, AddFirst(t) PROVE ArgInv'
  BY <1>8 DEF AddFirst, AddAccountBalance
<1>9. ASSUME NEW t \in Calls, AddSecond(t) PROVE ArgInv'
  BY <1>9 DEF AddSecond, AddAccountBalance
<1>10. ASSUME NEW t \in Calls, Commit(t) PROVE ArgInv'
  BY <1>10 DEF Commit
<1>11. ASSUME NEW t \in Calls, Rollback(t) PROVE ArgInv'
  BY <1>11 DEF Rollback
<1>12. ASSUME NEW t \in Calls, BeginFails(t) PROVE ArgInv'
  BY <1>12 DEF BeginFails
<1>13. ASSUME NEW t \in Calls, CheckQueryFails(t) PROVE ArgInv'
  <2>1. arg[t] \in Requests
    BY <1>13 DEF CheckQueryFails, CheckOn
  <2>2. arg[t].fromAmount \in Int
    BY <2>1, RequestType
  <2> QED
    BY <1>13, <2>1, <2>2, BigintFacts DEF CheckQueryFails, CheckOn
<1>14. ASSUME NEW t \in Calls, StatementFails(t) PROVE ArgInv'
  BY <1>14 DEF StatementFails
<1>15. ASSUME NEW t \in Calls, Disconnect(t) PROVE ArgInv'
  BY <1>15 DEF Disconnect
<1> QED
  BY <1>1, <1>2, <1>3, <1>4, <1>5, <1>6, <1>7, <1>8,
     <1>9, <1>10, <1>11, <1>12, <1>13, <1>14, <1>15 DEF Next, Progress, Trouble

(* Rows are taken by updates only and kept to the end.                     *)
LEMMA LockStep == IInv /\ TypeOK' /\ [Next]_vars => LockInv'
<1> SUFFICES ASSUME IInv, TypeOK', [Next]_vars PROVE LockInv'
  OBVIOUS
<1> USE NoCallAssumption DEF IInv, TypeOK, ArgInv, LockInv, InTx
<1>1. CASE UNCHANGED vars
  BY <1>1
<1>2. ASSUME NEW t \in Calls, NEW r \in Requests, Submit(t, r) PROVE LockInv'
  BY <1>2 DEF Submit
<1>3. ASSUME NEW t \in Calls, Begin(t) PROVE LockInv'
  BY <1>3 DEF Begin
<1>4. ASSUME NEW t \in Calls, Check(t) PROVE LockInv'
  BY <1>4 DEF Check, CheckOn
<1>5. ASSUME NEW t \in Calls, CreateTransfer(t) PROVE LockInv'
  BY <1>5 DEF CreateTransfer
<1>6. ASSUME NEW t \in Calls, CreateFromEntry(t) PROVE LockInv'
  BY <1>6 DEF CreateFromEntry, CreateEntry
<1>7. ASSUME NEW t \in Calls, CreateToEntry(t) PROVE LockInv'
  BY <1>7 DEF CreateToEntry, CreateEntry
<1>8. ASSUME NEW t \in Calls, AddFirst(t) PROVE LockInv'
  BY <1>8 DEF AddFirst, AddAccountBalance
<1>9. ASSUME NEW t \in Calls, AddSecond(t) PROVE LockInv'
  BY <1>9 DEF AddSecond, AddAccountBalance
<1>10. ASSUME NEW t \in Calls, Commit(t) PROVE LockInv'
  BY <1>10 DEF Commit
<1>11. ASSUME NEW t \in Calls, Rollback(t) PROVE LockInv'
  BY <1>11 DEF Rollback
<1>12. ASSUME NEW t \in Calls, BeginFails(t) PROVE LockInv'
  BY <1>12 DEF BeginFails
<1>13. ASSUME NEW t \in Calls, CheckQueryFails(t) PROVE LockInv'
  BY <1>13 DEF CheckQueryFails, CheckOn
<1>14. ASSUME NEW t \in Calls, StatementFails(t) PROVE LockInv'
  BY <1>14 DEF StatementFails
<1>15. ASSUME NEW t \in Calls, Disconnect(t) PROVE LockInv'
  BY <1>15 DEF Disconnect
<1> QED
  BY <1>1, <1>2, <1>3, <1>4, <1>5, <1>6, <1>7, <1>8,
     <1>9, <1>10, <1>11, <1>12, <1>13, <1>14, <1>15 DEF Next, Progress, Trouble

(* A call is answered when it ends, and booked by its end only.            *)
LEMMA ReplyStep == IInv /\ TypeOK' /\ [Next]_vars => ReplyInv'
<1> SUFFICES ASSUME IInv, TypeOK', [Next]_vars PROVE ReplyInv'
  OBVIOUS
<1> USE DEF IInv, TypeOK, ReplyInv, InTx, Answers
<1>1. CASE UNCHANGED vars
  BY <1>1
<1>2. ASSUME NEW t \in Calls, NEW r \in Requests, Submit(t, r) PROVE ReplyInv'
  BY <1>2 DEF Submit
<1>3. ASSUME NEW t \in Calls, Begin(t) PROVE ReplyInv'
  BY <1>3 DEF Begin
<1>4. ASSUME NEW t \in Calls, Check(t) PROVE ReplyInv'
  BY <1>4 DEF Check, CheckOn
<1>5. ASSUME NEW t \in Calls, CreateTransfer(t) PROVE ReplyInv'
  BY <1>5 DEF CreateTransfer
<1>6. ASSUME NEW t \in Calls, CreateFromEntry(t) PROVE ReplyInv'
  BY <1>6 DEF CreateFromEntry, CreateEntry
<1>7. ASSUME NEW t \in Calls, CreateToEntry(t) PROVE ReplyInv'
  BY <1>7 DEF CreateToEntry, CreateEntry
<1>8. ASSUME NEW t \in Calls, AddFirst(t) PROVE ReplyInv'
  BY <1>8 DEF AddFirst, AddAccountBalance
<1>9. ASSUME NEW t \in Calls, AddSecond(t) PROVE ReplyInv'
  BY <1>9 DEF AddSecond, AddAccountBalance
<1>10. ASSUME NEW t \in Calls, Commit(t) PROVE ReplyInv'
  BY <1>10 DEF Commit
<1>11. ASSUME NEW t \in Calls, Rollback(t) PROVE ReplyInv'
  BY <1>11 DEF Rollback
<1>12. ASSUME NEW t \in Calls, BeginFails(t) PROVE ReplyInv'
  BY <1>12 DEF BeginFails
<1>13. ASSUME NEW t \in Calls, CheckQueryFails(t) PROVE ReplyInv'
  BY <1>13 DEF CheckQueryFails, CheckOn
<1>14. ASSUME NEW t \in Calls, StatementFails(t) PROVE ReplyInv'
  BY <1>14 DEF StatementFails
<1>15. ASSUME NEW t \in Calls, Disconnect(t) PROVE ReplyInv'
  BY <1>15 DEF Disconnect
<1> QED
  BY <1>1, <1>2, <1>3, <1>4, <1>5, <1>6, <1>7, <1>8,
     <1>9, <1>10, <1>11, <1>12, <1>13, <1>14, <1>15 DEF Next, Progress, Trouble

(* Entries are written one by one and dropped at the end.                  *)
LEMMA PendStep == IInv /\ TypeOK' /\ [Next]_vars => PendInv'
<1> SUFFICES ASSUME IInv, TypeOK', [Next]_vars PROVE PendInv'
  OBVIOUS
<1> USE DEF IInv, TypeOK, ArgInv, PendInv, InTx, NoEntries
<1>1. CASE UNCHANGED vars
  BY <1>1
<1>2. ASSUME NEW t \in Calls, NEW r \in Requests, Submit(t, r) PROVE PendInv'
  BY <1>2 DEF Submit
<1>3. ASSUME NEW t \in Calls, Begin(t) PROVE PendInv'
  BY <1>3 DEF Begin
<1>4. ASSUME NEW t \in Calls, Check(t) PROVE PendInv'
  BY <1>4 DEF Check, CheckOn
<1>5. ASSUME NEW t \in Calls, CreateTransfer(t) PROVE PendInv'
  BY <1>5 DEF CreateTransfer
<1>6. ASSUME NEW t \in Calls, CreateFromEntry(t) PROVE PendInv'
  <2>1. arg[t] \in Requests
    BY <1>6 DEF CreateFromEntry, CreateEntry
  <2>2. -arg[t].fromAmount \in Int
    BY <2>1, RequestType
  <2>3. \A u \in Calls : \A a \in Accounts :
          pend'[u][a] = IF u = t /\ a = arg[t].from THEN pend[u][a] + -arg[t].fromAmount ELSE pend[u][a]
    BY <1>6, <2>2, PendUpdate DEF CreateFromEntry, CreateEntry
  <2>4. pc' = [pc EXCEPT ![t] = "fromEntryRow"] /\ pc[t] = "transferRow" /\ arg' = arg
    BY <1>6 DEF CreateFromEntry, CreateEntry
  <2>5. ASSUME NEW u \in Calls, NEW a \in Accounts, u # t
        PROVE  PendInv!(u)!(a)'
    BY <2>3, <2>4, <2>5
  <2> QED
    BY <2>1, <2>3, <2>4, <2>5, RequestType
<1>7. ASSUME NEW t \in Calls, CreateToEntry(t) PROVE PendInv'
  <2>1. arg[t] \in Requests
    BY <1>7 DEF CreateToEntry, CreateEntry
  <2>2. arg[t].toAmount \in Int
    BY <2>1, RequestType
  <2>3. \A u \in Calls : \A a \in Accounts :
          pend'[u][a] = IF u = t /\ a = arg[t].to THEN pend[u][a] + arg[t].toAmount ELSE pend[u][a]
    BY <1>7, <2>2, PendUpdate DEF CreateToEntry, CreateEntry
  <2>4. pc' = [pc EXCEPT ![t] = "toEntryRow"] /\ pc[t] = "fromEntryRow" /\ arg' = arg
    BY <1>7 DEF CreateToEntry, CreateEntry
  <2>5. ASSUME NEW u \in Calls, NEW a \in Accounts, u # t
        PROVE  PendInv!(u)!(a)'
    BY <2>3, <2>4, <2>5
  <2> QED
    BY <2>1, <2>3, <2>4, <2>5, RequestType DEF Effect, Abstract!Effect
<1>8. ASSUME NEW t \in Calls, AddFirst(t) PROVE PendInv'
  BY <1>8 DEF AddFirst, AddAccountBalance
<1>9. ASSUME NEW t \in Calls, AddSecond(t) PROVE PendInv'
  BY <1>9 DEF AddSecond, AddAccountBalance
<1>10. ASSUME NEW t \in Calls, Commit(t) PROVE PendInv'
  BY <1>10 DEF Commit
<1>11. ASSUME NEW t \in Calls, Rollback(t) PROVE PendInv'
  BY <1>11 DEF Rollback
<1>12. ASSUME NEW t \in Calls, BeginFails(t) PROVE PendInv'
  BY <1>12 DEF BeginFails
<1>13. ASSUME NEW t \in Calls, CheckQueryFails(t) PROVE PendInv'
  BY <1>13 DEF CheckQueryFails, CheckOn
<1>14. ASSUME NEW t \in Calls, StatementFails(t) PROVE PendInv'
  BY <1>14 DEF StatementFails
<1>15. ASSUME NEW t \in Calls, Disconnect(t) PROVE PendInv'
  BY <1>15 DEF Disconnect
<1> QED
  BY <1>1, <1>2, <1>3, <1>4, <1>5, <1>6, <1>7, <1>8,
     <1>9, <1>10, <1>11, <1>12, <1>13, <1>14, <1>15 DEF Next, Progress, Trouble

(* Versions follow the updates of the lock's holder.                       *)
LEMMA VerStep == IInv /\ TypeOK' /\ [Next]_vars => VerInv'
<1> SUFFICES ASSUME IInv, TypeOK', [Next]_vars PROVE VerInv'
  OBVIOUS
<1> USE NoCallAssumption DEF IInv, TypeOK, ArgInv, LockInv, VerInv, InTx
<1>1. CASE UNCHANGED vars
  BY <1>1
<1>2. ASSUME NEW t \in Calls, NEW r \in Requests, Submit(t, r) PROVE VerInv'
  BY <1>2 DEF Submit
<1>3. ASSUME NEW t \in Calls, Begin(t) PROVE VerInv'
  BY <1>3 DEF Begin
<1>4. ASSUME NEW t \in Calls, Check(t) PROVE VerInv'
  BY <1>4 DEF Check, CheckOn
<1>5. ASSUME NEW t \in Calls, CreateTransfer(t) PROVE VerInv'
  BY <1>5 DEF CreateTransfer
<1>6. ASSUME NEW t \in Calls, CreateFromEntry(t) PROVE VerInv'
  BY <1>6 DEF CreateFromEntry, CreateEntry
<1>7. ASSUME NEW t \in Calls, CreateToEntry(t) PROVE VerInv'
  BY <1>7 DEF CreateToEntry, CreateEntry
<1>8. ASSUME NEW t \in Calls, AddFirst(t) PROVE VerInv'
  BY <1>8 DEF AddFirst, AddAccountBalance
<1>9. ASSUME NEW t \in Calls, AddSecond(t) PROVE VerInv'
  <2>1. arg[t] \in Requests
    BY <1>9 DEF AddSecond, AddAccountBalance
  <2>2. First(arg[t]).amount \in Int /\ Second(arg[t]).amount \in Int
    BY <2>1, UpdateOrder
  <2>3. \A a \in Accounts :
          Effect(arg[t], a) = (IF a = First(arg[t]).id THEN First(arg[t]).amount ELSE 0)
                            + (IF a = Second(arg[t]).id THEN Second(arg[t]).amount ELSE 0)
    BY <2>1, EffectOfUpdates
  <2> DEFINE up == Second(arg[t])
             old == IF lock[up.id] = t THEN ver[up.id] ELSE balance[up.id]
  <2>4. CASE old + up.amount \notin Bigint
    BY <1>9, <2>4 DEF AddSecond, AddAccountBalance
  <2>5. CASE old + up.amount \in Bigint
    <3>1. /\ pc[t] = "firstAdded" /\ pc' = [pc EXCEPT ![t] = "secondAdded"]
          /\ lock[up.id] \in {NoCall, t} /\ lock' = [lock EXCEPT ![up.id] = t]
          /\ ver' = [ver EXCEPT ![up.id] = old + up.amount]
          /\ arg' = arg /\ balance' = balance
      BY <1>9, <2>5 DEF AddSecond, AddAccountBalance
    <3>2. ASSUME NEW u \in Calls, NEW a \in Accounts, u # t, lock'[a] = u
          PROVE  VerInv!(u)!(a)'
      BY <3>1, <3>2
    <3>3. ASSUME NEW a \in Accounts, lock'[a] = t, a # up.id
          PROVE  ver'[a] = balance[a] + Effect(arg[t], a)
      <4>1. a = First(arg[t]).id /\ lock[a] = t
        BY <3>1, <3>3
      <4>2. Effect(arg[t], a) = First(arg[t]).amount
        BY <2>2, <2>3, <3>3, <4>1
      <4> QED
        BY <3>1, <3>3, <4>1, <4>2
    <3>4. ASSUME up.id \in Accounts
          PROVE  ver'[up.id] = balance[up.id] + Effect(arg[t], up.id)
      <4>1. balance[up.id] \in Int /\ ver[up.id] \in Int
        BY <3>4, IntTypes
      <4>2. ver'[up.id] = old + up.amount
        BY <3>1, <3>4
      <4>3. CASE lock[up.id] = t
        <5>1. up.id = First(arg[t]).id
          BY <3>1, <3>4, <4>3
        <5>2. ver[up.id] = balance[up.id] + First(arg[t]).amount
          BY <3>1, <3>4, <4>3
        <5> QED
          BY <2>2, <2>3, <3>4, <4>1, <4>2, <4>3, <5>1, <5>2
      <4>4. CASE lock[up.id] # t
        <5>1. up.id # First(arg[t]).id
          BY <3>1, <3>4, <4>4
        <5> QED
          BY <2>2, <2>3, <3>4, <4>1, <4>2, <4>4, <5>1
      <4> QED
        BY <4>3, <4>4
    <3> QED
      BY <3>1, <3>2, <3>3, <3>4
  <2> QED
    BY <2>4, <2>5
<1>10. ASSUME NEW t \in Calls, Commit(t) PROVE VerInv'
  BY <1>10 DEF Commit
<1>11. ASSUME NEW t \in Calls, Rollback(t) PROVE VerInv'
  BY <1>11 DEF Rollback
<1>12. ASSUME NEW t \in Calls, BeginFails(t) PROVE VerInv'
  BY <1>12 DEF BeginFails
<1>13. ASSUME NEW t \in Calls, CheckQueryFails(t) PROVE VerInv'
  BY <1>13 DEF CheckQueryFails, CheckOn
<1>14. ASSUME NEW t \in Calls, StatementFails(t) PROVE VerInv'
  BY <1>14 DEF StatementFails
<1>15. ASSUME NEW t \in Calls, Disconnect(t) PROVE VerInv'
  BY <1>15 DEF Disconnect
<1> QED
  BY <1>1, <1>2, <1>3, <1>4, <1>5, <1>6, <1>7, <1>8,
     <1>9, <1>10, <1>11, <1>12, <1>13, <1>14, <1>15 DEF Next, Progress, Trouble

(* What a Commit installs is the effect of its request, on every account.  *)
LEMMA CommitAddsEffect ==
  ASSUME IInv, NEW t \in Calls, Commit(t), NEW a \in Accounts
  PROVE  balance'[a] = balance[a] + Effect(arg[t], a)
<1>1. arg[t] \in Requests /\ pc[t] = "secondAdded"
  BY DEF IInv, ArgInv, Commit
<1>2. balance'[a] = IF lock[a] = t THEN ver[a] ELSE balance[a]
  BY DEF Commit
<1>3. CASE lock[a] = t
  BY <1>1, <1>2, <1>3 DEF IInv, VerInv
<1>4. CASE lock[a] # t
  <2>1. a \notin {First(arg[t]).id, Second(arg[t]).id}
    BY <1>1, <1>4 DEF IInv, LockInv
  <2>2. Effect(arg[t], a) = 0
    BY <1>1, <2>1, EffectOfUpdates
  <2> QED
    BY <1>2, <1>4, <2>2, IntTypes DEF IInv
<1> QED
  BY <1>3, <1>4

LEMMA CommitPostsEffect ==
  ASSUME IInv, NEW t \in Calls, Commit(t), NEW a \in Accounts
  PROVE  posted'[a] = posted[a] + Effect(arg[t], a)
BY DEF IInv, PendInv, Commit

(* Only Commit touches the books, by the same amount on both sides.        *)
LEMMA BooksStep == IInv /\ TypeOK' /\ [Next]_vars => BooksBalance'
<1> SUFFICES ASSUME IInv, TypeOK', [Next]_vars PROVE BooksBalance'
  OBVIOUS
<1> USE DEF IInv, ArgInv, BooksBalance
<1>1. CASE UNCHANGED vars
  BY <1>1
<1>2. ASSUME NEW t \in Calls, NEW r \in Requests, Submit(t, r) PROVE BooksBalance'
  BY <1>2 DEF Submit
<1>3. ASSUME NEW t \in Calls, Begin(t) PROVE BooksBalance'
  BY <1>3 DEF Begin
<1>4. ASSUME NEW t \in Calls, Check(t) PROVE BooksBalance'
  BY <1>4 DEF Check, CheckOn
<1>5. ASSUME NEW t \in Calls, CreateTransfer(t) PROVE BooksBalance'
  BY <1>5 DEF CreateTransfer
<1>6. ASSUME NEW t \in Calls, CreateFromEntry(t) PROVE BooksBalance'
  BY <1>6 DEF CreateFromEntry, CreateEntry
<1>7. ASSUME NEW t \in Calls, CreateToEntry(t) PROVE BooksBalance'
  BY <1>7 DEF CreateToEntry, CreateEntry
<1>8. ASSUME NEW t \in Calls, AddFirst(t) PROVE BooksBalance'
  BY <1>8 DEF AddFirst, AddAccountBalance
<1>9. ASSUME NEW t \in Calls, AddSecond(t) PROVE BooksBalance'
  BY <1>9 DEF AddSecond, AddAccountBalance
<1>10. ASSUME NEW t \in Calls, Commit(t) PROVE BooksBalance'
  <2>1. \A a \in Accounts : /\ balance'[a] = balance[a] + Effect(arg[t], a)
                            /\ posted'[a] = posted[a] + Effect(arg[t], a)
    BY <1>10, CommitAddsEffect, CommitPostsEffect
  <2>2. \A a : Effect(arg[t], a) \in Int
    <3>1. arg[t] \in Requests
      BY <1>10 DEF Commit, ArgInv
    <3> QED
      BY <3>1, RequestType DEF Effect, Abstract!Effect
  <2>3. \A a \in Accounts : InitBalance[a] \in Int
    BY InitBalanceAssumption, BigintFacts
  <2> QED
    BY <2>1, <2>2, <2>3, IntTypes
<1>11. ASSUME NEW t \in Calls, Rollback(t) PROVE BooksBalance'
  BY <1>11 DEF Rollback
<1>12. ASSUME NEW t \in Calls, BeginFails(t) PROVE BooksBalance'
  BY <1>12 DEF BeginFails
<1>13. ASSUME NEW t \in Calls, CheckQueryFails(t) PROVE BooksBalance'
  BY <1>13 DEF CheckQueryFails, CheckOn
<1>14. ASSUME NEW t \in Calls, StatementFails(t) PROVE BooksBalance'
  BY <1>14 DEF StatementFails
<1>15. ASSUME NEW t \in Calls, Disconnect(t) PROVE BooksBalance'
  BY <1>15 DEF Disconnect
<1> QED
  BY <1>1, <1>2, <1>3, <1>4, <1>5, <1>6, <1>7, <1>8,
     <1>9, <1>10, <1>11, <1>12, <1>13, <1>14, <1>15 DEF Next, Progress, Trouble

(* Only Commit answers "ok", only Rollback "insufficient".                 *)
LEMMA EffectStep == IInv /\ TypeOK' /\ [Next]_vars => ReplyMatchesEffect'
<1> SUFFICES ASSUME IInv, TypeOK', [Next]_vars PROVE ReplyMatchesEffect'
  OBVIOUS
<1> USE DEF IInv, TypeOK, ReplyInv, ReplyMatchesEffect
<1>1. CASE UNCHANGED vars
  BY <1>1
<1>2. ASSUME NEW t \in Calls, NEW r \in Requests, Submit(t, r) PROVE ReplyMatchesEffect'
  BY <1>2 DEF Submit
<1>3. ASSUME NEW t \in Calls, Begin(t) PROVE ReplyMatchesEffect'
  BY <1>3 DEF Begin
<1>4. ASSUME NEW t \in Calls, Check(t) PROVE ReplyMatchesEffect'
  BY <1>4 DEF Check, CheckOn
<1>5. ASSUME NEW t \in Calls, CreateTransfer(t) PROVE ReplyMatchesEffect'
  BY <1>5 DEF CreateTransfer
<1>6. ASSUME NEW t \in Calls, CreateFromEntry(t) PROVE ReplyMatchesEffect'
  BY <1>6 DEF CreateFromEntry, CreateEntry
<1>7. ASSUME NEW t \in Calls, CreateToEntry(t) PROVE ReplyMatchesEffect'
  BY <1>7 DEF CreateToEntry, CreateEntry
<1>8. ASSUME NEW t \in Calls, AddFirst(t) PROVE ReplyMatchesEffect'
  BY <1>8 DEF AddFirst, AddAccountBalance
<1>9. ASSUME NEW t \in Calls, AddSecond(t) PROVE ReplyMatchesEffect'
  BY <1>9 DEF AddSecond, AddAccountBalance
<1>10. ASSUME NEW t \in Calls, Commit(t) PROVE ReplyMatchesEffect'
  BY <1>10 DEF Commit
<1>11. ASSUME NEW t \in Calls, Rollback(t) PROVE ReplyMatchesEffect'
  BY <1>11 DEF Rollback
<1>12. ASSUME NEW t \in Calls, BeginFails(t) PROVE ReplyMatchesEffect'
  BY <1>12 DEF BeginFails
<1>13. ASSUME NEW t \in Calls, CheckQueryFails(t) PROVE ReplyMatchesEffect'
  BY <1>13 DEF CheckQueryFails, CheckOn
<1>14. ASSUME NEW t \in Calls, StatementFails(t) PROVE ReplyMatchesEffect'
  BY <1>14 DEF StatementFails
<1>15. ASSUME NEW t \in Calls, Disconnect(t) PROVE ReplyMatchesEffect'
  BY <1>15 DEF Disconnect
<1> QED
  BY <1>1, <1>2, <1>3, <1>4, <1>5, <1>6, <1>7, <1>8,
     <1>9, <1>10, <1>11, <1>12, <1>13, <1>14, <1>15 DEF Next, Progress, Trouble

-----------------------------------------------------------------------------
LEMMA InitIInv == Init => IInv
<1> SUFFICES ASSUME Init PROVE IInv
  OBVIOUS
<1>1. TypeOK
  BY InitBalanceAssumption, BigintFacts DEF Init, TypeOK, NoEntries, PC
<1>2. ArgInv /\ LockInv /\ VerInv /\ PendInv /\ ReplyInv /\ ReplyMatchesEffect
  BY NoCallAssumption
     DEF Init, NoEntries, Writing, ArgInv, LockInv, VerInv, PendInv, ReplyInv,
         ReplyMatchesEffect
<1>3. BooksBalance
  <2>1. \A a \in Accounts : InitBalance[a] \in Int
    BY InitBalanceAssumption, BigintFacts
  <2>2. balance = InitBalance /\ \A a \in Accounts : posted[a] = 0
    BY DEF Init, NoEntries
  <2> QED
    BY <2>1, <2>2 DEF BooksBalance
<1> QED
  BY <1>1, <1>2, <1>3 DEF IInv

LEMMA StepIInv == IInv /\ [Next]_vars => IInv'
<1> SUFFICES ASSUME IInv, [Next]_vars PROVE IInv'
  OBVIOUS
<1>1. TypeOK'
  BY TypeStep DEF IInv
<1> QED
  BY <1>1, ArgStep, LockStep, ReplyStep, PendStep, VerStep, BooksStep, EffectStep DEF IInv

(* IInv is an inductive invariant of TransferTx.                           *)
THEOREM Invariance == Spec => []IInv
BY InitIInv, StepIInv, PTL DEF Spec

(* Every variable keeps its type; in particular no committed balance ever  *)
(* leaves the range of its column.                                         *)
THEOREM TypeCorrect == Spec => []TypeOK
BY Invariance, PTL DEF IInv

(* The balance of every account is its initial balance plus its committed  *)
(* entries, at every moment: addMoney loses no update.                     *)
THEOREM BooksAlwaysBalance == Spec => []BooksBalance
BY Invariance, PTL DEF IInv

(* A nil error of TransferTx means a booked transfer, an                   *)
(* ErrInsufficientBalance means none.                                      *)
THEOREM RepliesAreTrue == Spec => []ReplyMatchesEffect
BY Invariance, PTL DEF IInv

(* The order of addMoney: a call that waits for a row holds only rows with *)
(* smaller ids, so waits cannot close a circle.                            *)
THEOREM RowsInOrder == Spec => []LockOrder
<1>1. IInv => LockOrder
  <2> SUFFICES ASSUME IInv, NEW t \in Calls, NEW u \in Calls, Blocked(t, u),
                      NEW a \in Accounts, NEW b \in Accounts,
                      Awaits(t, a), lock[b] = t
               PROVE  b < a
    BY DEF LockOrder
  <2>1. pc[t] = "firstAdded" /\ a = Second(arg[t]).id /\ b = First(arg[t]).id
    BY DEF IInv, LockInv, Awaits
  <2>2. lock[a] = u /\ t # u
    BY <2>1 DEF Blocked, Awaits
  <2>3. arg[t] \in Requests
    BY <2>1 DEF IInv, ArgInv
  <2> QED
    BY <2>1, <2>2, <2>3, UpdateOrder
<1> QED
  BY Invariance, <1>1, PTL

(* Sequential calls cannot overdraw an account: a transfer that leaves the *)
(* sender below zero was checked against a balance that had changed since. *)
THEOREM OverdraftNeedsStaleRead == Spec => OverdraftOnlyOnStaleRead
<1> DEFINE Step ==
      \A t \in transfers' \ transfers :
        balance'[arg[t].from] < 0 /\ arg[t].toAmount >= 0
          => seen[t] # balance[arg[t].from]
<1>1. IInv /\ [Next]_vars => [Step]_vars
  <2> SUFFICES ASSUME IInv, Next, NEW t \in transfers' \ transfers,
                      seen[t] = balance[arg[t].from], arg[t].toAmount >= 0
               PROVE  ~(balance'[arg[t].from] < 0)
    OBVIOUS
  <2>1. t \in Calls /\ Commit(t)
    <3>1. PICK u \in Calls : \/ \E r \in Requests : Submit(u, r)
                             \/ Progress(u)
                             \/ Trouble(u)
      BY DEF Next
    <3>2. transfers' # transfers
      OBVIOUS
    <3>3. ~(\E r \in Requests : Submit(u, r))
      BY <3>2 DEF Submit
    <3>4. ~Trouble(u)
      BY <3>2 DEF Trouble, BeginFails, CheckQueryFails, CheckOn, StatementFails, Disconnect
    <3>5. ~Begin(u) /\ ~Check(u) /\ ~CreateTransfer(u) /\ ~Rollback(u)
      BY <3>2 DEF Begin, Check, CheckOn, CreateTransfer, Rollback
    <3>6. ~CreateFromEntry(u) /\ ~CreateToEntry(u)
      BY <3>2 DEF CreateFromEntry, CreateToEntry, CreateEntry
    <3>7. ~AddFirst(u) /\ ~AddSecond(u)
      BY <3>2 DEF AddFirst, AddSecond, AddAccountBalance
    <3>8. Commit(u)
      BY <3>1, <3>3, <3>4, <3>5, <3>6, <3>7 DEF Progress
    <3>9. u = t
      BY <3>8 DEF Commit
    <3> QED
      BY <3>8, <3>9
  <2>2. /\ arg[t] \in Requests /\ arg[t].from \in Accounts
        /\ seen[t] >= arg[t].fromAmount
    BY <2>1 DEF IInv, ArgInv, Writing, Commit
  <2>3. balance'[arg[t].from] = seen[t] + Effect(arg[t], arg[t].from)
    BY <2>1, <2>2, CommitAddsEffect
  <2>4. Effect(arg[t], arg[t].from) >= -arg[t].fromAmount /\ Effect(arg[t], arg[t].from) \in Int
    BY <2>2, RequestType DEF Effect, Abstract!Effect
  <2>5. seen[t] \in Int
    BY <2>1 DEF IInv, TypeOK
  <2> QED
    BY <2>2, <2>3, <2>4, <2>5, RequestType
<1> QED
  BY Invariance, <1>1, PTL DEF Spec, OverdraftOnlyOnStaleRead

-----------------------------------------------------------------------------
(* What the missing lock of the check costs, the other way round.  Calls   *)
(* that are under way together have different senders: what the check      *)
(* would ensure if it were GetAccountForUpdate, which locks the row.       *)
Apart == \A t, u \in Open : t # u => arg[t].from # arg[u].from

(* No credit is negative: no conversion has overflowed (see Requests).     *)
CreditsOnly == \A r \in Requests : r.toAmount >= 0

(* The balance a call was checked against is there until it commits.       *)
CoveredInv ==
  /\ \A a \in Accounts : balance[a] >= 0
  /\ \A t \in Calls :
       pc[t] \in Writing \union {"checked"}
         => arg[t].from \in Accounts /\ seen[t] <= balance[arg[t].from]

(* The check is passed with what is on the account; other steps before the *)
(* Commit change neither that nor what was seen.                           *)
LEMMA CheckCovers ==
  ASSUME IInv, CoveredInv, NEW t \in Calls, Check(t) \/ CheckQueryFails(t)
  PROVE  CoveredInv'
<1>1. arg[t] \in Requests /\ arg[t].fromAmount \in Nat \ {0}
  BY RequestType DEF IInv, ArgInv, Check, CheckQueryFails, CheckOn
<1>2. balance' = balance /\ arg' = arg
  BY DEF Check, CheckQueryFails, CheckOn
<1>3. \A u \in Calls \ {t} : pc'[u] = pc[u] /\ seen'[u] = seen[u]
  BY DEF IInv, TypeOK, Check, CheckQueryFails, CheckOn
<1>4. \/ pc'[t] = "rollback"
      \/ arg[t].from \in Accounts /\ seen'[t] = balance[arg[t].from]
  <2>1. CASE arg[t].from \in Accounts /\ Check(t)
    BY <2>1 DEF IInv, TypeOK, Check, CheckOn
  <2>2. CASE CheckOn(t, 0)
    BY <1>1, <2>2 DEF IInv, TypeOK, CheckOn
  <2> QED
    BY <2>1, <2>2 DEF Check, CheckQueryFails
<1>5. balance \in [Accounts -> Int]
  BY BigintFacts DEF IInv, TypeOK
<1> QED
  BY <1>2, <1>3, <1>4, <1>5 DEF CoveredInv, Writing

LEMMA CommitCovers ==
  ASSUME CreditsOnly, Apart, IInv, CoveredInv, NEW t \in Calls, Commit(t)
  PROVE  CoveredInv'
<1>1. /\ arg[t] \in Requests /\ arg[t].from \in Accounts /\ arg[t].toAmount >= 0
      /\ seen[t] >= arg[t].fromAmount /\ seen[t] <= balance[arg[t].from]
  BY DEF CreditsOnly, IInv, ArgInv, CoveredInv, Writing, Commit
<1>2. arg[t].fromAmount \in Int /\ arg[t].toAmount \in Int /\ seen[t] \in Int
  BY <1>1, RequestType DEF IInv, TypeOK
<1>3. ASSUME NEW a \in Accounts
      PROVE  /\ balance'[a] = balance[a] + Effect(arg[t], a)
             /\ balance[a] \in Int /\ balance[a] >= 0 /\ Effect(arg[t], a) \in Int
             /\ a # arg[t].from => Effect(arg[t], a) >= 0
             /\ a = arg[t].from => Effect(arg[t], a) >= -arg[t].fromAmount
  <2>1. balance'[a] = balance[a] + Effect(arg[t], a)
    BY CommitAddsEffect
  <2>2. balance[a] \in Int /\ balance[a] >= 0
    BY IntTypes DEF IInv, CoveredInv
  <2> QED
    BY <1>1, <1>2, <2>1, <2>2 DEF Effect, Abstract!Effect
<1>4. \A a \in Accounts : balance'[a] >= 0
  BY <1>1, <1>2, <1>3
<1>5. ASSUME NEW u \in Calls, pc'[u] \in Writing \union {"checked"}
      PROVE  arg'[u].from \in Accounts /\ seen'[u] <= balance'[arg'[u].from]
  <2>1. u # t /\ pc[u] = pc'[u] /\ arg' = arg /\ seen' = seen
    BY <1>5 DEF IInv, TypeOK, Commit, Writing
  <2>2. u \in Open /\ t \in Open
    BY <1>5, <2>1 DEF Open, InTx, Writing, Commit
  <2>3. arg[u].from # arg[t].from
    BY <2>1, <2>2 DEF Apart
  <2>4. arg[u].from \in Accounts /\ seen[u] <= balance[arg[u].from] /\ seen[u] \in Int
    BY <1>5, <2>1 DEF CoveredInv, IInv, TypeOK
  <2> QED
    BY <1>3, <2>1, <2>3, <2>4
<1> QED
  BY <1>4, <1>5 DEF CoveredInv

LEMMA CoveredStep == CreditsOnly /\ Apart /\ IInv /\ CoveredInv /\ [Next]_vars => CoveredInv'
<1> SUFFICES ASSUME CreditsOnly, Apart, IInv, CoveredInv, [Next]_vars PROVE CoveredInv'
  OBVIOUS
<1> DEFINE Past == Writing \union {"checked"}
<1>1. ASSUME NEW t \in Calls, NEW to, pc' = [pc EXCEPT ![t] = to], to \in Past => pc[t] \in Past,
             UNCHANGED <<balance, arg, seen>>
      PROVE  CoveredInv'
  BY <1>1 DEF IInv, TypeOK, CoveredInv
<1> USE DEF Writing
<1>2. ASSUME NEW t \in Calls, NEW r \in Requests, Submit(t, r) PROVE CoveredInv'
  BY <1>2 DEF Submit, IInv, TypeOK, CoveredInv
<1>3. ASSUME NEW t \in Calls, Begin(t) \/ CreateTransfer(t) \/ Rollback(t) PROVE CoveredInv'
  BY <1>1, <1>3 DEF Begin, CreateTransfer, Rollback
<1>4. ASSUME NEW t \in Calls, CreateFromEntry(t) \/ CreateToEntry(t) PROVE CoveredInv'
  BY <1>1, <1>4 DEF CreateFromEntry, CreateToEntry, CreateEntry
<1>5. ASSUME NEW t \in Calls, AddFirst(t) \/ AddSecond(t) PROVE CoveredInv'
  BY <1>1, <1>5 DEF AddFirst, AddSecond, AddAccountBalance
<1>6. ASSUME NEW t \in Calls, BeginFails(t) \/ StatementFails(t) \/ Disconnect(t) PROVE CoveredInv'
  BY <1>1, <1>6 DEF BeginFails, StatementFails, Disconnect
<1>7. ASSUME NEW t \in Calls, Check(t) \/ CheckQueryFails(t) PROVE CoveredInv'
  BY <1>7, CheckCovers
<1>8. ASSUME NEW t \in Calls, Commit(t) PROVE CoveredInv'
  BY <1>8, CommitCovers
<1>9. CASE UNCHANGED vars
  BY <1>9 DEF CoveredInv
<1> QED
  BY <1>2, <1>3, <1>4, <1>5, <1>6, <1>7, <1>8, <1>9 DEF Next, Progress, Trouble

(* ErrInsufficientBalance keeps its promise as long as no two calls debit  *)
(* one account together: the check needs nothing but the row's lock.       *)
THEOREM NoOverdraftApart == CreditsOnly /\ Spec /\ []Apart => []NoOverdraft
<1> DEFINE Rich == \A a \in Accounts : InitBalance[a] >= 0
<1>1. Rich /\ Init => CoveredInv
  BY DEF Init, CoveredInv, Writing
<1>2. CoveredInv => NoOverdraft
  BY DEF CoveredInv, NoOverdraft
<1>3. ~Rich => NoOverdraft
  BY DEF NoOverdraft
<1> HIDE DEF Rich
<1>4. CASE CreditsOnly /\ Rich
  <2>1. Apart /\ IInv /\ CoveredInv /\ [Next]_vars => CoveredInv'
    BY <1>4, CoveredStep
  <2>2. Init => CoveredInv
    BY <1>1, <1>4
  <2> QED
    BY <1>2, <2>1, <2>2, Invariance, PTL DEF Spec
<1>5. CASE ~Rich
  BY <1>3, <1>5, PTL
<1> QED
  BY <1>4, <1>5

-----------------------------------------------------------------------------
(* A statement of a call, or its failure, as the ledger sees it: the step  *)
(* that ends the call moves its money or refuses it, the others are not    *)
(* visible.                                                                *)
LEMMA StatementAsLedger ==
  ASSUME IInv, NEW t \in Calls, Progress(t) \/ Trouble(t)
  PROVE  /\ pc[t] \in InTx \union {"called"} /\ reply[t] = "none"
         /\ \/ /\ \/ \E answer \in {"ok", "error"} : Abstract!Transfer(t, answer)
                  \/ \E answer \in {"insufficient", "error"} : Abstract!Refuse(t, answer)
               /\ Goto(t, "done")
            \/ \E to \in InTx : Goto(t, to) /\ UNCHANGED Abstract!vars
<1> USE DEF Abstract!vars
<1>1. pc[t] \in InTx \union {"called"}
  BY DEF Progress, Begin, Check, CheckOn, CreateTransfer, CreateFromEntry, CreateToEntry,
         CreateEntry, AddFirst, AddSecond, AddAccountBalance, Commit, Rollback,
         Trouble, BeginFails, CheckQueryFails, StatementFails, Disconnect, InTx
<1>2. Abstract!Pending(t) /\ reply[t] = "none"
  BY <1>1 DEF Abstract!Pending, IInv, ArgInv, ReplyInv, InTx
<1>3. CASE Commit(t)
  <2>1. {arg[t].from, arg[t].to} \subseteq Accounts
    BY <1>3 DEF Commit, IInv, ArgInv, Writing
  <2>2. \A a \in Accounts : /\ balance'[a] = balance[a] + Abstract!Effect(arg[t], a)
                            /\ posted'[a] = posted[a] + Abstract!Effect(arg[t], a)
    BY <1>3, CommitAddsEffect, CommitPostsEffect DEF Effect
  <2>3. balance' = [a \in Accounts |-> balance'[a]] /\ posted' = [a \in Accounts |-> posted'[a]]
    BY <1>3 DEF Commit
  <2> QED
    BY <1>1, <1>2, <1>3, <2>1, <2>2, <2>3 DEF Abstract!Transfer, Commit
<1>4. CASE Rollback(t)
  <2>1. cause[t] \in {"insufficient", "error"}
    BY <1>4 DEF Rollback, IInv, ReplyInv
  <2> QED
    BY <1>1, <1>2, <1>4, <2>1 DEF Abstract!Refuse, Rollback
<1>5. CASE BeginFails(t) \/ Disconnect(t)
  BY <1>1, <1>2, <1>5 DEF Abstract!Refuse, BeginFails, Disconnect
<1>6. ASSUME Begin(t) \/ Check(t) \/ CreateTransfer(t) \/ CheckQueryFails(t) \/ StatementFails(t)
      PROVE  \E to \in InTx : Goto(t, to) /\ UNCHANGED Abstract!vars
  BY <1>6 DEF Begin, Check, CheckOn, CreateTransfer, CheckQueryFails, StatementFails, InTx
<1>7. ASSUME CreateFromEntry(t) \/ CreateToEntry(t) \/ AddFirst(t) \/ AddSecond(t)
      PROVE  \E to \in InTx : Goto(t, to) /\ UNCHANGED Abstract!vars
  BY <1>7 DEF CreateFromEntry, CreateToEntry, CreateEntry, AddFirst, AddSecond,
              AddAccountBalance, InTx
<1> QED
  BY <1>1, <1>2, <1>3, <1>4, <1>5, <1>6, <1>7 DEF Progress, Trouble

(* TransferTx implements the ledger: Commit is the transfer, a call that   *)
(* ends in another way is refused, and no other step is visible.           *)
THEOREM Refinement == Spec => ImplementsLedger
<1>1. Init => Abstract!Init
  BY DEF Init, Abstract!Init, NoEntries
<1>2. IInv /\ [Next]_vars => [Abstract!Next]_(Abstract!vars)
  <2> SUFFICES ASSUME IInv, Next PROVE [Abstract!Next]_(Abstract!vars)
    BY DEF vars, committed, Abstract!vars
  <2>1. ASSUME NEW t \in Calls, NEW r \in Requests, Submit(t, r)
        PROVE  Abstract!Submit(t, r)
    BY <2>1 DEF Submit, Abstract!Submit, IInv, ArgInv
  <2>2. ASSUME NEW t \in Calls, Progress(t) \/ Trouble(t)
        PROVE  \/ \E answer \in {"ok", "error"} : Abstract!Transfer(t, answer)
               \/ \E answer \in {"insufficient", "error"} : Abstract!Refuse(t, answer)
               \/ UNCHANGED Abstract!vars
    BY <2>2, StatementAsLedger
  <2> QED
    BY <2>1, <2>2 DEF Next, Abstract!Next
<1> QED
  BY Invariance, <1>1, <1>2, PTL DEF Spec, ImplementsLedger, Abstract!Spec

-----------------------------------------------------------------------------
(* The calls that were made: finitely many, one step makes one at most.    *)
Made == {t \in Calls : pc[t] # "idle"}

(* And they stay so.                                                      *)
LEMMA MadeStep == IInv /\ IsFiniteSet(Made) /\ [Next]_vars => IsFiniteSet(Made)'
<1> SUFFICES ASSUME IInv, IsFiniteSet(Made), [Next]_vars PROVE IsFiniteSet(Made')
  BY DEF Made
<1>1. CASE UNCHANGED vars
  <2>1. Made' = Made
    BY <1>1 DEF Made
  <2> QED
    BY <2>1
<1>2. ASSUME NEW t \in Calls, NEW to, pc' = [pc EXCEPT ![t] = to] PROVE IsFiniteSet(Made')
  <2>1. Made' \subseteq Made \union {t}
    BY <1>2 DEF Made, IInv, TypeOK
  <2>2. IsFiniteSet(Made \union {t})
    BY FS_AddElement
  <2> QED
    BY <2>1, <2>2, FS_Subset
<1>3. ASSUME Next PROVE \E t \in Calls, to \in PC : pc' = [pc EXCEPT ![t] = to]
  <2>1. PICK t \in Calls : (\E r \in Requests : Submit(t, r)) \/ Progress(t) \/ Trouble(t)
    BY <1>3 DEF Next
  <2>2. CASE \E r \in Requests : Submit(t, r)
    BY <2>2 DEF Submit, PC
  <2>3. CASE Progress(t)
    BY <2>3 DEF Progress, Begin, Check, CheckOn, CreateTransfer, CreateFromEntry, CreateToEntry,
       CreateEntry, AddFirst, AddSecond, AddAccountBalance, Commit, Rollback, PC, InTx
  <2>4. CASE Trouble(t)
    BY <2>4 DEF Trouble, BeginFails, CheckQueryFails, CheckOn, StatementFails, Disconnect, PC, InTx
  <2> QED
    BY <2>1, <2>2, <2>3, <2>4
<1> QED
  BY <1>1, <1>2, <1>3

(* The row a call waits for is below the one its holder waits for.         *)
LEMMA WaitsAscend ==
  ASSUME IInv, NEW t \in Calls, NEW u \in Calls, NEW v \in Calls, Blocked(t, u), Blocked(u, v),
         NEW a \in Accounts, Awaits(t, a), NEW b \in Accounts, Awaits(u, b)
  PROVE  a < b /\ a \in Nat /\ b \in Nat
<1>1. lock[a] = u
  <2>1. pc[t] # "called" /\ \A c \in Accounts : Awaits(t, c) => c = a
    BY DEF Awaits
  <2> QED
    BY <2>1 DEF Blocked
<1>2. pc[u] = "firstAdded" /\ b = Second(arg[u]).id /\ a = First(arg[u]).id
  BY <1>1 DEF IInv, LockInv, Awaits
<1>3. lock[b] = v /\ u # v
  <2>1. pc[u] # "called" /\ \A c \in Accounts : Awaits(u, c) => c = b
    BY DEF Awaits
  <2> QED
    BY <2>1 DEF Blocked
<1>4. arg[u] \in Requests
  BY <1>2 DEF IInv, ArgInv
<1> QED
  BY <1>1, <1>2, <1>3, <1>4, UpdateOrder

(* Nobody waits in a circle, for rows or for connections: calls that wait  *)
(* for a connection wait for calls that have one, and among finitely many  *)
(* of these the one that waits for the greatest id waits for a call that   *)
(* does not wait (the order of addMoney).                                  *)
THEOREM NoCallsDeadlock == Spec => []NoDeadlock
<1>1. Init => IsFiniteSet(Made)
  <2>1. Init => Made = {}
    BY DEF Init, Made
  <2> QED
    BY <2>1, FS_EmptySet
<1>2. IInv /\ IsFiniteSet(Made) => NoDeadlock
  <2> SUFFICES ASSUME IInv, IsFiniteSet(Made), NEW W \in (SUBSET Calls) \ {{}}
               PROVE  \E t \in W : \A u \in W : ~Blocked(t, u)
    BY DEF NoDeadlock
  <2> SUFFICES ASSUME \A t \in W : \E u \in W : Blocked(t, u) PROVE FALSE
    OBVIOUS
  <2> DEFINE S == {t \in W : \E a \in Accounts : Awaits(t, a)}
  <2>0. S # {} /\ \A t \in S : \E u \in S : Blocked(t, u)
    <3>1. ASSUME NEW t \in W, NEW u \in W, Blocked(t, u) PROVE u \in S
      <4>1. pc[u] \in InTx
        <5>1. \A a \in Accounts : lock[a] = u => pc[u] \in InTx
          BY DEF IInv, LockInv, InTx
        <5> QED
          BY <3>1, <5>1 DEF Blocked, Open
      <4>2. PICK v \in W : Blocked(u, v)
        OBVIOUS
      <4> QED
        BY <4>1, <4>2 DEF Blocked, InTx
    <3> HIDE DEF S
    <3> QED
      BY <3>1 DEF S
  <2> DEFINE Above(t) == {u \in S : \E a, b \in Accounts : Awaits(t, a) /\ Awaits(u, b) /\ a < b}
  <2> DEFINE Sets == {Above(t) : t \in S}
  <2>1. IsFiniteSet(S)
    <3>1. S \subseteq Made
      BY DEF Awaits, Made
    <3> QED
      BY <3>1, FS_Subset
  <2> HIDE DEF S
  <2>2. S \subseteq Calls
    BY DEF S
  <2>3a. Sets # {} /\ Sets \subseteq FiniteSubsetsOf(S)
    <3>1. \A t \in S : Above(t) \in SUBSET S
      OBVIOUS
    <3>2. FiniteSubsetsOf(S) = SUBSET S
      BY <2>1, FS_FiniteSubsetsOfFinite
    <3> HIDE DEF Above
    <3> QED
      BY <2>0, <3>1, <3>2
  <2>3. PICK least \in Sets : \A other \in Sets : <<other, least>> \notin StrictSubsetOrdering(S)
    <3> HIDE DEF Sets
    <3>1. IsWellFoundedOn(StrictSubsetOrdering(S), FiniteSubsetsOf(S))
      BY FS_StrictSubsetOrderingWellFounded
    <3> QED
      BY <2>3a, <3>1, WFMin
  <2>4. PICK t \in S : least = Above(t)
    OBVIOUS
  <2>5. PICK u \in S : Blocked(t, u)
    BY <2>0
  <2>6. PICK v \in S : Blocked(u, v)
    BY <2>0
  <2>7. PICK a \in Accounts, b \in Accounts : Awaits(t, a) /\ Awaits(u, b)
    BY DEF S
  <2>8. a < b /\ a \in Nat /\ b \in Nat
    BY <2>2, <2>5, <2>6, <2>7, WaitsAscend
  <2>9. \A x \in Calls : \A c, d \in Accounts : Awaits(x, c) /\ Awaits(x, d) => c = d
    BY DEF Awaits
  <2>10. u \in Above(t) /\ u \notin Above(u)
    BY <2>2, <2>7, <2>8, <2>9
  <2>11. Above(u) \subseteq Above(t)
    BY <2>2, <2>7, <2>8, <2>9, AccountsAssumption
  <2>12. Above(t) \in SUBSET S /\ Above(u) \in SUBSET S /\ Above(u) \in Sets
    OBVIOUS
  <2> HIDE DEF Above
  <2>13. <<Above(u), Above(t)>> \in StrictSubsetOrdering(S)
    BY <2>10, <2>11, <2>12 DEF StrictSubsetOrdering
  <2> QED
    BY <2>3, <2>4, <2>12, <2>13
<1> QED
  BY <1>1, <1>2, MadeStep, Invariance, PTL DEF Spec

-----------------------------------------------------------------------------
(* No more transactions are open than the pool has connections.            *)
PoolInv == IsFiniteSet(Open) /\ Cardinality(Open) <= MaxConns

LEMMA PoolStep == IInv /\ PoolInv /\ [Next]_vars => PoolInv'
<1> SUFFICES ASSUME IInv, PoolInv, [Next]_vars PROVE PoolInv'
  OBVIOUS
<1>1. ASSUME NEW t \in Calls, Begin(t) PROVE PoolInv'
  <2>1. t \notin Open /\ Open' = Open \union {t} /\ Cardinality(Open) < MaxConns
    BY <1>1 DEF Begin, Open, InTx, IInv, TypeOK
  <2>2. IsFiniteSet(Open \union {t}) /\ Cardinality(Open \union {t}) = Cardinality(Open) + 1
    BY <2>1, FS_AddElement DEF PoolInv
  <2>3. Cardinality(Open) \in Nat
    BY FS_CardinalityType DEF PoolInv
  <2>4. Cardinality(Open \union {t}) <= MaxConns
    BY <2>1, <2>2, <2>3, MaxConnsAssumption
  <2>5. Cardinality(Open') = Cardinality(Open \union {t}) /\ IsFiniteSet(Open')
    BY <2>1, <2>2
  <2> QED
    BY <2>4, <2>5 DEF PoolInv
<1>2. ASSUME Open' \subseteq Open PROVE PoolInv'
  <2>1. IsFiniteSet(Open') /\ Cardinality(Open') <= Cardinality(Open)
    BY <1>2, FS_Subset DEF PoolInv
  <2>2. Cardinality(Open) \in Nat /\ Cardinality(Open') \in Nat
    BY <2>1, FS_CardinalityType DEF PoolInv
  <2> QED
    BY <2>1, <2>2, MaxConnsAssumption DEF PoolInv
<1>3. ASSUME NEW t \in Calls, NEW to, pc' = [pc EXCEPT ![t] = to],
             to \in InTx => pc[t] \in InTx
      PROVE  Open' \subseteq Open
  BY <1>3 DEF Open, IInv, TypeOK
<1>4. ASSUME NEW t \in Calls, Begin(t) \/ (\E r \in Requests : Submit(t, r)) \/ Progress(t) \/ Trouble(t)
      PROVE  Begin(t) \/ \E to : pc' = [pc EXCEPT ![t] = to] /\ (to \in InTx => pc[t] \in InTx)
  BY <1>4 DEF Submit, Progress, Trouble, Check, CheckOn, CreateTransfer, CreateFromEntry,
              CreateToEntry, CreateEntry, AddFirst, AddSecond, AddAccountBalance, Commit,
              Rollback, BeginFails, CheckQueryFails, StatementFails, Disconnect, InTx
<1>5. UNCHANGED vars => Open' = Open
  BY DEF Open
<1> QED
  BY <1>1, <1>2, <1>3, <1>4, <1>5 DEF Next

(* With a pool of one connection the check is enough as it is: the         *)
(* overdraft needs two transactions (connPool.Begin of execTx).            *)
THEOREM NoOverdraftOnOneConnection == CreditsOnly /\ MaxConns = 1 /\ Spec => []NoOverdraft
<1>1. Init => PoolInv
  <2>1. Init => Open = {}
    BY DEF Init, Open, InTx
  <2> QED
    BY <2>1, FS_EmptySet, MaxConnsAssumption DEF PoolInv
<1>2. CASE MaxConns = 1
  <2>1. PoolInv => Apart
    <3> SUFFICES ASSUME PoolInv, NEW t \in Open, NEW u \in Open, t # u PROVE FALSE
      BY DEF Apart
    <3>1. Cardinality({t, u}) <= 1 /\ IsFiniteSet({t, u})
      <4>1. {t, u} \subseteq Open
        OBVIOUS
      <4>2. Cardinality({t, u}) <= Cardinality(Open) /\ IsFiniteSet({t, u})
        BY <4>1, FS_Subset DEF PoolInv
      <4>3. Cardinality({t, u}) \in Nat /\ Cardinality(Open) \in Nat
        BY <4>2, FS_CardinalityType DEF PoolInv
      <4> QED
        BY <1>2, <4>2, <4>3 DEF PoolInv
    <3>2. Cardinality({t, u}) = 2
      <4>1. Cardinality({t}) = 1 /\ IsFiniteSet({t})
        BY FS_Singleton
      <4>2. {t, u} = {t} \union {u} /\ u \notin {t}
        OBVIOUS
      <4> QED
        BY <4>1, <4>2, FS_AddElement
    <3> QED
      BY <3>1, <3>2
  <2>2. Spec => []Apart
    BY <1>1, <2>1, PoolStep, Invariance, PTL DEF Spec
  <2> QED
    BY <2>2, NoOverdraftApart, PTL
<1> QED
  BY <1>2

-----------------------------------------------------------------------------
(* What is left of liveness when fairness is taken away: while a call is   *)
(* under way somebody's next statement can run, and every statement that   *)
(* runs brings its call nearer to the end.                                 *)
UnderWay == {t \in Calls : pc[t] \notin {"idle", "done"}}

(* The next statement of the call waits neither for a connection nor for a *)
(* row: the guards of Progress.                                            *)
Ready(t) ==
  \/ pc[t] = "called" /\ Cardinality(Open) < MaxConns
  \/ pc[t] \in InTx \ {"toEntryRow", "firstAdded"}
  \/ pc[t] = "toEntryRow" /\ lock[First(arg[t]).id] \in {NoCall, t}
  \/ pc[t] = "firstAdded" /\ lock[Second(arg[t]).id] \in {NoCall, t}

(* How far a call has come.                                                *)
Rank == [idle |-> 0, called |-> 1, begun |-> 2, checked |-> 3, transferRow |-> 4,
         fromEntryRow |-> 5, toEntryRow |-> 6, firstAdded |-> 7, secondAdded |-> 8,
         rollback |-> 9, done |-> 10]

(* A call under way that waits for nobody is ready.                        *)
LEMMA UnblockedIsReady ==
  ASSUME IInv, IsFiniteSet(Made), NEW t \in UnderWay, \A u \in UnderWay : ~Blocked(t, u)
  PROVE  Ready(t)
<1>1. t \in Calls /\ pc[t] \in InTx \union {"called"}
  BY DEF UnderWay, IInv, TypeOK, PC
<1>2. \A u \in Calls : pc[u] \in InTx => u \in UnderWay
  BY DEF UnderWay, InTx
<1>3. CASE pc[t] = "called"
  <2>1. Open = {} \/ Cardinality(Open) < MaxConns
    <3>1. IsFiniteSet(Open)
      <4>1. Open \subseteq Made
        BY DEF Open, Made, InTx
      <4> QED
        BY <4>1, FS_Subset
    <3>2. Cardinality(Open) \in Nat
      BY <3>1, FS_CardinalityType
    <3>3. ASSUME Cardinality(Open) >= MaxConns, NEW u \in Open PROVE FALSE
      <4>1. u \in UnderWay /\ u # t
        BY <1>2, <1>3 DEF Open, InTx
      <4> QED
        BY <1>3, <3>3, <4>1 DEF Blocked
    <3> QED
      BY <3>2, <3>3, MaxConnsAssumption
  <2>2. Open = {} => Cardinality(Open) < MaxConns
    BY FS_EmptySet, MaxConnsAssumption
  <2> QED
    BY <1>3, <2>1, <2>2 DEF Ready
<1>4. ASSUME NEW a \in Accounts, Awaits(t, a) PROVE lock[a] \in {NoCall, t}
  <2>1. ASSUME lock[a] \in Calls PROVE lock[a] \in UnderWay
    BY <1>2, <2>1 DEF IInv, LockInv, InTx
  <2>2. lock[a] \in Calls \union {NoCall}
    BY DEF IInv, TypeOK
  <2> QED
    BY <1>1, <1>4, <2>1, <2>2 DEF Blocked
<1>5. CASE pc[t] \in {"toEntryRow", "firstAdded"}
  <2>1. arg[t] \in Requests /\ arg[t].from \in Accounts /\ arg[t].to \in Accounts
    BY <1>1, <1>5 DEF IInv, ArgInv, Writing
  <2>2. First(arg[t]).id \in Accounts /\ Second(arg[t]).id \in Accounts
    BY <2>1, UpdateOrder
  <2> QED
    BY <1>4, <1>5, <2>2 DEF Awaits, Ready
<1> QED
  BY <1>1, <1>3, <1>5 DEF Ready

(* The server never hangs: whatever rows are held and however small the    *)
(* pool is, as long as a call of execTx is under way one of them has a     *)
(* next statement that waits for nothing.                                  *)
THEOREM SomebodyCanGoOn == Spec => [](UnderWay # {} => \E t \in UnderWay : Ready(t))
<1>1. Init => IsFiniteSet(Made)
  <2>1. Init => Made = {}
    BY DEF Init, Made
  <2> QED
    BY <2>1, FS_EmptySet
<1>2. IInv /\ IsFiniteSet(Made) /\ NoDeadlock => (UnderWay # {} => \E t \in UnderWay : Ready(t))
  <2> SUFFICES ASSUME IInv, IsFiniteSet(Made), NoDeadlock, UnderWay # {}
               PROVE  \E t \in UnderWay : Ready(t)
    OBVIOUS
  <2>1. PICK t \in UnderWay : \A u \in UnderWay : ~Blocked(t, u)
    BY DEF NoDeadlock, UnderWay
  <2> QED
    BY <2>1, UnblockedIsReady
<1> QED
  BY <1>1, <1>2, MadeStep, Invariance, NoCallsDeadlock, PTL DEF Spec

(* One call goes further, and the others stay where they are.              *)
Advances ==
  \E t \in Calls :
    /\ Rank[pc[t]] < Rank[pc'[t]]
    /\ \A u \in Calls \ {t} : pc'[u] = pc[u]

(* execTx repeats no statement: every step takes a call further, so that   *)
(* it ends after ten steps at most.                                        *)
THEOREM EveryStepAdvances == Spec => [][Advances]_vars
<1> DEFINE Advance(t, from, to) == pc[t] = from /\ pc' = [pc EXCEPT ![t] = to] /\ Rank[from] < Rank[to]
<1>1. ASSUME IInv, NEW t \in Calls, NEW from, NEW to, Advance(t, from, to) PROVE Advances
  <2>1. pc \in [Calls -> PC]
    BY <1>1 DEF IInv, TypeOK
  <2>2. pc'[t] = to /\ \A u \in Calls \ {t} : pc'[u] = pc[u]
    BY <1>1, <2>1
  <2> QED
    BY <1>1, <2>2 DEF Advances
<1>2. IInv /\ Next => \E t \in Calls : \E from, to \in PC : Advance(t, from, to)
  <2> SUFFICES ASSUME IInv, NEW t \in Calls,
                      (\E r \in Requests : Submit(t, r)) \/ Progress(t) \/ Trouble(t)
               PROVE  \E from, to \in PC : Advance(t, from, to)
    BY DEF Next
  <2> USE DEF Rank, PC, InTx
  <2>1. CASE \E r \in Requests : Submit(t, r)
    BY <2>1 DEF Submit
  <2>2. CASE Begin(t) \/ Check(t) \/ CreateTransfer(t)
    BY <2>2 DEF Begin, Check, CheckOn, CreateTransfer
  <2>3. CASE CreateFromEntry(t) \/ CreateToEntry(t)
    BY <2>3 DEF CreateFromEntry, CreateToEntry, CreateEntry
  <2>4. CASE AddFirst(t) \/ AddSecond(t)
    BY <2>4 DEF AddFirst, AddSecond, AddAccountBalance
  <2>5. CASE Commit(t) \/ Rollback(t)
    BY <2>5 DEF Commit, Rollback
  <2>6. CASE BeginFails(t) \/ CheckQueryFails(t)
    BY <2>6 DEF BeginFails, CheckQueryFails, CheckOn
  <2>7. CASE StatementFails(t)
    BY <2>7 DEF StatementFails
  <2>8. CASE Disconnect(t)
    BY <2>8 DEF Disconnect
  <2> QED
    BY <2>1, <2>2, <2>3, <2>4, <2>5, <2>6, <2>7, <2>8 DEF Progress, Trouble
<1>3. IInv /\ [Next]_vars => [Advances]_vars
  <2> HIDE DEF Advance
  <2> QED
    BY <1>1, <1>2
<1> QED
  BY Invariance, <1>3, PTL DEF Spec
=============================================================================
