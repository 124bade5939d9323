-------------------------------- MODULE Bank --------------------------------
(***************************************************************************)
(* A transfer from end to end: the handler of CreateTransfer, and the      *)
(* crawler it meets, over the statements of TransferTx in place of the     *)
(* Ledger that CreateTransfer is written with.  server.store.TransferTx    *)
(* (api/transfer.go) is a call of the same goroutine: while it runs its    *)
(* statements, among those of other requests, the handler waits, and with  *)
(* its answer the handler answers.                                         *)
(***************************************************************************)
EXTENDS CreateTransfer

CONSTANTS
  MaxConns,  \* size of the connection pool
  NoCall     \* the holder of a free row lock

\* What TransferTx assumes of its constants, where CreateTransfer does not.
ASSUME BankAssumption ==
  /\ InitBalance \in [Accounts -> Bigint]
  /\ MaxConns \in Nat \ {0}
  /\ NoCall \notin Posts
  /\ NoBody \notin TransferTxParams

VARIABLES lock, ver, pend, pc, seen, cause  \* what TransferTx adds to the store

inside == <<lock, ver, pend, pc, seen, cause>>
bankVars == <<vars, inside>>

Tx == INSTANCE TransferTx WITH Calls <- Posts, Requests <- TransferTxParams, NoRequest <- NoBody

BankInit == Init /\ Tx!Init

Crawl ==
  \/ \E found \in [Currencies -> Rates \union {NoRate}] : Truncate(found)
  \/ Insert
  \/ CrawlDies

(* The handler before its call of the store.                               *)
Prepare(p) ==
  \/ \E b \in Bodies : Arrive(p, b)
  \/ ValidAccount(p)
  \/ GetReceiver(p)
  \/ GetFromRate(p)
  \/ GetToRate(p)
  \/ QueryFails(p)
  \/ Die(p)

Call(p) == CallTransferTx(p) /\ Tx!Submit(p, arg'[p])

(* A statement of the call, or its failure; the answer to the call is what *)
(* the handler answers with.                                               *)
SlipRunStore(p) ==             \* a slip: answers without waiting for COMMIT or ROLLBACK
  /\ Tx!Progress(p) \/ Tx!Trouble(p)
  /\ IF pc'[p] \in {"secondAdded", "rollback"} THEN Respond(p, StatusOf(IF pc'[p] = "rollback" THEN cause'[p] ELSE "ok"))
     ELSE UNCHANGED handler
  /\ UNCHANGED currencies

RunStore(p) ==
  /\ Tx!Progress(p) \/ Tx!Trouble(p)
  /\ IF reply'[p] = reply[p] THEN UNCHANGED handler ELSE Respond(p, StatusOf(reply'[p]))
  /\ UNCHANGED currencies

BankNext ==
  \/ Crawl /\ UNCHANGED inside
  \/ \E p \in Posts :
       \/ Prepare(p) /\ UNCHANGED inside
       \/ Call(p)
       \/ RunStore(p)

BankSpec == BankInit /\ [][BankNext]_bankVars

-----------------------------------------------------------------------------
(* Properties; those of CreateTransfer and of TransferTx are properties of *)
(* this specification too.                                                 *)

(* Nothing a client, the crawler or an auditor of the committed tables can *)
(* see tells the statements of the store from the single step that the     *)
(* handler takes them for.                                                 *)
ImplementsCreateTransfer == Spec
=============================================================================
