------------------------------- MODULE Ledger -------------------------------
(***************************************************************************)
(* What the money store of Go2Bank promises its callers, with no           *)
(* transactions, connections or row locks in sight: a call of TransferTx   *)
(* (db/sqlc/store.go) either moves its money and books it in ONE step, or  *)
(* leaves no trace; each call is answered once; and an answer "ok" is only *)
(* given together with the move.  TransferTx.tla, the statement-by-        *)
(* statement model of the code, is shown to implement this specification.  *)
(*                                                                         *)
(* The promise has two weak spots, both of them the code's: an "error"     *)
(* answer may hide a transfer that happened (the connection was lost after *)
(* COMMIT took effect), and nothing here keeps a balance above zero.       *)
(***************************************************************************)
EXTENDS Integers

CONSTANTS
  Calls,        \* calls of TransferTx, each made once
  Accounts,     \* ids of the rows of table accounts
  Requests,     \* the arguments a call may be made with
  InitBalance,  \* balance of every account at the start
  NoRequest     \* the argument of a call not made yet

VARIABLES
  balance,      \* accounts.balance
  posted,       \* sum of the entries of every account
  transfers,    \* the calls that have a row in table transfers
  arg,          \* argument of every call
  reply         \* answer to every call, "none" before there is one

vars == <<balance, posted, transfers, arg, reply>>

(* What request r is to change on account a, whatever the order of its     *)
(* two updates; the two parts add up when both ends are the same account.  *)
Effect(r, a) ==
  (IF a = r.to THEN r.toAmount ELSE 0) - (IF a = r.from THEN r.fromAmount ELSE 0)

Pending(t) == arg[t] \in Requests /\ reply[t] = "none"

Init ==
  /\ balance = InitBalance
  /\ posted = [a \in Accounts |-> 0]
  /\ transfers = {}
  /\ arg = [t \in Calls |-> NoRequest]
  /\ reply = [t \in Calls |-> "none"]

Submit(t, r) ==
  /\ arg[t] = NoRequest
  /\ arg' = [arg EXCEPT ![t] = r]
  /\ UNCHANGED <<balance, posted, transfers, reply>>

Transfer(t, answer) ==
  /\ Pending(t)
  /\ {arg[t].from, arg[t].to} \subseteq Accounts
  /\ balance' = [a \in Accounts |-> balance[a] + Effect(arg[t], a)]
  /\ posted' = [a \in Accounts |-> posted[a] + Effect(arg[t], a)]
  /\ transfers' = transfers \union {t}
  /\ reply' = [reply EXCEPT ![t] = answer]
  /\ UNCHANGED arg

Refuse(t, answer) ==
  /\ Pending(t)
  /\ reply' = [reply EXCEPT ![t] = answer]
  /\ UNCHANGED <<balance, posted, transfers, arg>>

Next ==
  \E t \in Calls :
    \/ \E r \in Requests : Submit(t, r)
    \/ \E answer \in {"ok", "error"} : Transfer(t, answer)
    \/ \E answer \in {"insufficient", "error"} : Refuse(t, answer)

Spec == Init /\ [][Next]_vars
=============================================================================
