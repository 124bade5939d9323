---------------------------- MODULE MCTransferTx ----------------------------
(***************************************************************************)
(* Instances of TransferTx for TLC.                                        *)
(***************************************************************************)
EXTENDS TransferTx, TLC

CONSTANTS t1, t2, t3  \* calls

Req(f, t, fa, ta) == [from |-> f, to |-> t, fromAmount |-> fa, toAmount |-> ta]

(* Two calls: every shape of request.  Opposite directions, with and       *)
(* without a change of currency, a self-transfer, a credit rounded to 0, a *)
(* credit that may overflow the column, a negative credit, and a missing   *)
(* receiver or sender.                                                     *)
TwoCalls == {t1, t2}
TwoAccounts == {1, 2}
TwoBalances == (1 :> 3) @@ (2 :> 2)
MixedRequests ==
  {Req(1, 2, 2, 2), Req(2, 1, 2, 4), Req(1, 1, 3, 3), Req(1, 2, 3, 0), Req(1, 2, 1, -7),
   Req(2, 9, 1, 1), Req(9, 1, 1, 1)}

(* Without the negative credits, which take an account below zero by       *)
(* themselves: what is left takes two calls.                               *)
RaceRequests == {r \in MixedRequests : r.toAmount >= 0}

(* Three calls over three accounts, with fewer connections than calls:     *)
(* two requests that meet on the same rows from opposite ends, and one     *)
(* that shares a row with both.                                            *)
ThreeCalls == {t1, t2, t3}
ThreeAccounts == {1, 2, 3}
ThreeBalances == (1 :> 2) @@ (2 :> 2) @@ (3 :> 2)
CrossRequests == {Req(1, 2, 1, 1), Req(2, 1, 1, 1), Req(2, 3, 1, 1)}
=============================================================================
