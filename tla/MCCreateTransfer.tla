-------------------------- MODULE MCCreateTransfer --------------------------
(***************************************************************************)
(* Instances of CreateTransfer for TLC.                                    *)
(***************************************************************************)
EXTENDS CreateTransfer, TLC

CONSTANTS p1, p2, alice, bob, usd, eur  \* requests, users, currencies

TwoPosts == {p1, p2}
ThreeAccounts == {1, 2, 3}
Owners == (1 :> alice) @@ (2 :> bob) @@ (3 :> bob)
AccountCurrencies == (1 :> usd) @@ (2 :> usd) @@ (3 :> eur)
Balances == (1 :> 31) @@ (2 :> 2) @@ (3 :> 1)
TwoCurrencies == {usd, eur}
Symmetry == Permutations(Posts)

Ask(caller, from, to, amount, currency) ==
  [caller |-> caller, from |-> from, to |-> to, amount |-> amount, currency |-> currency]

(* Within one currency, an amount that float64 holds and one that it       *)
(* rounds to a neighbour or out of range; to the other currency and back   *)
(* (a credit of 0); from somebody else's account, in the wrong currency,   *)
(* and from and to an account that does not exist.                         *)
MixedBodies ==
  {Ask(alice, 1, 2, 2, usd), Ask(alice, 1, 2, 31, usd), Ask(alice, 1, 3, 2, usd),
   Ask(bob, 3, 1, 1, eur), Ask(bob, 1, 2, 1, usd), Ask(bob, 3, 2, 1, usd),
   Ask(alice, 1, 9, 1, usd), Ask(bob, 9, 2, 1, usd)}
=============================================================================
