----------------------------- MODULE MCSessions -----------------------------
(***************************************************************************)
(* Instances of Sessions for TLC.                                          *)
(***************************************************************************)
EXTENDS Sessions, TLC

CONSTANTS r1, r2, r3, r4, home, cafe  \* requests and addresses

ThreeRequests == {r1, r2, r3}
FourRequests == {r1, r2, r3, r4}
OneAddress == {home}
TwoAddresses == {home, cafe}
Symmetry == Permutations(Requests) \union Permutations(Addresses)
=============================================================================
