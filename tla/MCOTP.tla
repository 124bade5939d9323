------------------------------- MODULE MCOTP -------------------------------
(***************************************************************************)
(* Instances of OTP for TLC.                                               *)
(***************************************************************************)
EXTENDS OTP, TLC

CONSTANTS t1, t2, p1, p2  \* tasks and requests

TwoTasks == {t1, t2}
OnePost == {p1}
TwoPosts == {p1, p2}
Symmetry == Permutations(Tasks) \union Permutations(Posts)
=============================================================================
