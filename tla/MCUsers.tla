------------------------------ MODULE MCUsers -------------------------------
(***************************************************************************)
(* An instance of Users for TLC: a depositor and a banker to begin with,   *)
(* the banker's name in upper case, a third name that is not taken, two    *)
(* currencies the bank has and one it has not, and an int32 of 3 bits.     *)
(***************************************************************************)
EXTENDS Users, TLC

CONSTANTS r1, r2, r3                \* requests
CONSTANTS ann, Bob, cy              \* names
CONSTANTS annMail, bobMail, newMail \* e-mail addresses
CONSTANTS old, new                  \* passwords
CONSTANTS usd, cad, xxx             \* currencies

ThreeRequests == {r1, r2, r3}
ThreeWords == {ann, Bob, cy}
TwoWords == {ann, cy}
ThreeEmails == {annMail, bobMail, newMail}
TwoPasswords == {old, new}
TwoRoles == {Banker, Depositor}
ThreeCurrencies == {usd, cad, xxx}
TwoCurrencies == {usd, cad}

Registered(mail, role) ==
  [password |-> old, email |-> mail, stamp |-> 0, role |-> role, provider |-> "local"]

AnnAndBob ==
  [n \in Names |->
    CASE n = ann -> Registered(annMail, Depositor)
      [] n = Bob -> Registered(bobMail, Banker)
      [] OTHER -> NoRow]

AnnsAccount == {[id |-> 1, owner |-> ann, currency |-> usd]}

(* A request with the fields given in f.                                   *)
Ask(kind, name, f) ==
  f @@ [kind |-> kind, name |-> name, email |-> NoValue, password |-> NoValue,
        currency |-> usd, page |-> 1]

SignIns ==
  {Ask("register", cy, [email |-> newMail, password |-> old]),
   Ask("login", ann, [password |-> old]),
   Ask("login", Bob, [password |-> old]),
   Ask("oauth", ann, [email |-> newMail]),
   Ask("renew", Bob, [page |-> 1])}

Updates ==
  {Ask("update", ann, [password |-> new]),
   Ask("update", ann, [email |-> newMail]),
   Ask("update", Bob, [password |-> new]),
   Ask("update", cy, [password |-> new])}

Questions ==
  {Ask("open", ann, [currency |-> cad]),
   Ask("open", ann, [currency |-> xxx]),
   Ask("account", ann, [page |-> 1]),
   Ask("me", ann, [page |-> 1]),
   Ask("list", ann, [page |-> 1]),
   Ask("list", ann, [page |-> 3])}

Demotion == {<<Bob, Depositor>>}
AllBodies == SignIns \union Updates \union Questions
Symmetry == Permutations(Requests)
=============================================================================
