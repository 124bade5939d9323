----------------------------- MODULE UsersProofs -----------------------------
(***************************************************************************)
(* Proofs about Users, for any requests, names, tables to begin with,      *)
(* page size, width of an int32 and clock.                                 *)
(***************************************************************************)
EXTENDS Users, FiniteSetTheorems, TLAPS

Private == Kinds \ Public
Before == {"idle", "verify", "ended"}  \* steps at which no token has been verified

(* What is known of a request from the step it has reached.                *)
StepInv ==
  \A r \in Requests :
    /\ step[r] = "idle" <=> body[r] = NoBody
    /\ step[r] \in Kinds => body[r].kind = step[r]
    /\ step[r] = "verify" => body[r].kind \in Private
    /\ step[r] \in {"googleUser", "upsert"} => body[r].kind = "oauth"
    /\ step[r] = "token" => body[r].kind \in {"login", "renew", "oauth"} /\ row[r] # NoRow
    /\ step[r] = "updateUser" => body[r].kind = "update"
    /\ step[r] = "myAccounts" => body[r].kind = "me"
    /\ outcome[r] # 0 => step[r] = "ended"

(* A write takes effect in the last step of a request, or before it makes  *)
(* its token.                                                              *)
AppliedInv ==
  \A r \in Requests :
    /\ r \in applied => step[r] \in {"token", "ended"}
    /\ step[r] = "token" /\ body[r].kind = "oauth" => r \in applied

(* What the clock and the histories say.                                   *)
ClockInv ==
  \A r \in Requests :
    /\ stamp[r] <= now
    /\ sent[r] <= now
    /\ step[r] = "updateUser" /\ body[r].password # NoValue => sent[r] <= stamp[r]
    /\ \A q \in before[r] : step[q] = "ended" /\ stamp[q] <= sent[r]

(* Every row that is read is seen: the history of a request under way      *)
(* without a token has the row it is about.                                *)
DuringInv ==
  \A r \in Requests :
    /\ r \in UnderWay /\ body[r].kind \in Public => users[Target(r)] \in during[r]
    /\ step[r] = "token" =>
         /\ row[r] \in during[r]
         /\ body[r].kind = "login" => row[r].password = body[r].password

TokensInv == \A t \in tokens : step[t.by] = "ended"

(* A request that has passed the middleware came with a token that was     *)
(* alive when it was sent; one about to update may do so.                  *)
VerifiedInv ==
  \A r \in Requests :
    /\ token[r] \in tokens \union {NoToken}
    /\ step[r] \notin Before /\ body[r].kind \in Private =>
         token[r] # NoToken /\ sent[r] <= token[r].expires
    /\ step[r] = "updateUser" => Valid(body[r]) /\ MayUpdate(r)

(* A stamp is that of an update that took effect.                          *)
StampInv ==
  \A n \in Names :
    users[n] # NoRow /\ users[n].stamp # 0 =>
      \E q \in applied :
        body[q] # NoBody /\ body[q].kind = "update" /\ body[q].name = n /\ stamp[q] = users[n].stamp

(* The constraints of the table accounts, and what was opened is in it.    *)
AccountsInv ==
  /\ IsFiniteSet(accounts)
  /\ \A a \in accounts : a.currency \in Supported
  /\ \A a, b \in accounts : a.owner = b.owner /\ a.currency = b.currency => a = b
  /\ \A q \in Requests :
       step[q] = "ended" /\ body[q].kind = "open" /\ outcome[q] = 200 =>
         \E a \in accounts : a.owner = token[q].name /\ a.currency = body[q].currency

IInv ==
  /\ TypeOK
  /\ StepInv
  /\ AppliedInv
  /\ ClockInv
  /\ DuringInv
  /\ TokensInv
  /\ VerifiedInv
  /\ StampInv
  /\ AccountsInv
  /\ ProvidersApart
  /\ TokenSawRow
  /\ AnswersMatchRows
  /\ ShowsOwnAccounts

-----------------------------------------------------------------------------
(* What the assumptions say of a request that has been sent.               *)
LEMMA BodyType ==
  ASSUME TypeOK, StepInv, NEW r \in Requests, step[r] # "idle"
  PROVE  /\ body[r] \in Bodies /\ body[r] \in Body
         /\ body[r].name \in Words /\ body[r].kind \in Kinds
         /\ body[r].email \in Emails \union {NoValue}
         /\ body[r].password \in Passwords \union {NoValue}
         /\ body[r].currency \in Currencies /\ body[r].page \in Nat \ {0}
         /\ body[r].name \in Names /\ Target(r) \in Names
<1>1. body[r] # NoBody
  BY DEF StepInv
<1>2. body[r] \in Bodies /\ body[r] \in Body
  BY <1>1, BodiesAssumption DEF TypeOK
<1> QED
  BY <1>2 DEF Body, Names, Target, NameIn

(* A handler that ends leaves the others alone ...                         *)
LEMMA EndFacts ==
  ASSUME TypeOK, NEW r \in Requests, NEW status, End(r, status)
  PROVE  \A q \in Requests :
           /\ step'[q] = IF q = r THEN "ended" ELSE step[q]
           /\ outcome'[q] = IF q = r THEN status ELSE outcome[q]
           /\ row'[q] = IF q = r THEN NoRow ELSE row[q]
BY DEF TypeOK, End, Goto

(* ... and keeps the types of what it sets.                                *)
LEMMA EndType ==
  ASSUME TypeOK, NEW r \in Requests,
         NEW status \in {200, 201, 307, 400, 401, 403, 404, 409, 500, 502}, End(r, status)
  PROVE  /\ step' \in [Requests -> Kinds \union {"idle", "verify", "token", "googleUser",
                                     "upsert", "updateUser", "myAccounts", "ended"}]
         /\ outcome' \in [Requests -> {0, 200, 201, 307, 400, 401, 403, 404, 409, 500, 502}]
         /\ row' \in [Requests -> Row \union {NoRow}]
<1>1. step' = [step EXCEPT ![r] = "ended"] /\ outcome' = [outcome EXCEPT ![r] = status]
      /\ row' = [row EXCEPT ![r] = NoRow]
  BY DEF End, Goto
<1> QED
  BY <1>1 DEF TypeOK

(* So does one that goes on.                                               *)
LEMMA GotoFacts ==
  ASSUME TypeOK, NEW r \in Requests, NEW to, Goto(r, to)
  PROVE  \A q \in Requests : step'[q] = IF q = r THEN to ELSE step[q]
BY DEF TypeOK, Goto

(* A request that is refused: no table, no token and no history changes.   *)
LEMMA RefuseStep ==
  ASSUME IInv, NEW r \in Requests, step[r] \notin {"idle", "ended"},
         NEW status \in {400, 401, 403, 404, 409, 500, 502}, status = 500 \/ r \notin applied,
         End(r, status), UNCHANGED <<table, now, tokens, request, stamp, shown>>
  PROVE  IInv'
<1> USE DEF table, request
<1>0. /\ \A q \in Requests :
           /\ step'[q] = IF q = r THEN "ended" ELSE step[q]
           /\ outcome'[q] = IF q = r THEN status ELSE outcome[q]
           /\ row'[q] = IF q = r THEN NoRow ELSE row[q]
      /\ UNCHANGED <<table, now, tokens, request, stamp, shown>>
  BY EndFacts DEF IInv
<1>1. TypeOK'
  BY EndType DEF IInv, TypeOK
<1>2. StepInv'
  BY <1>0 DEF IInv, StepInv, Kinds
<1>3. AppliedInv'
  BY <1>0 DEF IInv, AppliedInv
<1>4. ClockInv'
  <2>1. \A q \in Requests : before[q] \subseteq Requests
    BY DEF IInv, TypeOK
  <2> QED
    BY <1>0, <2>1 DEF IInv, ClockInv
<1>5. DuringInv'
  BY <1>0 DEF IInv, DuringInv, UnderWay, Target
<1>6. TokensInv'
  <2>1. \A t \in tokens : t.by \in Requests
    BY DEF IInv, TypeOK, Token
  <2> QED
    BY <1>0, <2>1 DEF IInv, TokensInv
<1>7. VerifiedInv'
  BY <1>0 DEF IInv, VerifiedInv, Before, Valid, MayUpdate
<1>8. StampInv'
  BY <1>0 DEF IInv, StampInv
<1>9. AccountsInv'
  BY <1>0 DEF IInv, AccountsInv
<1>10. ProvidersApart'
  BY <1>0 DEF IInv, ProvidersApart
<1>11. TokenSawRow'
  BY <1>0 DEF IInv, TokenSawRow, Target
<1>12. AnswersMatchRows'
  BY <1>0 DEF IInv, AnswersMatchRows
<1>13. ShowsOwnAccounts'
  <2>1. \A q \in Requests : OpenedBy(q)' = OpenedBy(q)
    BY <1>0 DEF IInv, OpenedBy, ClockInv, TypeOK
  <2> QED
    BY <1>0, <2>1 DEF IInv, ShowsOwnAccounts
<1> QED
  BY <1>1, <1>2, <1>3, <1>4, <1>5, <1>6, <1>7, <1>8, <1>9, <1>10, <1>11, <1>12, <1>13 DEF IInv

(* A request that goes on and changes nothing else.                        *)
LEMMA AdvanceStep ==
  ASSUME IInv, NEW r \in Requests, NEW to,
         \/ step[r] = "verify" /\ Alive(token[r]) /\ to = body[r].kind
         \/ step[r] = "oauth" /\ to = "googleUser"
         \/ step[r] = "googleUser" /\ to = "upsert"
         \/ step[r] = "me" /\ to = "myAccounts",
         GoOn(r, to), UNCHANGED <<table, now, tokens, request, stamp, shown>>
  PROVE  IInv'
<1> USE DEF table, request
<1>0. /\ \A q \in Requests : step'[q] = IF q = r THEN to ELSE step[q]
      /\ UNCHANGED <<table, now, tokens, request, stamp, shown, outcome, row>>
  BY GotoFacts DEF IInv, GoOn
<1>a. /\ step[r] \notin {"idle", "ended", "token", "updateUser"} /\ body[r] # NoBody
      /\ to \notin {"idle", "ended", "token", "updateUser", "verify"}
  BY DEF IInv, StepInv, Kinds, Private, Public
<1>1. TypeOK'
  <2>1. step' = [step EXCEPT ![r] = to]
    BY DEF GoOn, Goto
  <2>2. to \in Kinds \union {"googleUser", "upsert", "myAccounts"}
    BY <1>a, BodyType DEF IInv
  <2>3. step' \in [Requests -> Kinds \union {"idle", "verify", "token", "googleUser",
                                   "upsert", "updateUser", "myAccounts", "ended"}]
    BY <2>1, <2>2 DEF IInv, TypeOK
  <2> QED
    BY <1>0, <2>3 DEF IInv, TypeOK
<1>2. StepInv'
  BY <1>0, <1>a DEF IInv, StepInv, Kinds, Public, Private
<1>3. AppliedInv'
  BY <1>0, <1>a DEF IInv, AppliedInv
<1>4. ClockInv'
  <2>1. \A q \in Requests : before[q] \subseteq Requests
    BY DEF IInv, TypeOK
  <2> QED
    BY <1>0, <1>a, <2>1 DEF IInv, ClockInv
<1>5. DuringInv'
  BY <1>0, <1>a DEF IInv, DuringInv, UnderWay, Target
<1>6. TokensInv'
  <2>1. \A t \in tokens : t.by \in Requests
    BY DEF IInv, TypeOK, Token
  <2> QED
    BY <1>0, <1>a, <2>1 DEF IInv, TokensInv
<1>7. VerifiedInv'
  <2>1. step[r] = "verify" => token[r] # NoToken /\ sent[r] <= token[r].expires
    <3> SUFFICES ASSUME step[r] = "verify" PROVE token[r] # NoToken /\ sent[r] <= token[r].expires
      OBVIOUS
    <3>1. Alive(token[r])
      BY DEF Kinds
    <3>2. token[r] \in Token /\ now \in Nat /\ sent[r] \in Nat /\ sent[r] <= now
      BY <3>1 DEF IInv, TypeOK, ClockInv, Alive
    <3> QED
      BY <3>1, <3>2 DEF Alive, Token
  <2>2. step[r] # "verify" => step[r] \notin Before
    BY <1>a DEF Before
  <2> QED
    BY <1>0, <1>a, <2>1, <2>2 DEF IInv, VerifiedInv, Before, Valid, MayUpdate
<1>8. StampInv'
  BY <1>0 DEF IInv, StampInv
<1>9. AccountsInv'
  BY <1>0, <1>a DEF IInv, AccountsInv
<1>10. ProvidersApart'
  BY <1>0 DEF IInv, ProvidersApart
<1>11. TokenSawRow'
  BY <1>0 DEF IInv, TokenSawRow, Target
<1>12. AnswersMatchRows'
  BY <1>0 DEF IInv, AnswersMatchRows
<1>13. ShowsOwnAccounts'
  BY <1>0 DEF IInv, ShowsOwnAccounts, OpenedBy
<1> QED
  BY <1>1, <1>2, <1>3, <1>4, <1>5, <1>6, <1>7, <1>8, <1>9, <1>10, <1>11, <1>12, <1>13 DEF IInv

(* A request is sent, with a token that was given out or none.             *)
LEMMA SendStep ==
  ASSUME IInv, NEW r \in Requests, NEW b \in Bodies, NEW t \in tokens \union {NoToken},
         Send(r, b, t)
  PROVE  IInv'
<1> DEFINE to == IF b.kind \in Public THEN b.kind ELSE "verify"
<1>b. b \in Body /\ b # NoBody /\ b.kind \in Kinds /\ NameIn(b) \in Names
  BY BodiesAssumption DEF Body, NameIn, Names
<1>t. t \in Token \union {NoToken}
  BY DEF IInv, TypeOK
<1>r. step[r] = "idle" /\ body[r] = NoBody /\ outcome[r] = 0 /\ r \notin applied
  BY DEF IInv, StepInv, AppliedInv, Send
<1>0. /\ \A q \in Requests :
           /\ step'[q] = IF q = r THEN to ELSE step[q]
           /\ body'[q] = IF q = r THEN b ELSE body[q]
           /\ token'[q] = IF q = r THEN t ELSE token[q]
           /\ sent'[q] = IF q = r /\ b.kind \notin Public THEN now ELSE sent[q]
           /\ before'[q] = IF q = r /\ b.kind \notin Public THEN Ended ELSE before[q]
           /\ during'[q] = IF q = r /\ b.kind \in Public THEN {users[NameIn(b)]} ELSE during[q]
      /\ UNCHANGED <<users, accounts, serial, applied, now, tokens, stamp, shown, outcome, row>>
  <2>1. UNCHANGED <<users, accounts, serial, applied, now, tokens, stamp, shown, outcome, row>>
    BY DEF Send, GoOn
  <2>2. \A q \in Requests : step'[q] = IF q = r THEN to ELSE step[q]
    BY DEF IInv, TypeOK, Send, GoOn, Goto
  <2>3. \A q \in Requests : body'[q] = IF q = r THEN b ELSE body[q]
    BY DEF IInv, TypeOK, Send
  <2>4. \A q \in Requests : token'[q] = IF q = r THEN t ELSE token[q]
    BY DEF IInv, TypeOK, Send
  <2>5. CASE b.kind \in Public
    BY <2>1, <2>2, <2>3, <2>4, <2>5 DEF IInv, TypeOK, Send
  <2>6. CASE b.kind \notin Public
    BY <2>1, <2>2, <2>3, <2>4, <2>6 DEF IInv, TypeOK, Send
  <2> QED
    BY <2>5, <2>6
<1>to. to \in Public \union {"verify"} /\ to \in Kinds \union {"verify"}
  BY <1>b
<1>1. TypeOK'
  <2>1. step' \in [Requests -> Kinds \union {"idle", "verify", "token", "googleUser",
                                   "upsert", "updateUser", "myAccounts", "ended"}]
    <3>1. step' = [step EXCEPT ![r] = to]
      BY DEF Send, GoOn, Goto
    <3> QED
      BY <3>1, <1>to DEF IInv, TypeOK
  <2>2. body' \in [Requests -> Bodies \union {NoBody}] /\ token' \in [Requests -> Token \union {NoToken}]
    BY <1>t DEF IInv, TypeOK, Send
  <2>3. /\ sent' \in [Requests -> Nat]
        /\ before' \in [Requests -> SUBSET Requests]
        /\ during' \in [Requests -> SUBSET (Row \union {NoRow})]
    <3>1. CASE b.kind \in Public
      BY <3>1, <1>b DEF IInv, TypeOK, Send
    <3>2. CASE b.kind \notin Public
      BY <3>2 DEF IInv, TypeOK, Send, Ended
    <3> QED
      BY <3>1, <3>2
  <2> QED
    BY <1>0, <2>1, <2>2, <2>3 DEF IInv, TypeOK
<1>2. StepInv'
  BY <1>0, <1>b, <1>r DEF IInv, StepInv, Kinds, Public, Private
<1>3. AppliedInv'
  BY <1>0, <1>r, <1>to DEF IInv, AppliedInv, Public
<1>4. ClockInv'
  <2>1. \A q \in Requests : before[q] \subseteq Requests /\ Ended \subseteq Requests
    BY DEF IInv, TypeOK, Ended
  <2>2. now \in Nat
    BY DEF IInv, TypeOK
  <2>3. \A q \in Requests : stamp[q] <= now /\ sent[q] <= now
    BY DEF IInv, ClockInv
  <2>4. \A q \in Requests : stamp'[q] <= now' /\ sent'[q] <= now'
    BY <1>0, <2>2, <2>3
  <2>5. \A q \in Requests :
          step'[q] = "updateUser" /\ body'[q].password # NoValue => sent'[q] <= stamp'[q]
    BY <1>0, <1>to DEF IInv, ClockInv, Public
  <2>6. \A q \in Requests : \A p \in before'[q] : step'[p] = "ended" /\ stamp'[p] <= sent'[q]
    <3> SUFFICES ASSUME NEW q \in Requests, NEW p \in before'[q]
                 PROVE  step'[p] = "ended" /\ stamp'[p] <= sent'[q]
      OBVIOUS
    <3>1. CASE q = r /\ b.kind \notin Public
      BY <3>1, <1>0, <1>r, <2>1, <2>3 DEF Ended
    <3>2. CASE ~(q = r /\ b.kind \notin Public)
      BY <3>2, <1>0, <1>r, <2>1 DEF IInv, ClockInv
    <3> QED
      BY <3>1, <3>2
  <2> QED
    BY <2>4, <2>5, <2>6 DEF ClockInv
<1>5. DuringInv'
  BY <1>0, <1>b, <1>r, <1>to DEF IInv, DuringInv, UnderWay, Target, Public
<1>6. TokensInv'
  <2>1. \A u \in tokens : u.by \in Requests
    BY DEF IInv, TypeOK, Token
  <2> QED
    BY <1>0, <1>r, <2>1 DEF IInv, TokensInv
<1>7. VerifiedInv'
  BY <1>0, <1>b, <1>to DEF IInv, VerifiedInv, Before, Valid, MayUpdate, Private, Public
<1>8. StampInv'
  <2>1. applied \subseteq Requests
    BY DEF IInv, TypeOK
  <2> QED
    BY <1>0, <1>r, <2>1 DEF IInv, StampInv
<1>9. AccountsInv'
  BY <1>0, <1>r, <1>to DEF IInv, AccountsInv, Public
<1>10. ProvidersApart'
  BY <1>0 DEF IInv, ProvidersApart
<1>11. TokenSawRow'
  <2>1. \A u \in tokens : u.by \in Requests /\ u.by # r
    BY <1>r DEF IInv, TypeOK, Token, TokensInv
  <2> QED
    BY <1>0, <2>1 DEF IInv, TokenSawRow, Target
<1>12. AnswersMatchRows'
  BY <1>0, <1>r DEF IInv, AnswersMatchRows
<1>13. ShowsOwnAccounts'
  <2>1. \A q \in Requests \ {r} : OpenedBy(q)' = OpenedBy(q)
    <3>1. \A q \in Requests : before[q] \subseteq Requests /\ r \notin before[q]
      BY <1>r DEF IInv, TypeOK, ClockInv
    <3> QED
      BY <1>0, <3>1 DEF OpenedBy
  <2>2. \A q \in Requests \ {r} : \A p \in OpenedBy(q) : p # r
    BY <1>r DEF IInv, OpenedBy, ClockInv, TypeOK
  <2>3. \A q \in Requests : OpenedBy(q) \subseteq Requests
    BY DEF IInv, OpenedBy, TypeOK
  <2> QED
    BY <1>0, <1>r, <2>1, <2>2, <2>3 DEF IInv, ShowsOwnAccounts
<1> QED
  BY <1>1, <1>2, <1>3, <1>4, <1>5, <1>6, <1>7, <1>8, <1>9, <1>10, <1>11, <1>12, <1>13 DEF IInv

(* A client gets its token, and knows what the row said.                   *)
LEMMA GiveTokenStep ==
  ASSUME IInv, NEW r \in Requests, step[r] = "token",
         tokens' = tokens \union {NewToken(r)},
         NEW status \in {200, 307}, End(r, status),
         UNCHANGED <<table, now, request, stamp, shown>>
  PROVE  IInv'
<1> USE DEF table, request
<1>0. /\ \A q \in Requests :
           /\ step'[q] = IF q = r THEN "ended" ELSE step[q]
           /\ outcome'[q] = IF q = r THEN status ELSE outcome[q]
           /\ row'[q] = IF q = r THEN NoRow ELSE row[q]
      /\ UNCHANGED <<table, now, request, stamp, shown>>
  BY EndFacts DEF IInv
<1>r. /\ body[r].kind \in {"login", "renew", "oauth"} /\ row[r] \in Row
      /\ body[r].kind = "oauth" => r \in applied
      /\ row[r] \in during[r]
      /\ Target(r) \in Names
  BY BodyType DEF IInv, TypeOK, StepInv, AppliedInv, DuringInv
<1>n. /\ NewToken(r) \in Token /\ NewToken(r).by = r /\ NewToken(r).name = Target(r)
      /\ NewToken(r).role = row[r].role
  <2>1. row[r].role \in Roles /\ now + Duration \in Nat
    BY <1>r, LimitsAssumption DEF IInv, TypeOK, Row
  <2> QED
    BY <1>r, <2>1 DEF NewToken, Token
<1>t. \A t \in tokens' : t \in tokens \/ t = NewToken(r)
  OBVIOUS
<1>m. tokens \subseteq tokens'
  OBVIOUS
<1> HIDE DEF NewToken
<1>1. TypeOK'
  BY <1>0, <1>n, EndType DEF IInv, TypeOK
<1>2. StepInv'
  BY <1>0 DEF IInv, StepInv, Kinds
<1>3. AppliedInv'
  BY <1>0 DEF IInv, AppliedInv
<1>4. ClockInv'
  <2>1. \A q \in Requests : before[q] \subseteq Requests
    BY DEF IInv, TypeOK
  <2> QED
    BY <1>0, <2>1 DEF IInv, ClockInv
<1>5. DuringInv'
  BY <1>0 DEF IInv, DuringInv, UnderWay, Target
<1>6. TokensInv'
  <2>1. \A t \in tokens : t.by \in Requests
    BY DEF IInv, TypeOK, Token
  <2> QED
    BY <1>0, <1>n, <1>t, <2>1 DEF IInv, TokensInv
<1>7. VerifiedInv'
  BY <1>0, <1>m DEF IInv, VerifiedInv, Before, Valid, MayUpdate
<1>8. StampInv'
  BY <1>0 DEF IInv, StampInv
<1>9. AccountsInv'
  BY <1>0, <1>r DEF IInv, AccountsInv
<1>10. ProvidersApart'
  BY <1>0 DEF IInv, ProvidersApart
<1>11. TokenSawRow'
  <2>1. row[r] \in during[r] \ {NoRow} /\ (body[r].kind = "login" => row[r].password = body[r].password)
    BY <1>r DEF IInv, DuringInv, StepInv
  <2> QED
    BY <1>0, <1>n, <1>t, <2>1 DEF IInv, TokenSawRow, Target
<1>12. AnswersMatchRows'
  BY <1>0, <1>r DEF IInv, AnswersMatchRows, Writers
<1>13. ShowsOwnAccounts'
  <2>1. \A q \in Requests : OpenedBy(q)' = OpenedBy(q)
    BY <1>0, <1>r DEF IInv, OpenedBy, ClockInv, TypeOK
  <2> QED
    BY <1>0, <1>r, <2>1 DEF IInv, ShowsOwnAccounts
<1> QED
  BY <1>1, <1>2, <1>3, <1>4, <1>5, <1>6, <1>7, <1>8, <1>9, <1>10, <1>11, <1>12, <1>13 DEF IInv

(* The row of the user is read.                                            *)
LEMMA ReadStep ==
  ASSUME IInv, NEW r \in Requests, step[r] \in {"login", "renew"}, NEW n \in Names,
         n = Target(r), users[n] # NoRow,
         step[r] = "login" => users[n].password = body[r].password,
         Goto(r, "token"), row' = [row EXCEPT ![r] = users[n]],
         UNCHANGED <<outcome, table, now, tokens, request, stamp, shown>>
  PROVE  IInv'
<1> USE DEF table, request
<1>0. /\ \A q \in Requests :
           /\ step'[q] = IF q = r THEN "token" ELSE step[q]
           /\ row'[q] = IF q = r THEN users[n] ELSE row[q]
      /\ UNCHANGED <<outcome, table, now, tokens, request, stamp, shown>>
  BY GotoFacts DEF IInv, TypeOK
<1>r. /\ step[r] \notin {"idle", "ended", "token", "updateUser"} /\ body[r] # NoBody
      /\ body[r].kind = step[r] /\ r \notin applied /\ outcome[r] = 0
  BY DEF IInv, StepInv, AppliedInv, Kinds
<1>1. TypeOK'
  <2>1. step' = [step EXCEPT ![r] = "token"]
    BY DEF Goto
  <2>2. step' \in [Requests -> Kinds \union {"idle", "verify", "token", "googleUser",
                                   "upsert", "updateUser", "myAccounts", "ended"}]
    BY <2>1 DEF IInv, TypeOK
  <2>3. row' \in [Requests -> Row \union {NoRow}]
    BY DEF IInv, TypeOK
  <2> QED
    BY <1>0, <2>2, <2>3 DEF IInv, TypeOK
<1>2. StepInv'
  BY <1>0, <1>r DEF IInv, StepInv, Kinds
<1>3. AppliedInv'
  BY <1>0, <1>r DEF IInv, AppliedInv
<1>4. ClockInv'
  <2>1. \A q \in Requests : before[q] \subseteq Requests
    BY DEF IInv, TypeOK
  <2> QED
    BY <1>0, <1>r, <2>1 DEF IInv, ClockInv
<1>5. DuringInv'
  <2>1. users[n] \in during[r]
    BY <1>r DEF IInv, DuringInv, UnderWay, Public
  <2> QED
    BY <1>0, <1>r, <2>1 DEF IInv, DuringInv, UnderWay, Target
<1>6. TokensInv'
  <2>1. \A t \in tokens : t.by \in Requests
    BY DEF IInv, TypeOK, Token
  <2> QED
    BY <1>0, <1>r, <2>1 DEF IInv, TokensInv
<1>7. VerifiedInv'
  BY <1>0, <1>r DEF IInv, VerifiedInv, Before, Valid, MayUpdate, Private, Public
<1>8. StampInv'
  BY <1>0 DEF IInv, StampInv
<1>9. AccountsInv'
  BY <1>0, <1>r DEF IInv, AccountsInv
<1>10. ProvidersApart'
  BY <1>0 DEF IInv, ProvidersApart
<1>11. TokenSawRow'
  BY <1>0 DEF IInv, TokenSawRow, Target
<1>12. AnswersMatchRows'
  BY <1>0 DEF IInv, AnswersMatchRows
<1>13. ShowsOwnAccounts'
  BY <1>0 DEF IInv, ShowsOwnAccounts, OpenedBy
<1> QED
  BY <1>1, <1>2, <1>3, <1>4, <1>5, <1>6, <1>7, <1>8, <1>9, <1>10, <1>11, <1>12, <1>13 DEF IInv

(* What a change of one row does to the table and to its history.          *)
LEMMA SetUsersFacts ==
  ASSUME TypeOK, StepInv, NEW n \in Names, NEW v \in Row, SetUsers([users EXCEPT ![n] = v])
  PROVE  /\ users' \in [Names -> Row \union {NoRow}]
         /\ \A m \in Names : users'[m] = IF m = n THEN v ELSE users[m]
         /\ during' \in [Requests -> SUBSET (Row \union {NoRow})]
         /\ \A q \in Requests : during[q] \subseteq during'[q]
         /\ \A q \in UnderWay : body[q].kind \in Public => users'[Target(q)] \in during'[q]
<1>1. users' = [users EXCEPT ![n] = v]
  BY DEF SetUsers
<1>2. users' \in [Names -> Row \union {NoRow}] /\ \A m \in Names : users'[m] = IF m = n THEN v ELSE users[m]
  BY <1>1 DEF TypeOK
<1>3. \A q \in UnderWay : Target(q) \in Names /\ q \in Requests
  BY BodyType DEF UnderWay
<1>4. \A q \in Requests :
        during'[q] = IF q \in UnderWay /\ body[q].kind \in Public
                       THEN during[q] \union {users'[Target(q)]} ELSE during[q]
  BY <1>1 DEF SetUsers
<1>5. \A q \in Requests : during'[q] \in SUBSET (Row \union {NoRow})
  <2> TAKE q \in Requests
  <2>1. during[q] \in SUBSET (Row \union {NoRow})
    BY DEF TypeOK
  <2>2. q \in UnderWay => users'[Target(q)] \in Row \union {NoRow}
    BY <1>2, <1>3
  <2> QED
    BY <1>4, <2>1, <2>2
<1>6. DOMAIN during' = Requests /\ during' = [q \in Requests |-> during'[q]]
  BY DEF SetUsers
<1> QED
  BY <1>2, <1>3, <1>4, <1>5, <1>6

(* The parts of the invariant that look at the rows only to see them.      *)
LEMMA HistoryGrows ==
  ASSUME IInv, UNCHANGED <<tokens, body>>,
         \A q \in Requests : during[q] \subseteq during'[q]
  PROVE  TokenSawRow'
<1>1. \A t \in tokens : t.by \in Requests /\ during[t.by] \subseteq during'[t.by]
  BY DEF IInv, TypeOK, Token
<1> SUFFICES ASSUME NEW t \in tokens
             PROVE  /\ t.name = Target(t.by)'
                    /\ \E was \in during'[t.by] \ {NoRow} :
                         /\ was.role = t.role
                         /\ body'[t.by].kind = "login" => was.password = body'[t.by].password
  BY DEF TokenSawRow
<1>2. PICK was \in during[t.by] \ {NoRow} :
         was.role = t.role /\ (body[t.by].kind = "login" => was.password = body[t.by].password)
  BY DEF IInv, TokenSawRow
<1>3. was \in during'[t.by] \ {NoRow}
  BY <1>1, <1>2
<1>4. t.name = Target(t.by)'
  BY DEF IInv, TokenSawRow, Target
<1> QED
  BY <1>2, <1>3, <1>4

(* A statement writes a row of users: the request ends, or goes on to make *)
(* its token from the row it wrote.                                        *)
LEMMA WriteStep ==
  ASSUME IInv, NEW r \in Requests, step[r] \in {"register", "upsert", "updateUser"},
         NEW n \in Names, NEW v \in Row, Apart(n, v),
         \/ v.stamp = 0
         \/ users[n] # NoRow /\ v.stamp = users[n].stamp
         \/ step[r] = "updateUser" /\ body[r].name = n /\ v.stamp = stamp[r],
         NEW to \in {"ended", "token"}, NEW status \in {0, 200, 201, 500},
         to = "ended" => status # 0,
         to = "token" => status = 0 /\ step[r] = "upsert" /\ n = Target(r) /\ row'[r] = v,
         \A q \in Requests : step'[q] = IF q = r THEN to ELSE step[q],
         \A q \in Requests : outcome'[q] = IF q = r THEN status ELSE outcome[q],
         \A q \in Requests : q # r => row'[q] = row[q],
         step' \in [Requests -> Kinds \union {"idle", "verify", "token", "googleUser", "upsert",
                                              "updateUser", "myAccounts", "ended"}],
         outcome' \in [Requests -> {0, 200, 201, 307, 400, 401, 403, 404, 409, 500, 502}],
         row' \in [Requests -> Row \union {NoRow}],
         SetUsers([users EXCEPT ![n] = v]), applied' = applied \union {r},
         UNCHANGED <<accounts, serial, now, tokens, request, stamp, shown>>
  PROVE  IInv'
<1> USE DEF request
<1>r. /\ step[r] \notin {"idle", "ended", "token", "verify"} /\ body[r] # NoBody
      /\ body[r].kind = "oauth" <=> step[r] = "upsert"
      /\ body[r].kind = "update" <=> step[r] = "updateUser"
      /\ body[r].kind \notin {"open", "me", "list", "account"}
      /\ r \notin applied /\ outcome[r] = 0
  BY DEF IInv, StepInv, AppliedInv, Kinds
<1>u. /\ users' \in [Names -> Row \union {NoRow}]
      /\ \A m \in Names : users'[m] = IF m = n THEN v ELSE users[m]
      /\ during' \in [Requests -> SUBSET (Row \union {NoRow})]
      /\ \A q \in Requests : during[q] \subseteq during'[q]
      /\ \A q \in UnderWay : body[q].kind \in Public => users'[Target(q)] \in during'[q]
  BY SetUsersFacts DEF IInv
<1>v. v # NoRow
  BY TablesAssumption
<1>1. TypeOK'
  BY <1>u DEF IInv, TypeOK
<1>2. StepInv'
  BY <1>r, <1>v DEF IInv, StepInv, Kinds
<1>3. AppliedInv'
  BY <1>r DEF IInv, AppliedInv
<1>4. ClockInv'
  <2>1. \A q \in Requests : before[q] \subseteq Requests
    BY DEF IInv, TypeOK
  <2> QED
    BY <1>r, <2>1 DEF IInv, ClockInv
<1>5. DuringInv'
  <2>1. \A q \in Requests : q \in UnderWay' => q \in UnderWay
    BY <1>r DEF UnderWay
  <2>2. \A q \in Requests : Target(q)' = Target(q)
    BY DEF Target
  <2>3. \A q \in Requests : q \in UnderWay' /\ body'[q].kind \in Public => users'[Target(q)'] \in during'[q]
    BY <1>u, <2>1, <2>2
  <2>4. to = "token" => users'[Target(r)] \in during'[r] /\ users'[Target(r)] = row'[r]
    BY <1>u, <1>r DEF UnderWay, Public
  <2>5. \A q \in Requests :
          step'[q] = "token" =>
            /\ row'[q] \in during'[q]
            /\ body'[q].kind = "login" => row'[q].password = body'[q].password
    BY <1>u, <1>r, <2>4 DEF IInv, DuringInv
  <2> QED
    BY <2>3, <2>5 DEF DuringInv
<1>6. TokensInv'
  <2>1. \A t \in tokens : t.by \in Requests
    BY DEF IInv, TypeOK, Token
  <2> QED
    BY <1>r, <2>1 DEF IInv, TokensInv
<1>7. VerifiedInv'
  BY <1>r DEF IInv, VerifiedInv, Before, Valid, MayUpdate, Private, Public
<1>8. StampInv'
  <2>1. \A q \in applied : q \in applied'
    OBVIOUS
  <2>2. users'[n].stamp # 0 =>
          \E q \in applied' :
            body[q] # NoBody /\ body[q].kind = "update" /\ body[q].name = n /\ stamp[q] = users'[n].stamp
    BY <1>r, <1>u, <2>1 DEF IInv, StampInv
  <2> QED
    BY <1>u, <2>1, <2>2 DEF IInv, StampInv
<1>9. AccountsInv'
  BY <1>r DEF IInv, AccountsInv
<1>10. ProvidersApart'
  BY <1>u DEF IInv, ProvidersApart
<1>11. TokenSawRow'
  BY <1>u, HistoryGrows
<1>12. AnswersMatchRows'
  BY <1>r DEF IInv, AnswersMatchRows
<1>13. ShowsOwnAccounts'
  <2>1. \A q \in Requests : OpenedBy(q)' = OpenedBy(q)
    BY <1>r DEF IInv, OpenedBy, ClockInv, TypeOK
  <2> QED
    BY <1>r, <2>1 DEF IInv, ShowsOwnAccounts
<1> QED
  BY <1>1, <1>2, <1>3, <1>4, <1>5, <1>6, <1>7, <1>8, <1>9, <1>10, <1>11, <1>12, <1>13 DEF IInv

(* A registration adds a row of its own.                                   *)
LEMMA CreateUserStep == ASSUME IInv, NEW r \in Requests, CreateUser(r) PROVE IInv'
<1>r. /\ step[r] = "register" /\ step[r] \notin {"idle", "ended"} /\ r \notin applied
      /\ body[r].kind = "register" /\ body[r] \in Bodies /\ body[r] \in Body /\ body[r].name \in Names
  BY BodyType DEF IInv, AppliedInv, StepInv, Kinds, CreateUser
<1>1. CASE body[r].name \notin Alphanum \/ users[body[r].name] # NoRow \/ Taken(body[r].email, body[r].name)
  <2>1. PICK status \in {400, 409} : End(r, status) /\ UNCHANGED table
    BY <1>1 DEF CreateUser
  <2> QED
    BY <1>r, <2>1, RefuseStep DEF CreateUser
<1>2. CASE /\ body[r].name \in Alphanum /\ users[body[r].name] = NoRow
           /\ ~Taken(body[r].email, body[r].name)
  <2> DEFINE n == body[r].name
             v == NewRow(body[r], "local")
  <2>1. PICK status \in {201, 500} : End(r, status)
    BY <1>2 DEF CreateUser
  <2>2. v \in Row /\ Apart(n, v) /\ v.stamp = 0
    BY <1>r, <1>2, BodiesAssumption, LimitsAssumption DEF NewRow, Row, Body, Apart
  <2>3. /\ SetUsers([users EXCEPT ![n] = v]) /\ applied' = applied \union {r}
        /\ UNCHANGED <<accounts, serial, now, tokens, request, stamp, shown>>
    BY <1>2 DEF CreateUser
  <2>4. /\ \A q \in Requests :
             /\ step'[q] = IF q = r THEN "ended" ELSE step[q]
             /\ outcome'[q] = IF q = r THEN status ELSE outcome[q]
             /\ row'[q] = IF q = r THEN NoRow ELSE row[q]
        /\ step' \in [Requests -> Kinds \union {"idle", "verify", "token", "googleUser",
                                     "upsert", "updateUser", "myAccounts", "ended"}]
        /\ outcome' \in [Requests -> {0, 200, 201, 307, 400, 401, 403, 404, 409, 500, 502}]
        /\ row' \in [Requests -> Row \union {NoRow}]
    BY <2>1, EndFacts, EndType DEF IInv
  <2> HIDE DEF v, n
  <2>5. n \in Names
    BY <1>r DEF n
  <2> QED
    BY <1>r, <2>2, <2>3, <2>4, <2>5, WriteStep
<1> QED
  BY <1>1, <1>2

(* A sign-in at Google writes the row of a name that nobody can register.  *)
LEMMA UpsertUserStep == ASSUME IInv, NEW r \in Requests, UpsertUser(r) PROVE IInv'
<1> DEFINE n == Target(r)
           v == Upserted(body[r], n)
<1>r. /\ step[r] = "upsert" /\ step[r] \notin {"idle", "ended"} /\ r \notin applied /\ outcome[r] = 0
      /\ body[r].kind = "oauth" /\ body[r] \in Bodies /\ body[r] \in Body
      /\ n = GoogleName(body[r].name) /\ n \in Names /\ n \notin Alphanum
  BY BodyType, HyphenAssumption DEF IInv, AppliedInv, StepInv, UpsertUser, Target, NameIn
<1>v. /\ v \in Row /\ Apart(n, v)
      /\ v.stamp = 0 \/ (users[n] # NoRow /\ v.stamp = users[n].stamp)
  <2>1. body[r].email \in Emails
    BY <1>r, BodiesAssumption DEF Body
  <2>2. CASE users[n] = NoRow
    BY <1>r, <2>1, <2>2, LimitsAssumption DEF Upserted, NewRow, Row, Apart
  <2>3. CASE users[n] # NoRow
    <3>1. users[n] \in Row /\ Apart(n, users[n])
      BY <1>r, <2>3 DEF IInv, TypeOK, ProvidersApart
    <3>2. v = [users[n] EXCEPT !.email = body[r].email, !.password = NoValue]
      BY <2>3 DEF Upserted
    <3> QED
      BY <1>r, <2>1, <2>3, <3>1, <3>2 DEF Row, Apart
  <2> QED
    BY <2>2, <2>3
<1>1. CASE Taken(body[r].email, n)
  <2>1. End(r, 409) /\ UNCHANGED table
    BY <1>1 DEF UpsertUser
  <2> QED
    BY <1>r, <2>1, RefuseStep DEF UpsertUser
<1>2. CASE ~Taken(body[r].email, n)
  <2>3. /\ SetUsers([users EXCEPT ![n] = v]) /\ applied' = applied \union {r}
        /\ UNCHANGED <<accounts, serial, now, tokens, request, stamp, shown>>
        /\ \/ Goto(r, "token") /\ row' = [row EXCEPT ![r] = users'[n]] /\ UNCHANGED outcome
           \/ End(r, 500)
    BY <1>2 DEF UpsertUser
  <2>5. users'[n] = v
    BY <1>r, <2>3 DEF IInv, TypeOK, SetUsers
  <2>a. CASE End(r, 500)
    <3> DEFINE status == 500
    <3>4. /\ \A q \in Requests :
                 /\ step'[q] = IF q = r THEN "ended" ELSE step[q]
                 /\ outcome'[q] = IF q = r THEN status ELSE outcome[q]
                 /\ row'[q] = IF q = r THEN NoRow ELSE row[q]
          /\ step' \in [Requests -> Kinds \union {"idle", "verify", "token", "googleUser",
                                     "upsert", "updateUser", "myAccounts", "ended"}]
          /\ outcome' \in [Requests -> {0, 200, 201, 307, 400, 401, 403, 404, 409, 500, 502}]
          /\ row' \in [Requests -> Row \union {NoRow}]
      BY <2>a, EndFacts, EndType DEF IInv
    <3> HIDE DEF n, v, status
    <3>5. status \in {200, 201, 500}
      BY DEF status
    <3> QED
      BY <1>r, <1>v, <2>3, <3>4, <3>5, WriteStep
  <2>b. CASE Goto(r, "token") /\ row' = [row EXCEPT ![r] = users'[n]] /\ UNCHANGED outcome
    <3>1. \A q \in Requests : step'[q] = IF q = r THEN "token" ELSE step[q]
      BY <2>b, GotoFacts DEF IInv
    <3>2. step' \in [Requests -> Kinds \union {"idle", "verify", "token", "googleUser",
                                     "upsert", "updateUser", "myAccounts", "ended"}]
      BY <2>b DEF IInv, TypeOK, Goto
    <3>3. row' = [row EXCEPT ![r] = v]
      BY <2>b, <2>5
    <3>4. \A q \in Requests : outcome'[q] = IF q = r THEN 0 ELSE outcome[q]
      BY <1>r, <2>b
    <3> HIDE DEF n, v
    <3>5. row' \in [Requests -> Row \union {NoRow}] /\ row'[r] = v /\ \A q \in Requests : q # r => row'[q] = row[q]
      BY <3>3, <1>v DEF IInv, TypeOK
    <3>6. outcome' \in [Requests -> {0, 200, 201, 307, 400, 401, 403, 404, 409, 500, 502}]
      BY <2>b DEF IInv, TypeOK
    <3>7. n = Target(r)
      BY DEF n
    <3> QED
      BY <1>r, <1>v, <2>3, <3>1, <3>2, <3>4, <3>5, <3>6, <3>7, WriteStep
  <2> QED
    BY <2>3, <2>a, <2>b
<1> QED
  BY <1>1, <1>2

(* An update writes the row of a name that may register.                   *)
LEMMA UpdateUserStep == ASSUME IInv, NEW r \in Requests, UpdateUser(r) PROVE IInv'
<1> DEFINE n == body[r].name
           v == Updated(r, users[n])
<1>r. /\ step[r] = "updateUser" /\ step[r] \notin {"idle", "ended"} /\ r \notin applied
      /\ body[r] \in Body /\ n \in Names /\ n \in Alphanum
  BY BodyType, WordsAssumption DEF IInv, AppliedInv, StepInv, VerifiedInv, Valid, UpdateUser
<1>1. CASE users[n] = NoRow \/ Taken(body[r].email, n)
  <2>1. PICK status \in {404, 500} : End(r, status) /\ UNCHANGED table
    BY <1>1 DEF UpdateUser
  <2> QED
    BY <1>r, <2>1, RefuseStep DEF UpdateUser
<1>2. CASE users[n] # NoRow /\ ~Taken(body[r].email, n)
  <2>1. PICK status \in {200, 500} : End(r, status)
    BY <1>2 DEF UpdateUser
  <2>2. /\ v \in Row /\ Apart(n, v)
        /\ v.stamp = users[n].stamp \/ v.stamp = stamp[r]
    <3>1. users[n] \in Row /\ Apart(n, users[n])
      BY <1>r, <1>2 DEF IInv, TypeOK, ProvidersApart
    <3>2. /\ Coalesce(body[r].password, users[n].password) \in Passwords \union {NoValue}
          /\ users[n].password # NoValue => Coalesce(body[r].password, users[n].password) # NoValue
          /\ Coalesce(body[r].email, users[n].email) \in Emails
      BY <1>r, <3>1 DEF Coalesce, Body, Row
    <3>3. stamp[r] \in Nat /\ users[n].stamp \in Nat
      BY <3>1 DEF IInv, TypeOK, Row
    <3>4. v = [users[n] EXCEPT
                 !.password = Coalesce(body[r].password, users[n].password),
                 !.stamp = IF body[r].password = NoValue THEN users[n].stamp ELSE stamp[r],
                 !.email = Coalesce(body[r].email, users[n].email)]
      BY <3>1 DEF Updated, Row
    <3> HIDE DEF v
    <3> QED
      BY <1>r, <3>1, <3>2, <3>3, <3>4 DEF Row, Apart
  <2>3. /\ SetUsers([users EXCEPT ![n] = v]) /\ applied' = applied \union {r}
        /\ UNCHANGED <<accounts, serial, now, tokens, request, stamp, shown>>
    <3>1. SetUsers([users EXCEPT ![n] = Updated(r, @)])
      BY <1>2 DEF UpdateUser
    <3> QED
      BY <1>2, <3>1 DEF UpdateUser
  <2>4. /\ \A q \in Requests :
             /\ step'[q] = IF q = r THEN "ended" ELSE step[q]
             /\ outcome'[q] = IF q = r THEN status ELSE outcome[q]
             /\ row'[q] = IF q = r THEN NoRow ELSE row[q]
        /\ step' \in [Requests -> Kinds \union {"idle", "verify", "token", "googleUser",
                                     "upsert", "updateUser", "myAccounts", "ended"}]
        /\ outcome' \in [Requests -> {0, 200, 201, 307, 400, 401, 403, 404, 409, 500, 502}]
        /\ row' \in [Requests -> Row \union {NoRow}]
    BY <2>1, EndFacts, EndType DEF IInv
  <2> HIDE DEF v
  <2> QED
    BY <1>r, <1>2, <2>2, <2>3, <2>4, WriteStep
<1> QED
  BY <1>1, <1>2

(* An update is checked, and the clock is read for its stamp.              *)
LEMMA CheckUpdateStep == ASSUME IInv, NEW r \in Requests, CheckUpdate(r) PROVE IInv'
<1> USE DEF table, request
<1>r. /\ step[r] = "update" /\ step[r] \notin {"idle", "ended"} /\ body[r].kind = "update"
      /\ r \notin applied /\ body[r] # NoBody /\ outcome[r] = 0
  BY DEF IInv, AppliedInv, StepInv, Kinds, CheckUpdate
<1>1. CASE \/ token[r].role \notin {Banker, Depositor}
           \/ ~Valid(body[r])
           \/ ~MayUpdate(r)
  <2>1. PICK status \in {400, 403} : End(r, status) /\ UNCHANGED stamp
    BY <1>1 DEF CheckUpdate
  <2> QED
    BY <1>r, <2>1, RefuseStep DEF CheckUpdate
<1>2. CASE Valid(body[r]) /\ MayUpdate(r) /\ token[r].role \in {Banker, Depositor}
  <2>s. stamp' = [stamp EXCEPT ![r] = IF body[r].password = NoValue THEN 0 ELSE now]
    BY <1>2 DEF CheckUpdate
  <2>g. GoOn(r, "updateUser")
    BY <1>2 DEF CheckUpdate
  <2>0. /\ \A q \in Requests :
             /\ step'[q] = IF q = r THEN "updateUser" ELSE step[q]
             /\ q # r => stamp'[q] = stamp[q]
        /\ stamp'[r] = IF body[r].password = NoValue THEN 0 ELSE now
        /\ UNCHANGED <<table, now, tokens, request, shown, outcome, row>>
    BY <2>s, <2>g, GotoFacts DEF IInv, TypeOK, GoOn, CheckUpdate
  <2>1. TypeOK'
    <3>1. stamp' \in [Requests -> Nat]
      BY <2>s DEF IInv, TypeOK
    <3>2. step' \in [Requests -> Kinds \union {"idle", "verify", "token", "googleUser",
                                     "upsert", "updateUser", "myAccounts", "ended"}]
      BY <2>g DEF IInv, TypeOK, GoOn, Goto
    <3> QED
      BY <2>0, <3>1, <3>2 DEF IInv, TypeOK
  <2>2. StepInv'
    BY <1>r, <2>0 DEF IInv, StepInv, Kinds
  <2>3. AppliedInv'
    BY <1>r, <2>0 DEF IInv, AppliedInv
  <2>4. ClockInv'
    <3>1. \A q \in Requests : before[q] \subseteq Requests
      BY DEF IInv, TypeOK
    <3>2. now \in Nat /\ \A q \in Requests : \A p \in before[q] : p # r
      BY <1>r, <3>1 DEF IInv, TypeOK, ClockInv
    <3>3. \A q \in Requests : stamp'[q] <= now /\ sent[q] <= now
      BY <2>0, <3>2 DEF IInv, ClockInv
    <3>4. \A q \in Requests : \A p \in before[q] : step'[p] = "ended" /\ stamp'[p] <= sent[q]
      BY <2>0, <3>1, <3>2 DEF IInv, ClockInv
    <3>5. \A q \in Requests :
            step'[q] = "updateUser" /\ body[q].password # NoValue => sent[q] <= stamp'[q]
      BY <2>0, <3>3 DEF IInv, ClockInv
    <3> QED
      BY <2>0, <3>3, <3>4, <3>5 DEF ClockInv
  <2>5. DuringInv'
    BY <1>r, <2>0 DEF IInv, DuringInv, UnderWay, Target
  <2>6. TokensInv'
    <3>1. \A t \in tokens : t.by \in Requests
      BY DEF IInv, TypeOK, Token
    <3> QED
      BY <1>r, <2>0, <3>1 DEF IInv, TokensInv
  <2>7. VerifiedInv'
    BY <1>r, <1>2, <2>0 DEF IInv, VerifiedInv, Before, Valid, MayUpdate
  <2>8. StampInv'
    <3>1. \A q \in applied : q \in Requests /\ q # r
      BY <1>r DEF IInv, TypeOK
    <3> QED
      BY <2>0, <3>1 DEF IInv, StampInv
  <2>9. AccountsInv'
    BY <2>0 DEF IInv, AccountsInv
  <2>10. ProvidersApart'
    BY <2>0 DEF IInv, ProvidersApart
  <2>11. TokenSawRow'
    BY <2>0 DEF IInv, TokenSawRow, Target
  <2>12. AnswersMatchRows'
    BY <2>0 DEF IInv, AnswersMatchRows
  <2>13. ShowsOwnAccounts'
    BY <2>0 DEF IInv, ShowsOwnAccounts, OpenedBy
  <2> QED
    BY <2>1, <2>2, <2>3, <2>4, <2>5, <2>6, <2>7, <2>8, <2>9, <2>10, <2>11, <2>12, <2>13 DEF IInv
<1> QED
  BY <1>1, <1>2

(* An account is opened, or an id is used up by an INSERT that a           *)
(* constraint refused.                                                     *)
LEMMA CreateAccountStep == ASSUME IInv, NEW r \in Requests, CreateAccount(r) PROVE IInv'
<1> USE DEF table, request
<1> DEFINE n == token[r].name
           c == body[r].currency
           a == [id |-> serial + 1, owner |-> n, currency |-> c]
<1>r. /\ step[r] = "open" /\ step[r] \notin {"idle", "ended"} /\ body[r].kind = "open"
      /\ r \notin applied /\ body[r] # NoBody /\ outcome[r] = 0 /\ c \in Currencies
      /\ token[r] \in Token /\ n \in Names
  <2>1. step[r] = "open" /\ body[r].kind = "open"
    BY DEF IInv, StepInv, Kinds, CreateAccount
  <2>2. token[r] # NoToken
    BY <2>1 DEF IInv, VerifiedInv, Before, Private, Kinds, Public
  <2>3. token[r] \in Token
    BY <2>2 DEF IInv, TypeOK
  <2>4. c \in Currencies
    BY <2>1, BodyType DEF IInv
  <2> QED
    BY <2>1, <2>3, <2>4 DEF IInv, AppliedInv, StepInv, Token
<1>1. CASE c \notin Supported
  <2>1. End(r, 400) /\ UNCHANGED <<accounts, serial, applied>>
    BY <1>1 DEF CreateAccount
  <2> QED
    BY <1>r, <2>1, RefuseStep DEF CreateAccount
<1>2. CASE c \in Supported
  <2> DEFINE refused == users[n] = NoRow \/ \E x \in Mine(n) : x.currency = c
  <2>1. \E status \in {200, 409, 500} :
          /\ End(r, status)
          /\ \/ status = 409 /\ accounts' = accounts /\ applied' = applied
             \/ /\ status # 409 /\ ~refused
                /\ accounts' = accounts \union {a} /\ applied' = applied \union {r}
    <3>1. CASE refused
      BY <1>2, <3>1 DEF CreateAccount
    <3>2. CASE ~refused
      <4>1. PICK answer \in {200, 500} : End(r, answer)
        BY <1>2, <3>2 DEF CreateAccount, Mine
      <4>2. accounts' = accounts \union {a} /\ applied' = applied \union {r}
        BY <1>2, <3>2 DEF CreateAccount, Mine
      <4> QED
        BY <3>2, <4>1, <4>2
    <3> QED
      BY <3>1, <3>2
  <2>2. serial' = serial + 1 /\ serial \in Nat
    BY <1>2 DEF IInv, TypeOK, CreateAccount
  <2>3. PICK status \in {200, 409, 500} :
          /\ End(r, status)
          /\ \/ status = 409 /\ accounts' = accounts /\ applied' = applied
             \/ /\ status # 409 /\ ~refused
                /\ accounts' = accounts \union {a} /\ applied' = applied \union {r}
    BY <2>1
  <2>0. /\ \A q \in Requests :
             /\ step'[q] = IF q = r THEN "ended" ELSE step[q]
             /\ outcome'[q] = IF q = r THEN status ELSE outcome[q]
             /\ row'[q] = IF q = r THEN NoRow ELSE row[q]
        /\ UNCHANGED <<users, during, now, tokens, request, stamp, shown>>
    BY <2>3, EndFacts DEF IInv, CreateAccount
  <2>a. a \in Account /\ a.owner = n /\ a.currency = c
    BY <1>r, <2>2 DEF Account
  <2>n. ~refused => \A x \in accounts : ~(x.owner = n /\ x.currency = c)
    BY DEF Mine
  <2> HIDE DEF a, refused
  <2>b. /\ accounts \subseteq accounts' /\ applied \subseteq applied' /\ applied' \subseteq applied \union {r}
        /\ \A x \in accounts' : x \in accounts \/ (x = a /\ ~refused)
        /\ status = 200 => a \in accounts'
        /\ status = 200 => r \in applied'
        /\ r \in applied' => status \in {200, 500}
    BY <1>r, <2>3
  <2>p. \A q \in Requests : \A p \in before[q] : p \in Requests /\ p # r
    BY <1>r DEF IInv, TypeOK, ClockInv
  <2>4. TypeOK'
    <3>1. /\ step' \in [Requests -> Kinds \union {"idle", "verify", "token", "googleUser",
                                       "upsert", "updateUser", "myAccounts", "ended"}]
          /\ outcome' \in [Requests -> {0, 200, 201, 307, 400, 401, 403, 404, 409, 500, 502}]
          /\ row' \in [Requests -> Row \union {NoRow}]
      BY <2>3, EndType DEF IInv
    <3>2. accounts' \subseteq Account /\ applied' \subseteq Requests /\ serial' \in Nat
      BY <2>2, <2>a, <2>b DEF IInv, TypeOK
    <3> QED
      BY <2>0, <3>1, <3>2 DEF IInv, TypeOK
  <2>5. StepInv'
    BY <1>r, <2>0 DEF IInv, StepInv, Kinds
  <2>6. AppliedInv'
    BY <1>r, <2>0, <2>b DEF IInv, AppliedInv
  <2>7. ClockInv'
    BY <2>0, <2>p DEF IInv, ClockInv
  <2>8. DuringInv'
    BY <1>r, <2>0 DEF IInv, DuringInv, UnderWay, Target
  <2>9. TokensInv'
    <3>1. \A t \in tokens : t.by \in Requests
      BY DEF IInv, TypeOK, Token
    <3> QED
      BY <2>0, <3>1 DEF IInv, TokensInv
  <2>10. VerifiedInv'
    BY <1>r, <2>0 DEF IInv, VerifiedInv, Before, Valid, MayUpdate
  <2>11. StampInv'
    BY <2>0, <2>b DEF IInv, StampInv
  <2>12. AccountsInv'
    <3>1. IsFiniteSet(accounts')
      BY <2>3, FS_AddElement DEF IInv, AccountsInv
    <3>2. \A x \in accounts' : x.currency \in Supported
      BY <1>2, <2>a, <2>b DEF IInv, AccountsInv
    <3>3. \A x, y \in accounts' : x.owner = y.owner /\ x.currency = y.currency => x = y
      BY <2>a, <2>b, <2>n DEF IInv, AccountsInv
    <3>4. \A q \in Requests :
            step'[q] = "ended" /\ body[q].kind = "open" /\ outcome'[q] = 200 =>
              \E x \in accounts' : x.owner = token[q].name /\ x.currency = body[q].currency
      BY <2>0, <2>a, <2>b DEF IInv, AccountsInv
    <3> QED
      BY <2>0, <3>1, <3>2, <3>3, <3>4 DEF AccountsInv
  <2>13. ProvidersApart'
    BY <2>0 DEF IInv, ProvidersApart
  <2>14. TokenSawRow'
    BY <2>0 DEF IInv, TokenSawRow, Target
  <2>15. AnswersMatchRows'
    BY <1>r, <2>0, <2>b DEF IInv, AnswersMatchRows
  <2>16. ShowsOwnAccounts'
    <3>1. \A q \in Requests : OpenedBy(q)' = OpenedBy(q)
      BY <2>0, <2>p DEF OpenedBy
    <3> QED
      BY <1>r, <2>0, <3>1 DEF IInv, ShowsOwnAccounts
  <2> QED
    BY <2>4, <2>5, <2>6, <2>7, <2>8, <2>9, <2>10, <2>11, <2>12, <2>13, <2>14, <2>15, <2>16 DEF IInv
<1> QED
  BY <1>1, <1>2

(* One page holds all the accounts one owner can have.                     *)
LEMMA FirstPage == ASSUME TypeOK, AccountsInv, NEW n PROVE Page(n, 0) = Mine(n)
<1> DEFINE f == [a \in Mine(n) |-> a.currency]
<1>1. f \in Injection(Mine(n), Supported)
  BY DEF AccountsInv, Mine, Injection, IsInjective
<1>2. IsFiniteSet(Mine(n)) /\ Cardinality(Mine(n)) <= Cardinality(Supported)
  BY <1>1, FS_Injection, LimitsAssumption
<1>3. ASSUME NEW a \in Mine(n)
      PROVE  Cardinality({b \in Mine(n) : b.id < a.id}) \in 0..0 + PageSize - 1
  <2> DEFINE S == {b \in Mine(n) : b.id < a.id}
  <2>1. a.id \in Nat
    BY DEF TypeOK, Mine, Account
  <2>2. S \subseteq Mine(n) /\ S # Mine(n)
    BY <2>1
  <2>3. IsFiniteSet(S) /\ Cardinality(S) <= Cardinality(Mine(n)) /\ Cardinality(S) # Cardinality(Mine(n))
    BY <1>2, <2>2, FS_Subset
  <2>4. Cardinality(S) \in Nat /\ Cardinality(Mine(n)) \in Nat /\ Cardinality(Supported) \in Nat
    BY <1>2, <2>3, FS_CardinalityType, LimitsAssumption
  <2>5. Cardinality(Supported) <= PageSize /\ PageSize \in Nat
    BY LimitsAssumption
  <2> QED
    BY <1>2, <2>3, <2>4, <2>5
<1> QED
  BY <1>3 DEF Page

(* The offset of the first page is 0, whatever the width of an int32.      *)
LEMMA FirstOffset == Offset(1) = 0
<1>1. Half \in Nat /\ Half > 0 /\ PageSize \in Nat
  BY LimitsAssumption
<1>2. (1 - 1) * PageSize = 0
  BY <1>1
<1>3. Half % (2 * Half) = Half
  BY <1>1
<1> QED
  BY <1>1, <1>2, <1>3 DEF Offset, Int32

(* A page of accounts is shown to their owner.                             *)
LEMMA ShowStep ==
  ASSUME IInv, NEW r \in Requests, step[r] \in {"account", "list", "myAccounts"},
         NEW set \in SUBSET accounts, \A a \in set : a.owner = token[r].name,
         body[r].kind = "me" \/ (body[r].kind = "list" /\ body[r].page = 1)
           => set = Mine(token[r].name),
         Show(r, set), UNCHANGED <<table, now, tokens, request, stamp>>
  PROVE  IInv'
<1> USE DEF table, request
<1>r. /\ step[r] \notin {"idle", "ended"} /\ body[r].kind \in {"account", "list", "me"}
      /\ r \notin applied /\ body[r] # NoBody
  BY DEF IInv, AppliedInv, StepInv, Kinds
<1>e. End(r, 200) /\ shown' = [shown EXCEPT ![r] = set]
  BY DEF Show
<1>0. /\ \A q \in Requests :
           /\ step'[q] = IF q = r THEN "ended" ELSE step[q]
           /\ outcome'[q] = IF q = r THEN 200 ELSE outcome[q]
           /\ row'[q] = IF q = r THEN NoRow ELSE row[q]
           /\ shown'[q] = IF q = r THEN set ELSE shown[q]
      /\ UNCHANGED <<table, now, tokens, request, stamp>>
  BY <1>e, EndFacts DEF IInv, TypeOK
<1>p. \A q \in Requests : \A p \in before[q] : p \in Requests /\ p # r
  BY <1>r DEF IInv, TypeOK, ClockInv
<1>1. TypeOK'
  <2>1. shown' \in [Requests -> SUBSET Account]
    BY <1>e DEF IInv, TypeOK
  <2>2. /\ step' \in [Requests -> Kinds \union {"idle", "verify", "token", "googleUser",
                                     "upsert", "updateUser", "myAccounts", "ended"}]
        /\ outcome' \in [Requests -> {0, 200, 201, 307, 400, 401, 403, 404, 409, 500, 502}]
        /\ row' \in [Requests -> Row \union {NoRow}]
    BY <1>e, EndType DEF IInv
  <2> QED
    BY <1>0, <2>1, <2>2 DEF IInv, TypeOK
<1>2. StepInv'
  BY <1>r, <1>0 DEF IInv, StepInv, Kinds
<1>3. AppliedInv'
  BY <1>r, <1>0 DEF IInv, AppliedInv
<1>4. ClockInv'
  BY <1>0, <1>p DEF IInv, ClockInv
<1>5. DuringInv'
  BY <1>0 DEF IInv, DuringInv, UnderWay, Target
<1>6. TokensInv'
  <2>1. \A t \in tokens : t.by \in Requests
    BY DEF IInv, TypeOK, Token
  <2> QED
    BY <1>0, <2>1 DEF IInv, TokensInv
<1>7. VerifiedInv'
  BY <1>0 DEF IInv, VerifiedInv, Before, Valid, MayUpdate
<1>8. StampInv'
  BY <1>0 DEF IInv, StampInv
<1>9. AccountsInv'
  BY <1>r, <1>0 DEF IInv, AccountsInv
<1>10. ProvidersApart'
  BY <1>0 DEF IInv, ProvidersApart
<1>11. TokenSawRow'
  BY <1>0 DEF IInv, TokenSawRow, Target
<1>12. AnswersMatchRows'
  BY <1>r, <1>0 DEF IInv, AnswersMatchRows, Writers
<1>13. ShowsOwnAccounts'
  <2>1. \A q \in Requests : OpenedBy(q)' = OpenedBy(q)
    BY <1>0, <1>p DEF OpenedBy
  <2>2. \A q \in OpenedBy(r) : \E a \in Mine(token[r].name) : a.currency = body[q].currency
    BY <1>p DEF IInv, ClockInv, AccountsInv, OpenedBy, Mine
  <2>3. /\ \A a \in shown'[r] : a.owner = token[r].name
        /\ body[r].kind = "me" \/ (body[r].kind = "list" /\ body[r].page = 1) =>
             \A q \in OpenedBy(r) : \E a \in shown'[r] : a.currency = body[q].currency
    BY <1>0, <2>2
  <2> QED
    BY <1>0, <2>1, <2>3 DEF IInv, ShowsOwnAccounts
<1> QED
  BY <1>1, <1>2, <1>3, <1>4, <1>5, <1>6, <1>7, <1>8, <1>9, <1>10, <1>11, <1>12, <1>13 DEF IInv

(* A role is set in the database.                                          *)
LEMMA SetRoleStep ==
  ASSUME IInv, NEW n \in Names, NEW role \in Roles, SetRole(n, role)
  PROVE  IInv'
<1> USE DEF request, local
<1> DEFINE v == [users[n] EXCEPT !.role = role]
<1>o. users[n] \in Row /\ Apart(n, users[n])
  BY DEF IInv, TypeOK, ProvidersApart, SetRole
<1>v. v \in Row /\ Apart(n, v) /\ v.stamp = users[n].stamp /\ users[n] # NoRow /\ v # NoRow
  BY <1>o, TablesAssumption DEF Row, Apart, SetRole
<1>s. SetUsers([users EXCEPT ![n] = v])
      /\ UNCHANGED <<accounts, serial, applied, now, tokens, request, local, step, outcome>>
  BY DEF SetRole
<1> HIDE DEF v
<1>u. /\ users' \in [Names -> Row \union {NoRow}]
      /\ \A m \in Names : users'[m] = IF m = n THEN v ELSE users[m]
      /\ during' \in [Requests -> SUBSET (Row \union {NoRow})]
      /\ \A q \in Requests : during[q] \subseteq during'[q]
      /\ \A q \in UnderWay : body[q].kind \in Public => users'[Target(q)] \in during'[q]
  BY <1>v, <1>s, SetUsersFacts DEF IInv
<1>1. TypeOK'
  BY <1>s, <1>u DEF IInv, TypeOK
<1>2. StepInv'
  BY <1>s DEF IInv, StepInv
<1>3. AppliedInv'
  BY <1>s DEF IInv, AppliedInv
<1>4. ClockInv'
  BY <1>s DEF IInv, ClockInv
<1>5. DuringInv'
  BY <1>s, <1>u DEF IInv, DuringInv, UnderWay, Target
<1>6. TokensInv'
  BY <1>s DEF IInv, TokensInv
<1>7. VerifiedInv'
  BY <1>s DEF IInv, VerifiedInv, Valid, MayUpdate
<1>8. StampInv'
  BY <1>s, <1>u, <1>v DEF IInv, StampInv
<1>9. AccountsInv'
  BY <1>s DEF IInv, AccountsInv
<1>10. ProvidersApart'
  BY <1>u, <1>v DEF IInv, ProvidersApart
<1>11. TokenSawRow'
  BY <1>s, <1>u, HistoryGrows
<1>12. AnswersMatchRows'
  BY <1>s DEF IInv, AnswersMatchRows
<1>13. ShowsOwnAccounts'
  BY <1>s DEF IInv, ShowsOwnAccounts, OpenedBy
<1> QED
  BY <1>1, <1>2, <1>3, <1>4, <1>5, <1>6, <1>7, <1>8, <1>9, <1>10, <1>11, <1>12, <1>13 DEF IInv

(* The clock advances.                                                     *)
LEMMA TickStep == ASSUME IInv, Tick PROVE IInv'
<1> USE DEF table, request, local, Tick
<1>0. now \in Nat /\ now' = now + 1
  BY DEF IInv, TypeOK
<1>1. TypeOK'
  BY <1>0 DEF IInv, TypeOK
<1>2. StepInv'
  BY DEF IInv, StepInv
<1>3. AppliedInv'
  BY DEF IInv, AppliedInv
<1>4. ClockInv'
  <2>1. \A r \in Requests : stamp[r] \in Nat /\ sent[r] \in Nat /\ stamp[r] <= now /\ sent[r] <= now
    BY DEF IInv, TypeOK, ClockInv
  <2>2. \A r \in Requests : stamp[r] <= now' /\ sent[r] <= now'
    BY <1>0, <2>1
  <2> QED
    BY <2>2 DEF IInv, ClockInv
<1>5. DuringInv'
  BY DEF IInv, DuringInv, UnderWay, Target
<1>6. TokensInv'
  BY DEF IInv, TokensInv
<1>7. VerifiedInv'
  BY DEF IInv, VerifiedInv, Valid, MayUpdate
<1>8. StampInv'
  BY DEF IInv, StampInv
<1>9. AccountsInv'
  BY DEF IInv, AccountsInv
<1>10. ProvidersApart'
  BY DEF IInv, ProvidersApart
<1>11. TokenSawRow'
  BY DEF IInv, TokenSawRow, Target
<1>12. AnswersMatchRows'
  BY DEF IInv, AnswersMatchRows
<1>13. ShowsOwnAccounts'
  BY DEF IInv, ShowsOwnAccounts, OpenedBy
<1> QED
  BY <1>1, <1>2, <1>3, <1>4, <1>5, <1>6, <1>7, <1>8, <1>9, <1>10, <1>11, <1>12, <1>13 DEF IInv

(* A step that changes nothing.                                            *)
LEMMA StutterStep == ASSUME IInv, UNCHANGED vars PROVE IInv'
<1> USE DEF vars, table, request, local
<1>1. TypeOK' /\ StepInv' /\ AppliedInv' /\ ClockInv'
  BY DEF IInv, TypeOK, StepInv, AppliedInv, ClockInv
<1>2. DuringInv' /\ TokensInv' /\ VerifiedInv' /\ StampInv'
  BY DEF IInv, DuringInv, TokensInv, VerifiedInv, StampInv, UnderWay, Target, Valid, MayUpdate
<1>3. AccountsInv' /\ ProvidersApart' /\ TokenSawRow'
  BY DEF IInv, AccountsInv, ProvidersApart, TokenSawRow, Target
<1>4. AnswersMatchRows' /\ ShowsOwnAccounts'
  BY DEF IInv, AnswersMatchRows, ShowsOwnAccounts, OpenedBy
<1> QED
  BY <1>1, <1>2, <1>3, <1>4 DEF IInv

-----------------------------------------------------------------------------
(* The invariant holds in the initial states.                              *)
LEMMA Initially == Init => IInv
<1> SUFFICES ASSUME Init PROVE IInv
  OBVIOUS
<1> USE DEF Init
<1>1. TypeOK
  <2>1. InitAccounts \subseteq Account /\ Cardinality(InitAccounts) \in Nat
    BY TablesAssumption, FS_CardinalityType
  <2> QED
    BY <2>1, TablesAssumption DEF TypeOK
<1>2. StepInv
  BY DEF StepInv, Kinds
<1>3. AppliedInv /\ TokensInv /\ TokenSawRow /\ AnswersMatchRows /\ ShowsOwnAccounts
  BY DEF AppliedInv, TokensInv, TokenSawRow, AnswersMatchRows, ShowsOwnAccounts
<1>4. ClockInv
  BY DEF ClockInv
<1>5. DuringInv /\ VerifiedInv
  BY DEF DuringInv, UnderWay, VerifiedInv, Before
<1>6. StampInv /\ ProvidersApart
  BY TablesAssumption DEF StampInv, ProvidersApart
<1>7. AccountsInv
  BY TablesAssumption DEF AccountsInv
<1> QED
  BY <1>1, <1>2, <1>3, <1>4, <1>5, <1>6, <1>7 DEF IInv

(* A handler keeps it.                                                     *)
LEMMA HandleStep == ASSUME IInv, NEW r \in Requests, Handle(r) PROVE IInv'
<1>f. \A q \in Requests : step[q] \notin {"token", "ended"} => q \notin applied
  BY DEF IInv, AppliedInv
<1>1. CASE VerifyToken(r)
  <2>1. CASE Alive(token[r])
    BY <1>1, <2>1, AdvanceStep DEF VerifyToken
  <2>2. CASE ~Alive(token[r])
    BY <1>1, <1>f, <2>2, RefuseStep DEF VerifyToken
  <2> QED
    BY <2>1, <2>2
<1>2. CASE CreateToken(r)
  <2>1. CASE UNCHANGED tokens /\ End(r, 500)
    BY <1>2, <2>1, RefuseStep DEF CreateToken
  <2>2. CASE tokens' = tokens \union {NewToken(r)} /\ End(r, IF body[r].kind = "oauth" THEN 307 ELSE 200)
    <3>1. PICK status \in {200, 307} : End(r, status)
      BY <2>2
    <3> QED
      BY <1>2, <2>2, <3>1, GiveTokenStep DEF CreateToken
  <2> QED
    BY <1>2, <2>1, <2>2 DEF CreateToken
<1>3. CASE CreateUser(r)
  BY <1>3, CreateUserStep
<1>4. CASE LoginUser(r)
  <2>n. body[r].name \in Names /\ Target(r) = body[r].name
    BY <1>4, BodyType DEF IInv, StepInv, Kinds, LoginUser, Target, NameIn
  <2>1. CASE \E status \in {400, 404, 401} : End(r, status)
    BY <1>4, <1>f, <2>1, RefuseStep DEF LoginUser
  <2>2. CASE ~\E status \in {400, 404, 401} : End(r, status)
    <3>1. /\ users[body[r].name] # NoRow /\ users[body[r].name].password = body[r].password
          /\ Goto(r, "token") /\ row' = [row EXCEPT ![r] = users[body[r].name]] /\ UNCHANGED outcome
      BY <1>4, <2>2 DEF LoginUser
    <3> QED
      BY <1>4, <2>n, <3>1, ReadStep DEF LoginUser
  <2> QED
    BY <2>1, <2>2
<1>5. CASE RenewGetUser(r)
  <2>n. body[r].name \in Names /\ Target(r) = body[r].name
    BY <1>5, BodyType DEF IInv, StepInv, Kinds, RenewGetUser, Target, NameIn
  <2>1. CASE users[body[r].name] = NoRow
    BY <1>5, <1>f, <2>1, RefuseStep DEF RenewGetUser
  <2>2. CASE users[body[r].name] # NoRow
    BY <1>5, <2>2, <2>n, ReadStep DEF RenewGetUser
  <2> QED
    BY <2>1, <2>2
<1>6. CASE GetGoogleOauthToken(r)
  <2>1. CASE GoOn(r, "googleUser")
    BY <1>6, <2>1, AdvanceStep DEF GetGoogleOauthToken
  <2>2. CASE End(r, 502)
    BY <1>6, <1>f, <2>2, RefuseStep DEF GetGoogleOauthToken
  <2> QED
    BY <1>6, <2>1, <2>2 DEF GetGoogleOauthToken
<1>7. CASE GetGoogleUser(r)
  <2>1. CASE GoOn(r, "upsert")
    BY <1>7, <2>1, AdvanceStep DEF GetGoogleUser
  <2>2. CASE End(r, 502)
    BY <1>7, <1>f, <2>2, RefuseStep DEF GetGoogleUser
  <2> QED
    BY <1>7, <2>1, <2>2 DEF GetGoogleUser
<1>8. CASE UpsertUser(r)
  BY <1>8, UpsertUserStep
<1>9. CASE CheckUpdate(r)
  BY <1>9, CheckUpdateStep
<1>10. CASE UpdateUser(r)
  BY <1>10, UpdateUserStep
<1>11. CASE HashPasswordFails(r)
  <2>1. PICK status \in {401, 500} : End(r, status)
    BY <1>11 DEF HashPasswordFails
  <2> QED
    BY <1>11, <1>f, <2>1, RefuseStep DEF HashPasswordFails
<1>12. CASE CreateAccount(r)
  BY <1>12, CreateAccountStep
<1>13. ASSUME NEW id \in 1..serial + 1, GetAccount(r, id) PROVE IInv'
  <2>k. step[r] = "account" /\ body[r].kind = "account"
    BY <1>13 DEF IInv, StepInv, Kinds, GetAccount
  <2>1. CASE \E status \in {401, 404} : End(r, status) /\ UNCHANGED shown
    BY <1>13, <1>f, <2>k, <2>1, RefuseStep DEF GetAccount
  <2>2. CASE ~\E status \in {401, 404} : End(r, status) /\ UNCHANGED shown
    <3>1. PICK a \in accounts : a.owner = token[r].name /\ Show(r, {a})
      BY <1>13, <2>2 DEF GetAccount
    <3>2. {a} \in SUBSET accounts /\ \A x \in {a} : x.owner = token[r].name
      BY <3>1
    <3> QED
      BY <1>13, <2>k, <3>1, <3>2, ShowStep DEF GetAccount
  <2> QED
    BY <2>1, <2>2
<1>14. CASE ListAccounts(r)
  <2> DEFINE offset == Offset(body[r].page)
             set == Page(token[r].name, offset)
  <2>k. step[r] = "list" /\ body[r].kind = "list"
    BY <1>14 DEF IInv, StepInv, Kinds, ListAccounts
  <2>1. CASE offset < 0
    BY <1>14, <1>f, <2>k, <2>1, RefuseStep DEF ListAccounts
  <2>2. CASE ~(offset < 0)
    <3>1. Show(r, set) /\ UNCHANGED <<table, now, tokens, request, stamp>>
      BY <1>14, <2>2 DEF ListAccounts
    <3>2. set \in SUBSET accounts /\ \A a \in set : a.owner = token[r].name
      BY DEF Page, Mine
    <3>3. body[r].page = 1 => set = Mine(token[r].name)
      BY FirstPage, FirstOffset DEF IInv
    <3> HIDE DEF set
    <3> QED
      BY <2>k, <3>1, <3>2, <3>3, ShowStep
  <2> QED
    BY <2>1, <2>2
<1>15. CASE GetUser(r)
  <2>1. CASE users[token[r].name] = NoRow
    BY <1>15, <1>f, <2>1, RefuseStep DEF GetUser
  <2>2. CASE users[token[r].name] # NoRow
    BY <1>15, <2>2, AdvanceStep DEF GetUser
  <2> QED
    BY <2>1, <2>2
<1>16. CASE GetUserAccounts(r)
  <2> DEFINE set == Page(token[r].name, 0)
  <2>1. set = Mine(token[r].name)
    BY FirstPage DEF IInv
  <2>2. set \in SUBSET accounts /\ \A a \in set : a.owner = token[r].name
    BY DEF Page, Mine
  <2>3. step[r] = "myAccounts" /\ Show(r, set) /\ UNCHANGED <<table, now, tokens, request, stamp>>
    BY <1>16 DEF GetUserAccounts
  <2> HIDE DEF set
  <2> QED
    BY <2>1, <2>2, <2>3, ShowStep
<1>17. CASE QueryFails(r)
  BY <1>17, <1>f, RefuseStep DEF QueryFails
<1> QED
  BY <1>1, <1>2, <1>3, <1>4, <1>5, <1>6, <1>7, <1>8, <1>9, <1>10, <1>11, <1>12, <1>13, <1>14,
     <1>15, <1>16, <1>17 DEF Handle

(* So does every step of the system.                                       *)
LEMMA NextStep == IInv /\ [Next]_vars => IInv'
<1> SUFFICES ASSUME IInv, [Next]_vars PROVE IInv'
  OBVIOUS
<1>1. ASSUME NEW r \in Requests, NEW b \in Bodies, NEW t \in tokens \union {NoToken}, Send(r, b, t)
      PROVE  IInv'
  BY <1>1, SendStep
<1>2. ASSUME NEW r \in Requests, Handle(r) PROVE IInv'
  BY <1>2, HandleStep
<1>3. ASSUME NEW d \in Decrees, SetRole(d[1], d[2]) PROVE IInv'
  <2>1. d[1] \in Names /\ d[2] \in Roles
    BY LimitsAssumption
  <2> QED
    BY <1>3, <2>1, SetRoleStep
<1>4. CASE Tick
  BY <1>4, TickStep
<1>5. CASE UNCHANGED vars
  BY <1>5, StutterStep
<1> QED
  BY <1>1, <1>2, <1>3, <1>4, <1>5 DEF Next

(* IInv is an invariant of Users.                                          *)
THEOREM Invariance == Spec => []IInv
<1> QED
  BY Initially, NextStep, PTL DEF Spec

(* The variables of Users have their types.                                *)
THEOREM TypeCorrect == Spec => []TypeOK
<1>1. IInv => TypeOK
  BY DEF IInv
<1> QED
  BY <1>1, Invariance, PTL

(* Users of Google and registered ones never share a row (CreateUser of    *)
(* api/user.go, UpsertUser of api/oauth.go).                               *)
THEOREM ProvidersStayApart == Spec => []ProvidersApart
<1>1. IInv => ProvidersApart
  BY DEF IInv
<1> QED
  BY <1>1, Invariance, PTL

(* A token says what the row of its user said while it was asked for.      *)
THEOREM TokensSayWhatWas == Spec => []TokenSawRow
<1>1. IInv => TokenSawRow
  BY DEF IInv
<1> QED
  BY <1>1, Invariance, PTL

(* A success has taken effect, a refusal has not.                          *)
THEOREM ClientsAreToldTheTruth == Spec => []AnswersMatchRows
<1>1. IInv => AnswersMatchRows
  BY DEF IInv
<1> QED
  BY <1>1, Invariance, PTL

(* An answer shows accounts of the user only, and those opened before.     *)
THEOREM AccountsAreShown == Spec => []ShowsOwnAccounts
<1>1. IInv => ShowsOwnAccounts
  BY DEF IInv
<1> QED
  BY <1>1, Invariance, PTL

-----------------------------------------------------------------------------
(* Who changes a row, and how.                                             *)
LEMMA RowChange ==
  ASSUME IInv, [Next]_vars, NEW n \in Names, users[n] # NoRow, users'[n] # users[n]
  PROVE  \/ applied' = applied /\ users'[n].stamp = users[n].stamp
         \/ \E r \in Requests :
              /\ step[r] = "upsert" /\ Target(r) = n /\ r \in applied'
              /\ users'[n].stamp = users[n].stamp
         \/ \E r \in Requests :
              /\ step[r] = "updateUser" /\ body[r].name = n /\ r \in applied'
              /\ users'[n].stamp = IF body[r].password = NoValue THEN users[n].stamp ELSE stamp[r]
<1>t. users \in [Names -> Row \union {NoRow}] /\ users[n] \in Row
  BY DEF IInv, TypeOK
<1>1. ASSUME NEW r \in Requests, CreateUser(r) PROVE FALSE
  BY <1>1, <1>t DEF CreateUser, SetUsers, table
<1>2. ASSUME NEW r \in Requests, UpsertUser(r)
      PROVE  /\ step[r] = "upsert" /\ Target(r) = n /\ r \in applied'
             /\ users'[n].stamp = users[n].stamp
  <2>1. /\ users' = [users EXCEPT ![Target(r)] = Upserted(body[r], Target(r))]
        /\ applied' = applied \union {r} /\ step[r] = "upsert"
    BY <1>2 DEF UpsertUser, SetUsers, table
  <2>2. Target(r) = n
    BY <1>t, <2>1
  <2>3. users'[n] = [users[n] EXCEPT !.email = body[r].email, !.password = NoValue]
    BY <1>t, <2>1, <2>2 DEF Upserted
  <2> QED
    BY <1>t, <2>1, <2>2, <2>3 DEF Row
<1>3. ASSUME NEW r \in Requests, UpdateUser(r)
      PROVE  /\ step[r] = "updateUser" /\ body[r].name = n /\ r \in applied'
             /\ users'[n].stamp = IF body[r].password = NoValue THEN users[n].stamp ELSE stamp[r]
  <2>1. /\ users' = [users EXCEPT ![body[r].name] = Updated(r, users[body[r].name])]
        /\ applied' = applied \union {r} /\ step[r] = "updateUser"
    BY <1>3 DEF UpdateUser, SetUsers, table
  <2>2. body[r].name = n /\ users'[n] = Updated(r, users[n])
    BY <1>t, <2>1
  <2> QED
    BY <1>t, <2>1, <2>2 DEF Updated, Row
<1>4. ASSUME NEW d \in Decrees, SetRole(d[1], d[2])
      PROVE  applied' = applied /\ users'[n].stamp = users[n].stamp
  BY <1>4, <1>t DEF SetRole, SetUsers, Row
<1>5. ASSUME NEW r \in Requests, Handle(r), ~CreateUser(r), ~UpsertUser(r), ~UpdateUser(r)
      PROVE  UNCHANGED users
  BY <1>5 DEF Handle, VerifyToken, CreateToken, LoginUser, RenewGetUser, GetGoogleOauthToken,
     GetGoogleUser, CheckUpdate, HashPasswordFails, CreateAccount, GetAccount, ListAccounts, GetUser,
     GetUserAccounts, QueryFails, table
<1>6. CASE \E r \in Requests : Handle(r)
  BY <1>1, <1>2, <1>3, <1>5, <1>6
<1>7. \/ \E r \in Requests : Handle(r)
      \/ UNCHANGED users
      \/ \E d \in Decrees : SetRole(d[1], d[2])
  BY DEF Next, Send, Tick, vars, table
<1> QED
  BY <1>4, <1>6, <1>7

(* A row is changed by a sign-in of its name, by its owner, or by somebody *)
(* who was a banker while a token alive at the time of sending was made    *)
(* (updateUser of api/user.go, authMiddleware).                            *)
THEOREM ChangesAreRight == Spec => ChangedByRight
<1>1. IInv /\ [Next]_vars =>
        \A n \in Names :
          users[n] \notin {NoRow, users'[n]} /\ applied' # applied
            => \E r \in applied' \ applied : MayChange(r, n)
  <2> SUFFICES ASSUME IInv, [Next]_vars, NEW n \in Names,
                      users[n] # NoRow, users'[n] # users[n], applied' # applied
               PROVE  \E r \in applied' \ applied : MayChange(r, n)
    OBVIOUS
  <2>1. ASSUME NEW r \in Requests, step[r] = "upsert", Target(r) = n, r \in applied'
        PROVE  r \notin applied /\ MayChange(r, n)
    BY <2>1 DEF IInv, AppliedInv, StepInv, MayChange
  <2>2. ASSUME NEW r \in Requests, step[r] = "updateUser", body[r].name = n, r \in applied'
        PROVE  r \notin applied /\ MayChange(r, n)
    <3>1. r \notin applied /\ body[r].kind = "update"
      BY <2>2 DEF IInv, AppliedInv, StepInv
    <3>2. token[r] \in tokens /\ sent[r] <= token[r].expires
      BY <2>2, <3>1 DEF IInv, VerifiedInv, Before, Private, Kinds, Public
    <3>3. token[r].name = n \/ token[r].role = Banker
      BY <2>2 DEF IInv, VerifiedInv, MayUpdate
    <3>4. token[r].role = Banker => WasBanker(token[r].by)
      BY <3>2 DEF IInv, TokenSawRow, WasBanker
    <3> QED
      BY <2>2, <3>1, <3>2, <3>3, <3>4 DEF MayChange
  <2> QED
    BY <2>1, <2>2, RowChange
<1> QED
  BY <1>1, Invariance, PTL DEF Spec, ChangedByRight

(* password_changed_at goes back only if two changes of the password were  *)
(* under way together (time.Now in updateUser of api/user.go).             *)
THEOREM StampsGoOn == Spec => StampBackOnlyTogether
<1>1. IInv /\ [Next]_vars =>
        \A n \in Names :
          NoRow \notin {users[n], users'[n]} /\ users'[n].stamp < users[n].stamp
            => \E r \in applied' \ applied, q \in Requests :
                 /\ q # r /\ q \notin before[r]
                 /\ body[q].kind = "update" /\ body[q].name = n
  <2> SUFFICES ASSUME IInv, [Next]_vars, NEW n \in Names, users[n] # NoRow,
                      users'[n].stamp < users[n].stamp
               PROVE  \E r \in applied' \ applied, q \in Requests :
                        /\ q # r /\ q \notin before[r]
                        /\ body[q].kind = "update" /\ body[q].name = n
    OBVIOUS
  <2>1. users[n].stamp \in Nat
    BY DEF IInv, TypeOK, Row
  <2>2. users'[n].stamp # users[n].stamp
    BY <2>1
  <2>3. PICK r \in Requests :
          /\ step[r] = "updateUser" /\ body[r].name = n /\ r \in applied'
          /\ body[r].password # NoValue /\ users'[n].stamp = stamp[r]
    BY <2>2, RowChange
  <2>4. r \notin applied
    BY <2>3 DEF IInv, AppliedInv
  <2>5. stamp[r] \in Nat /\ sent[r] \in Nat /\ sent[r] <= stamp[r]
    BY <2>3 DEF IInv, TypeOK, ClockInv
  <2>6. users[n].stamp # 0
    BY <2>1, <2>3, <2>5
  <2>7. PICK q \in applied :
          body[q].kind = "update" /\ body[q].name = n /\ stamp[q] = users[n].stamp
    BY <2>6 DEF IInv, StampInv
  <2>8. q \in Requests /\ stamp[q] \in Nat
    BY DEF IInv, TypeOK
  <2>9. q \notin before[r]
    <3> SUFFICES ASSUME q \in before[r] PROVE FALSE
      OBVIOUS
    <3>1. stamp[q] <= sent[r]
      BY DEF IInv, ClockInv
    <3> QED
      BY <3>1, <2>3, <2>5, <2>7, <2>8
  <2> QED
    BY <2>3, <2>4, <2>7, <2>8, <2>9
<1> QED
  BY <1>1, Invariance, PTL DEF Spec, StampBackOnlyTogether
=============================================================================
