------------------------------- MODULE Users --------------------------------
(***************************************************************************)
(* The users and their accounts: the tables users and accounts, the        *)
(* handlers that read and write them (api/user.go, api/account.go,         *)
(* api/oauth.go, the end of api/renew.go) and the access tokens they give  *)
(* out and are sent with (api/middleware.go, token/).                      *)
(*                                                                         *)
(* A handler is a sequence of single statements, each committed on its     *)
(* own; requests of any clients interleave between them.  A statement may  *)
(* fail, and the answer to one that took effect may be lost.  A token is   *)
(* known to whoever it was given to until it expires, and it goes on       *)
(* saying what the row said when it was made.                              *)
(*                                                                         *)
(* A hash is the password it was made of.  The column full_name is set     *)
(* where email is and has no constraint, and is left out; balances belong  *)
(* to TransferTx, the three keys of a session to Sessions.                 *)
(***************************************************************************)
EXTENDS Integers, FiniteSets

CONSTANTS
  Requests,   \* requests of any clients
  Words,      \* what can be typed as a user name, or is a name at Google
  Alphanum,   \* ... of which the binding alphanum accepts
  Lowercase,  \* ... and ValidateUsername too
  Emails, Passwords,
  Roles,      \* roles the column may hold
  Currencies, \* currencies a client may ask for
  Supported,  \* util.IsSupportedCurrency
  Bodies,     \* requests the clients may make
  InitUsers, InitAccounts,  \* the tables to begin with
  PageSize,   \* the smallest LIMIT of a list of accounts (5)
  Half,       \* an int32 is in -Half .. Half - 1
  Duration,   \* AccessTokenDuration
  Decrees,    \* changes of a role that may be made in the database
  MaxTime,    \* bound of the clock
  NoRow, NoValue, NoToken, NoBody

Kinds == {"register", "login", "oauth", "renew", "update", "me", "open", "account", "list"}
Public == {"register", "login", "oauth", "renew"}  \* routes without authMiddleware
Writers == {"register", "oauth", "update", "open"} \* requests that write a row
Banker == "banker"
Depositor == "depositor"

(* googleUser.Name + "-google"                                             *)
GoogleName(w) == <<w, "google">>
Names == Words \union {GoogleName(w) : w \in Words}

Row == [password: Passwords \union {NoValue}, email: Emails, stamp: Nat,
        role: Roles, provider: {"local", "Google"}]
Account == [id: Nat, owner: Names, currency: Currencies]
Body == [kind: Kinds, name: Words, email: Emails \union {NoValue},
         password: Passwords \union {NoValue}, currency: Currencies,
         page: Nat \ {0}]
Token == [by: Requests, name: Names, role: Roles, expires: Nat]

(* Names end in -google, and passwords are missing, exactly in rows that   *)
(* googleOAuth made.                                                       *)
Apart(n, row) ==
  /\ row.provider = "local" <=> n \in Alphanum
  /\ row.provider = "local" <=> row.password # NoValue

ASSUME WordsAssumption == Lowercase \subseteq Alphanum /\ Alphanum \subseteq Words

(* No name with a hyphen is alphanumeric.                                  *)
ASSUME HyphenAssumption == \A w \in Words : GoogleName(w) \notin Alphanum

ASSUME BodiesAssumption ==
  /\ Bodies \subseteq Body /\ NoBody \notin Body
  /\ NoValue \notin Passwords \union Emails
  /\ \A b \in Bodies :
       /\ b.kind \in {"register", "oauth"} => b.email # NoValue
       /\ b.kind \in {"register", "login"} => b.password # NoValue

(* Tables the database may hold: one account of an owner in a currency,    *)
(* owners that exist, ids counted from 1.                                  *)
ASSUME TablesAssumption ==
  /\ InitUsers \in [Names -> Row \union {NoRow}] /\ NoRow \notin Row
  /\ \A n \in Names : InitUsers[n] # NoRow => Apart(n, InitUsers[n]) /\ InitUsers[n].stamp = 0
  /\ IsFiniteSet(InitAccounts)
  /\ \A a \in InitAccounts :
       /\ a \in Account /\ a.id \in 1..Cardinality(InitAccounts)
       /\ a.currency \in Supported
       /\ InitUsers[a.owner] # NoRow
  /\ \A a, b \in InitAccounts :
       a.id = b.id \/ (a.owner = b.owner /\ a.currency = b.currency) => a = b

ASSUME LimitsAssumption ==
  /\ Supported \subseteq Currencies /\ IsFiniteSet(Supported)
  /\ PageSize \in Nat \ {0} /\ Half \in Nat \ {0} /\ Duration \in Nat /\ MaxTime \in Nat
  /\ Cardinality(Supported) <= PageSize  \* 3 of them, and 5
  /\ {Banker, Depositor} \subseteq Roles /\ Decrees \subseteq Names \X Roles
  /\ NoToken \notin Token

VARIABLES
  users,     \* the table users: name -> row, or NoRow
  accounts,  \* the table accounts
  serial,    \* the last id of accounts that was taken
  now,       \* the clock
  tokens,    \* access tokens that clients have been given
  step,      \* the next step of every request
  body,      \* what it asks for
  token,     \* the access token it came with
  row,       \* the row it has read, or was given back by an upsert
  stamp,     \* arg.PasswordChangedAt
  outcome,   \* its status, 0 before there is one
  shown,     \* the accounts in its answer
  applied,   \* history: requests whose write took effect
  sent,      \* history: when a request with a token was sent
  before,    \* history: the requests that had ended by then
  during     \* history: what the row was while a request without one was under way

table == <<users, accounts, serial, applied, during>>
request == <<body, token, sent, before>>
local == <<row, stamp, shown>>
vars == <<table, now, tokens, request, local, step, outcome>>

UnderWay == {r \in Requests : step[r] \notin {"idle", "ended"}}
Ended == {r \in Requests : step[r] = "ended"}

(* The name of the row a request is about.                                 *)
NameIn(b) == IF b.kind = "oauth" THEN GoogleName(b.name) ELSE b.name
Target(r) == NameIn(body[r])

Init ==
  /\ users = InitUsers
  /\ accounts = InitAccounts
  /\ serial = Cardinality(InitAccounts)
  /\ now = 0
  /\ tokens = {}
  /\ step = [r \in Requests |-> "idle"]
  /\ body = [r \in Requests |-> NoBody]
  /\ token = [r \in Requests |-> NoToken]
  /\ row = [r \in Requests |-> NoRow]
  /\ stamp = [r \in Requests |-> 0]
  /\ outcome = [r \in Requests |-> 0]
  /\ shown = [r \in Requests |-> {}]
  /\ applied = {}
  /\ sent = [r \in Requests |-> 0]
  /\ before = [r \in Requests |-> {}]
  /\ during = [r \in Requests |-> {}]

-----------------------------------------------------------------------------
Goto(r, to) == step' = [step EXCEPT ![r] = to]

(* The handler answers; its local variables go.                            *)
End(r, status) ==
  /\ Goto(r, "ended")
  /\ outcome' = [outcome EXCEPT ![r] = status]
  /\ row' = [row EXCEPT ![r] = NoRow]

GoOn(r, to) == Goto(r, to) /\ UNCHANGED <<outcome, row>>

(* A statement changes the table users; everybody under way sees it.       *)
SetUsers(newUsers) ==
  /\ users' = newUsers
  /\ during' = [q \in Requests |->
       IF q \in UnderWay /\ body[q].kind \in Public
         THEN during[q] \union {newUsers[Target(q)]}
         ELSE during[q]]

(* A client sends a request, with a token it was given if the route asks   *)
(* for one; a renewal is sent with a session, of a user that has logged in.*)
Send(r, b, t) ==
  /\ step[r] = "idle"
  /\ b.kind \in Public => t = NoToken
  /\ b.kind = "renew" => \E s \in tokens : s.name = b.name
  /\ body' = [body EXCEPT ![r] = b]
  /\ token' = [token EXCEPT ![r] = t]
  /\ IF b.kind \in Public
       THEN during' = [during EXCEPT ![r] = {users[NameIn(b)]}] /\ UNCHANGED <<sent, before>>
       ELSE /\ sent' = [sent EXCEPT ![r] = now]
            /\ before' = [before EXCEPT ![r] = Ended]
            /\ UNCHANGED during
  /\ GoOn(r, IF b.kind \in Public THEN b.kind ELSE "verify")
  /\ UNCHANGED <<users, accounts, serial, applied, now, tokens, stamp, shown>>

-----------------------------------------------------------------------------
(* Access tokens.                                                          *)

(* VerifyToken.  No token, or a malformed header, is answered with 401     *)
(* too (after a header of one field the handler panics instead of going    *)
(* on, for want of a return).                                              *)
SlipAlive(t) == t # NoToken  \* a slip: payload.Valid is not called
Alive(t) == t # NoToken /\ now <= t.expires

VerifyToken(r) ==
  /\ step[r] = "verify"
  /\ IF Alive(token[r])
       THEN GoOn(r, body[r].kind)
       ELSE End(r, 401)
  /\ UNCHANGED <<table, now, tokens, request, stamp, shown>>

(* CreateToken(user.Username, user.Role), the session and the cookie: the  *)
(* client has a new token unless something failed.                         *)
NewToken(r) == [by |-> r, name |-> Target(r), role |-> row[r].role, expires |-> now + Duration]

CreateToken(r) ==
  /\ step[r] = "token"
  /\ \/ tokens' = tokens \union {NewToken(r)} /\ End(r, IF body[r].kind = "oauth" THEN 307 ELSE 200)
     \/ UNCHANGED tokens /\ End(r, 500)
  /\ UNCHANGED <<table, now, request, stamp, shown>>

-----------------------------------------------------------------------------
(* Registering, logging in, signing in with Google.                        *)

(* The UNIQUE constraint on users.email.                                   *)
Taken(email, n) == \E m \in Names \ {n} : users[m] # NoRow /\ users[m].email = email

NewRow(b, provider) ==
  [password |-> IF provider = "local" THEN b.password ELSE NoValue,
   email |-> b.email, stamp |-> 0, role |-> Depositor, provider |-> provider]

CreateUser(r) ==
  /\ step[r] = "register"
  /\ LET b == body[r] IN
     \/ /\ b.name \notin Alphanum
        /\ End(r, 400)
        /\ UNCHANGED table
     \/ /\ b.name \in Alphanum
        /\ users[b.name] # NoRow \/ Taken(b.email, b.name)
        /\ End(r, 409)
        /\ UNCHANGED table
     \/ /\ b.name \in Alphanum /\ users[b.name] = NoRow /\ ~Taken(b.email, b.name)
        /\ SetUsers([users EXCEPT ![b.name] = NewRow(b, "local")])
        /\ applied' = applied \union {r}
        /\ \E answer \in {201, 500} : End(r, answer)
        /\ UNCHANGED <<accounts, serial>>
  /\ UNCHANGED <<now, tokens, request, stamp, shown>>

(* GetUser and CheckPassword; an empty hash is the hash of nothing.        *)
LoginUser(r) ==
  /\ step[r] = "login"
  /\ LET b == body[r] IN
       IF b.name \notin Alphanum THEN End(r, 400)
       ELSE IF users[b.name] = NoRow THEN End(r, 404)
       ELSE IF users[b.name].password # b.password THEN End(r, 401)
       ELSE Goto(r, "token") /\ row' = [row EXCEPT ![r] = users[b.name]] /\ UNCHANGED outcome
  /\ UNCHANGED <<table, now, tokens, request, stamp, shown>>

(* renewAccessToken reads the user again.                                  *)
SlipRenewGetUser(r) ==      \* a slip: the role is taken from an old token of the user
  /\ step[r] = "renew"
  /\ \E t \in tokens :
       /\ t.name = body[r].name
       /\ row' = [row EXCEPT ![r] = [users[body[r].name] EXCEPT !.role = t.role]]
  /\ Goto(r, "token")
  /\ UNCHANGED <<outcome, table, now, tokens, request, stamp, shown>>

RenewGetUser(r) ==
  /\ step[r] = "renew"
  /\ IF users[body[r].name] = NoRow
       THEN End(r, 404)
       ELSE /\ Goto(r, "token")
            /\ row' = [row EXCEPT ![r] = users[body[r].name]]
            /\ UNCHANGED outcome
  /\ UNCHANGED <<table, now, tokens, request, stamp, shown>>

(* The two calls to Google.  What is refused here (401 without a code, 502 *)
(* after a call that failed, 500 after an answer that lacks a field, which *)
(* makes the type assertion panic) has read and written nothing.           *)
GetGoogleOauthToken(r) ==
  /\ step[r] = "oauth"
  /\ GoOn(r, "googleUser") \/ End(r, 502)
  /\ UNCHANGED <<table, now, tokens, request, stamp, shown>>

GetGoogleUser(r) ==
  /\ step[r] = "googleUser"
  /\ GoOn(r, "upsert") \/ End(r, 502)
  /\ UNCHANGED <<table, now, tokens, request, stamp, shown>>

(* INSERT ... ON CONFLICT (username) DO UPDATE.                            *)
Upserted(b, n) ==
  IF users[n] = NoRow THEN NewRow(b, "Google")
  ELSE [users[n] EXCEPT !.email = b.email, !.password = NoValue]

SlipUpsertUser(r) ==        \* a slip: the name is used as Google gives it
  /\ step[r] = "upsert"
  /\ LET n == body[r].name IN
       /\ ~Taken(body[r].email, n)
       /\ SetUsers([users EXCEPT ![n] = Upserted(body[r], n)])
       /\ applied' = applied \union {r}
       /\ row' = [row EXCEPT ![r] = users'[n]]
  /\ Goto(r, "token")
  /\ UNCHANGED <<outcome, accounts, serial, now, tokens, request, stamp, shown>>

UpsertUser(r) ==
  /\ step[r] = "upsert"
  /\ LET n == Target(r) IN
     \/ /\ Taken(body[r].email, n)
        /\ End(r, 409)
        /\ UNCHANGED table
     \/ /\ ~Taken(body[r].email, n)
        /\ SetUsers([users EXCEPT ![n] = Upserted(body[r], n)])
        /\ applied' = applied \union {r}
        /\ \/ Goto(r, "token") /\ row' = [row EXCEPT ![r] = users'[n]] /\ UNCHANGED outcome
           \/ End(r, 500)
        /\ UNCHANGED <<accounts, serial>>
  /\ UNCHANGED <<now, tokens, request, stamp, shown>>

-----------------------------------------------------------------------------
(* Changing a user.                                                        *)

(* Both name bindings, the checks of the other fields, and who may.        *)
Valid(b) == b.name \in Lowercase
MayUpdate(r) == token[r].role = Banker \/ token[r].name = body[r].name

CheckUpdate(r) ==
  /\ step[r] = "update"
  /\ IF token[r].role \notin {Banker, Depositor} THEN End(r, 403) /\ UNCHANGED stamp
     ELSE IF ~Valid(body[r]) THEN End(r, 400) /\ UNCHANGED stamp
     ELSE IF ~MayUpdate(r) THEN End(r, 403) /\ UNCHANGED stamp
     ELSE /\ GoOn(r, "updateUser")
          /\ stamp' = [stamp EXCEPT ![r] = IF body[r].password = NoValue THEN 0 ELSE now]
  /\ UNCHANGED <<table, now, tokens, request, shown>>

SlipCoalesce(new, old) == new  \* a slip: a field that is not given is stored too
Coalesce(new, old) == IF new = NoValue THEN old ELSE new

(* UPDATE users: the fields that were given, in one statement.  Here a     *)
(* taken e-mail address is an error like any other.                        *)
SlipUpdated(r, old) ==      \* a slip: no COALESCE around password_changed_at
  [old EXCEPT !.password = Coalesce(body[r].password, @),
              !.stamp = stamp[r],
              !.email = Coalesce(body[r].email, @)]

Updated(r, old) ==
  [old EXCEPT !.password = Coalesce(body[r].password, @),
              !.stamp = IF body[r].password = NoValue THEN @ ELSE stamp[r],
              !.email = Coalesce(body[r].email, @)]

UpdateUser(r) ==
  /\ step[r] = "updateUser"
  /\ LET n == body[r].name IN
     \/ /\ users[n] = NoRow
        /\ End(r, 404)
        /\ UNCHANGED table
     \/ /\ users[n] # NoRow /\ Taken(body[r].email, n)
        /\ End(r, 500)
        /\ UNCHANGED table
     \/ /\ users[n] # NoRow /\ ~Taken(body[r].email, n)
        /\ SetUsers([users EXCEPT ![n] = Updated(r, @)])
        /\ applied' = applied \union {r}
        /\ \E answer \in {200, 500} : End(r, answer)
        /\ UNCHANGED <<accounts, serial>>
  /\ UNCHANGED <<now, tokens, request, stamp, shown>>

(* bcrypt refuses a long password.                                         *)
HashPasswordFails(r) ==
  /\ step[r] \in {"register", "updateUser"} /\ body[r].password # NoValue
  /\ End(r, IF step[r] = "register" THEN 500 ELSE 401)
  /\ UNCHANGED <<table, now, tokens, request, stamp, shown>>

-----------------------------------------------------------------------------
(* Accounts.                                                               *)
Mine(n) == {a \in accounts : a.owner = n}

(* An INSERT takes the next id, even when a constraint then refuses it.    *)
SlipCreateAccount(r) ==     \* a slip: an answer that was lost is asked for again
  /\ step[r] = "open"
  /\ body[r].currency \in Supported
  /\ accounts' = accounts \union {[id |-> serial + 1, owner |-> token[r].name,
                                   currency |-> body[r].currency]}
  /\ applied' = applied \union {r}
  /\ \E answer \in {200, 409} : End(r, answer)
  /\ serial' = serial + 1
  /\ UNCHANGED <<users, during, now, tokens, request, stamp, shown>>

CreateAccount(r) ==
  /\ step[r] = "open"
  /\ LET n == token[r].name
         c == body[r].currency
     IN
     \/ /\ c \notin Supported
        /\ End(r, 400)
        /\ UNCHANGED <<accounts, serial, applied>>
     \/ /\ c \in Supported
        /\ users[n] = NoRow \/ \E a \in Mine(n) : a.currency = c
        /\ End(r, 409)
        /\ serial' = serial + 1
        /\ UNCHANGED <<accounts, applied>>
     \/ /\ c \in Supported /\ users[n] # NoRow /\ \A a \in Mine(n) : a.currency # c
        /\ accounts' = accounts \union {[id |-> serial + 1, owner |-> n, currency |-> c]}
        /\ applied' = applied \union {r}
        /\ serial' = serial + 1
        /\ \E answer \in {200, 500} : End(r, answer)
  /\ UNCHANGED <<users, during, now, tokens, request, stamp, shown>>

Show(r, set) == shown' = [shown EXCEPT ![r] = set] /\ End(r, 200)

GetAccount(r, id) ==
  /\ step[r] = "account"
  /\ \/ ~(\E a \in accounts : a.id = id) /\ End(r, 404) /\ UNCHANGED shown
     \/ \E a \in accounts :
          /\ a.id = id
          /\ IF a.owner # token[r].name
               THEN End(r, 401) /\ UNCHANGED shown
               ELSE Show(r, {a})
  /\ UNCHANGED <<table, now, tokens, request, stamp>>

(* ORDER BY id LIMIT PageSize OFFSET offset                                *)
Page(n, offset) ==
  {a \in Mine(n) :
     Cardinality({b \in Mine(n) : b.id < a.id}) \in offset..offset + PageSize - 1}

(* (req.PageID - 1) * req.PageSize, an int32.                              *)
Int32(x) == ((x + Half) % (2 * Half)) - Half
SlipOffset(page) == Int32(page * PageSize)  \* a slip: pages counted from 0
Offset(page) == Int32((page - 1) * PageSize)

ListAccounts(r) ==
  /\ step[r] = "list"
  /\ LET offset == Offset(body[r].page) IN
       IF offset < 0
         THEN End(r, 500) /\ UNCHANGED shown
         ELSE Show(r, Page(token[r].name, offset))
  /\ UNCHANGED <<table, now, tokens, request, stamp>>

(* getUser reads the user, and then the accounts.                          *)
GetUser(r) ==
  /\ step[r] = "me"
  /\ IF users[token[r].name] = NoRow
       THEN End(r, 404)
       ELSE GoOn(r, "myAccounts")
  /\ UNCHANGED <<table, now, tokens, request, stamp, shown>>

GetUserAccounts(r) ==
  /\ step[r] = "myAccounts"
  /\ Show(r, Page(token[r].name, 0))
  /\ UNCHANGED <<table, now, tokens, request, stamp>>

-----------------------------------------------------------------------------
(* A statement fails and has no effect.                                    *)
QueryFails(r) ==
  /\ step[r] \in {"register", "login", "renew", "upsert", "updateUser", "open",
                  "account", "list", "me", "myAccounts"}
  /\ End(r, 500)
  /\ UNCHANGED <<table, now, tokens, request, stamp, shown>>

(* No handler sets a role: it is done in the database.                     *)
SetRole(n, role) ==
  /\ users[n] # NoRow /\ users[n].role # role
  /\ SetUsers([users EXCEPT ![n].role = role])
  /\ UNCHANGED <<accounts, serial, applied, now, tokens, request, local, step, outcome>>

Tick ==
  /\ now < MaxTime
  /\ now' = now + 1
  /\ UNCHANGED <<table, tokens, request, local, step, outcome>>

Handle(r) ==
  \/ VerifyToken(r)
  \/ CreateToken(r)
  \/ CreateUser(r)
  \/ LoginUser(r)
  \/ RenewGetUser(r)
  \/ GetGoogleOauthToken(r)
  \/ GetGoogleUser(r)
  \/ UpsertUser(r)
  \/ CheckUpdate(r)
  \/ UpdateUser(r)
  \/ HashPasswordFails(r)
  \/ CreateAccount(r)
  \/ \E id \in 1..serial + 1 : GetAccount(r, id)
  \/ ListAccounts(r)
  \/ GetUser(r)
  \/ GetUserAccounts(r)
  \/ QueryFails(r)

Next ==
  \/ \E r \in Requests :
       \/ \E b \in Bodies, t \in tokens \union {NoToken} : Send(r, b, t)
       \/ Handle(r)
  \/ \E d \in Decrees : SetRole(d[1], d[2])
  \/ Tick

Spec == Init /\ [][Next]_vars

-----------------------------------------------------------------------------
(* Properties.                                                             *)
TypeOK ==
  /\ users \in [Names -> Row \union {NoRow}]
  /\ accounts \subseteq Account
  /\ serial \in Nat
  /\ now \in Nat
  /\ tokens \subseteq Token
  /\ step \in [Requests -> Kinds \union {"idle", "verify", "token", "googleUser", "upsert",
                                         "updateUser", "myAccounts", "ended"}]
  /\ body \in [Requests -> Bodies \union {NoBody}]
  /\ token \in [Requests -> Token \union {NoToken}]
  /\ row \in [Requests -> Row \union {NoRow}]
  /\ stamp \in [Requests -> Nat]
  /\ outcome \in [Requests -> {0, 200, 201, 307, 400, 401, 403, 404, 409, 500, 502}]
  /\ shown \in [Requests -> SUBSET Account]
  /\ applied \subseteq Requests
  /\ sent \in [Requests -> Nat]
  /\ before \in [Requests -> SUBSET Requests]
  /\ during \in [Requests -> SUBSET (Row \union {NoRow})]

(* A user who signs in with Google and one who registered never share a    *)
(* row, whatever names and addresses they ask for and in whatever order    *)
(* their statements run; and a row of Google never gets a password.        *)
ProvidersApart == \A n \in Names : users[n] # NoRow => Apart(n, users[n])

(* A row changes by a sign-in of its name at Google, by its owner, or by   *)
(* somebody who was a banker while the token was asked for, with a request *)
(* sent before that token expired: so long may a change of role, or a      *)
(* logout, go unnoticed, and no longer.                                    *)
WasBanker(q) == \E was \in during[q] : was # NoRow /\ was.role = Banker

MayChange(r, n) ==
  \/ body[r].kind = "oauth" /\ Target(r) = n
  \/ /\ body[r].kind = "update" /\ body[r].name = n
     /\ sent[r] <= token[r].expires
     /\ token[r].name = n \/ WasBanker(token[r].by)

ChangedByRight ==
  [][\A n \in Names :
       users[n] \notin {NoRow, users'[n]} /\ applied' # applied
         => \E r \in applied' \ applied : MayChange(r, n)]_vars

(* A token says what the row of its user said while it was asked for, and  *)
(* a login was given a password that was the user's at that time.          *)
TokenSawRow ==
  \A t \in tokens :
    /\ t.name = Target(t.by)
    /\ \E was \in during[t.by] \ {NoRow} :
         /\ was.role = t.role
         /\ body[t.by].kind = "login" => was.password = body[t.by].password

(* password_changed_at goes back only if two changes of the password were  *)
(* under way together: time.Now() is read before the row is updated.       *)
StampBackOnlyTogether ==
  [][\A n \in Names :
       NoRow \notin {users[n], users'[n]} /\ users'[n].stamp < users[n].stamp
         => \E r \in applied' \ applied, q \in Requests :
              /\ q # r /\ q \notin before[r]
              /\ body[q].kind = "update" /\ body[q].name = n]_vars

(* A client is told the truth: a success has taken effect, and what was    *)
(* refused has not; only 500 leaves it open.                               *)
AnswersMatchRows ==
  \A r \in Requests :
    outcome[r] # 0 /\ body[r].kind \in Writers =>
      /\ outcome[r] \in {200, 201, 307} => r \in applied
      /\ r \in applied => outcome[r] \in {200, 201, 307, 500}

(* An answer shows accounts of the user only, and the first page all that  *)
(* had been opened when it was asked for, although it is cut after         *)
(* PageSize.                                                               *)
OpenedBy(r) ==
  {q \in before[r] : body[q].kind = "open" /\ outcome[q] = 200 /\ token[q].name = token[r].name}

ShowsOwnAccounts ==
  \A r \in Requests :
    body[r] # NoBody /\ outcome[r] = 200 /\ body[r].kind \in {"me", "account", "list"} =>
      /\ \A a \in shown[r] : a.owner = token[r].name
      /\ body[r].kind = "me" \/ (body[r].kind = "list" /\ body[r].page = 1) =>
           \A q \in OpenedBy(r) : \E a \in shown[r] : a.currency = body[q].currency
=============================================================================
