------------------------------ MODULE Sessions ------------------------------
(***************************************************************************)
(* The sessions of one browser of one user: loginUser and logoutUser       *)
(* (api/user.go), googleOAuth (api/oauth.go), which makes a session the    *)
(* way loginUser does, and renewAccessToken (api/renew.go).                *)
(*                                                                         *)
(* A session is three keys of Redis, sid:<sid>, sid:<sid>:user_agent and   *)
(* sid:<sid>:ip, set, read and deleted one call at a time, and a cookie of *)
(* the browser.  The browser may have several requests under way (tabs, a  *)
(* retry), their answers arrive in any order or not at all, and each call  *)
(* of Redis may fail before or after it took effect.  A sid is named after *)
(* the request that made it: util.RandomID makes a new one every time.     *)
(*                                                                         *)
(* The user agent is that of the browser; the IP address may differ from   *)
(* one request to the next.  Keys live for RefreshTokenDuration, each from *)
(* its own SET.  Every read takes a key that has expired for one it cannot *)
(* read, and any read may fail at any time here, so expiry has no action   *)
(* of its own: keys are those that were set and not deleted.               *)
(***************************************************************************)
CONSTANTS
  Requests,   \* requests of the browser
  Addresses,  \* IP addresses it may come from
  NoSid       \* no cookie, or an empty one

ASSUME NoSidAssumption == NoSid \notin Requests

VARIABLES
  keys,     \* the keys of sessions that were set and not deleted
  cookie,   \* the browser's cookie sid
  kind,     \* what every request is
  step,     \* its next step
  sid,      \* sID of every request, from its cookie
  from,     \* ctx.ClientIP() of every request
  agentOK,  \* the stored user agent of a renewal is that of the browser
  failed,   \* one of the last three calls returned an error
  outcome,  \* how every request ended
  root,     \* history: the login every session goes back to
  together  \* history: pairs of requests that were under way together

request == <<kind, sid, from>>
local == <<step, agentOK, failed, outcome>>
history == <<root, together>>
vars == <<keys, cookie, request, local, history>>

Fields == {"user", "agent", "ip"}
Kinds == {"login", "renew", "logout"}
UnderWay == {r \in Requests : step[r] \notin {"idle", "done", "lost"}}

Init ==
  /\ keys = {}
  /\ cookie = NoSid
  /\ kind = [r \in Requests |-> "login"]
  /\ step = [r \in Requests |-> "idle"]
  /\ sid = [r \in Requests |-> NoSid]
  /\ from = [r \in Requests |-> NoSid]
  /\ agentOK = [r \in Requests |-> FALSE]
  /\ failed = [r \in Requests |-> FALSE]
  /\ outcome = [r \in Requests |-> "none"]
  /\ root = [r \in Requests |-> NoSid]
  /\ together = {}

-----------------------------------------------------------------------------
Goto(r, to) == step' = [step EXCEPT ![r] = to]

Clear(r) ==
  /\ agentOK' = [agentOK EXCEPT ![r] = FALSE]
  /\ failed' = [failed EXCEPT ![r] = FALSE]

(* The handler returns, its local variables go; its answer is on the way.  *)
End(r, how) ==
  /\ Goto(r, "answered")
  /\ outcome' = [outcome EXCEPT ![r] = how]
  /\ Clear(r)

(* The handler goes on.                                                    *)
GoOn(r, to) == Goto(r, to) /\ UNCHANGED <<agentOK, failed, outcome>>

(* A call of Redis that changes something: it may or may not take effect   *)
(* when it fails.  Errors are looked at after the third call.              *)
Call(r, newKeys, next) ==
  /\ \/ keys' = newKeys /\ UNCHANGED failed
     \/ keys' \in {newKeys, keys} /\ failed' = [failed EXCEPT ![r] = TRUE]
  /\ Goto(r, next)
  /\ UNCHANGED <<cookie, request, agentOK, outcome, history>>

(* The browser sends a request with the cookie it has; a logout asks       *)
(* neither where it comes from, nor does a login look at the cookie.       *)
Send(r, k, address) ==
  /\ step[r] = "idle"
  /\ kind' = [kind EXCEPT ![r] = k]
  /\ sid' = [sid EXCEPT ![r] = IF k = "login" THEN NoSid ELSE cookie]
  /\ from' = [from EXCEPT ![r] = IF k = "logout" THEN NoSid ELSE address]
  /\ Goto(r, k)
  /\ together' = together \union {{r, q} : q \in UnderWay}
  /\ UNCHANGED <<keys, cookie, agentOK, failed, outcome, root>>

-----------------------------------------------------------------------------
(* Making a session.                                                       *)

(* The user is known and the password, or Google's token, is right.        *)
Login(r) ==
  /\ step[r] = "login"
  /\ GoOn(r, "setUser")
  /\ root' = [root EXCEPT ![r] = r]
  /\ UNCHANGED <<keys, cookie, request, together>>

SlipSet(r, here, field, next) ==  \* a slip: stores under the sid the request came with
  /\ step[r] = here
  /\ Call(r, keys \union {<<sid[r], field>>}, next)

Set(r, here, field, next) ==
  /\ step[r] = here
  /\ Call(r, keys \union {<<r, field>>}, next)

SetUser(r) == Set(r, "setUser", "user", "setAgent")
SetAgent(r) == Set(r, "setAgent", "agent", "setIP")
SetIP(r) == Set(r, "setIP", "ip", "set")

(* err1, err2, err3 of the three SETs.                                     *)
SetDone(r) ==
  /\ step[r] = "set"
  /\ End(r, IF failed[r] THEN "error" ELSE "ok")
  /\ UNCHANGED <<keys, cookie, request, history>>

-----------------------------------------------------------------------------
(* Renewing a session.                                                     *)

(* EXISTS and GET of sid:<sid>: without it, the refresh token has expired. *)
(* The key is never set again once it is gone, so the GET decides.         *)
GetUsername(r) ==
  /\ step[r] = "renew"
  /\ IF <<sid[r], "user">> \in keys
       THEN GoOn(r, "getAgent")
       ELSE End(r, "refused")
  /\ UNCHANGED <<keys, cookie, request, history>>

(* The error of these two GETs is dropped: a key that is not there, or is  *)
(* not read, counts as the empty string.                                   *)
GetAgent(r) ==
  /\ step[r] = "getAgent"
  /\ \E answered \in BOOLEAN :
       agentOK' = [agentOK EXCEPT ![r] = answered /\ <<sid[r], "agent">> \in keys]
  /\ Goto(r, "getIP")
  /\ UNCHANGED <<keys, cookie, request, failed, outcome, history>>

(* The value of sid:<sid>:ip is the address of the request that set it.    *)
SlipSameIP(r) ==            \* a slip: an address that is not stored is not compared
  <<sid[r], "ip">> \in keys => from[sid[r]] = from[r]
SameIP(r) == <<sid[r], "ip">> \in keys /\ from[sid[r]] = from[r]

GetIP(r) ==
  /\ step[r] = "getIP"
  /\ IF agentOK[r] /\ SameIP(r)
       THEN Goto(r, "delUser") /\ Clear(r) /\ UNCHANGED outcome
       ELSE End(r, "refused")
  /\ UNCHANGED <<keys, cookie, request, history>>

(* A read fails, of Redis or of the user, or no token is made: no session  *)
(* is touched.                                                             *)
ReadFails(r) ==
  /\ step[r] \in {"login", "renew", "getIP"}
  /\ End(r, "refused")
  /\ UNCHANGED <<keys, cookie, request, history>>

Del(r, here, field, next) ==
  /\ step[r] = here
  /\ Call(r, keys \ {<<sid[r], field>>}, next)

DelUser(r) == Del(r, "delUser", "user", "delAgent")
DelAgent(r) == Del(r, "delAgent", "agent", "delIP")
DelIP(r) == Del(r, "delIP", "ip", "deleted")

(* err1, err2, err3 of the three DELs; then the new sid.                   *)
SlipRenew(r) ==             \* a slip: the errors of the DELs are not looked at
  /\ step[r] = "deleted" /\ kind[r] = "renew"
  /\ Goto(r, "setUser")
  /\ failed' = [failed EXCEPT ![r] = FALSE]
  /\ root' = [root EXCEPT ![r] = root[sid[r]]]
  /\ UNCHANGED <<keys, cookie, request, agentOK, outcome, together>>

Renew(r) ==
  /\ step[r] = "deleted" /\ kind[r] = "renew"
  /\ IF failed[r]
       THEN End(r, "error") /\ UNCHANGED root
       ELSE GoOn(r, "setUser") /\ root' = [root EXCEPT ![r] = root[sid[r]]]
  /\ UNCHANGED <<keys, cookie, request, together>>

-----------------------------------------------------------------------------
(* Logging out.                                                            *)
Logout(r) ==
  /\ step[r] = "logout"
  /\ IF sid[r] = NoSid
       THEN End(r, "ok")
       ELSE GoOn(r, "delUser")
  /\ UNCHANGED <<keys, cookie, request, history>>

SlipLogoutDone(r) ==        \* a slip: answers before it has looked at the errors
  /\ step[r] = "deleted" /\ kind[r] = "logout"
  /\ End(r, "ok")
  /\ UNCHANGED <<keys, cookie, request, history>>

LogoutDone(r) ==
  /\ step[r] = "deleted" /\ kind[r] = "logout"
  /\ End(r, IF failed[r] THEN "error" ELSE "ok")
  /\ UNCHANGED <<keys, cookie, request, history>>

-----------------------------------------------------------------------------
(* The answer reaches the browser: a new sid is in it as soon as there is  *)
(* one, even when a SET failed; a logout clears the cookie if it had one   *)
(* and all went well.                                                      *)
SlipNewCookie(r) ==         \* a slip: the new sid is only set with a 200
  IF root[r] # NoSid /\ outcome[r] = "ok" THEN r
  ELSE IF kind[r] = "logout" /\ sid[r] # NoSid /\ outcome[r] = "ok" THEN NoSid
  ELSE cookie

NewCookie(r) ==
  IF root[r] # NoSid THEN r
  ELSE IF kind[r] = "logout" /\ sid[r] # NoSid /\ outcome[r] = "ok" THEN NoSid
  ELSE cookie

Deliver(r) ==
  /\ step[r] = "answered"
  /\ cookie' = NewCookie(r)
  /\ Goto(r, "done")
  /\ UNCHANGED <<keys, request, agentOK, failed, outcome, history>>

(* The answer is lost, or the server dies before it gives one.             *)
NoAnswer(r) ==
  /\ r \in UnderWay
  /\ Goto(r, "lost")
  /\ Clear(r)
  /\ UNCHANGED <<keys, cookie, request, outcome, history>>

Handle(r) ==
  \/ Login(r)
  \/ SetUser(r)
  \/ SetAgent(r)
  \/ SetIP(r)
  \/ SetDone(r)
  \/ GetUsername(r)
  \/ GetAgent(r)
  \/ GetIP(r)
  \/ ReadFails(r)
  \/ DelUser(r)
  \/ DelAgent(r)
  \/ DelIP(r)
  \/ Renew(r)
  \/ Logout(r)
  \/ LogoutDone(r)
  \/ Deliver(r)
  \/ NoAnswer(r)

Next ==
  \E r \in Requests :
    \/ \E k \in Kinds, address \in Addresses : Send(r, k, address)
    \/ Handle(r)

Spec == Init /\ [][Next]_vars

-----------------------------------------------------------------------------
(* Properties.                                                             *)
Steps ==
  Kinds \union {"idle", "setUser", "setAgent", "setIP", "set", "getAgent", "getIP",
                "delUser", "delAgent", "delIP", "deleted", "answered", "done", "lost"}

TypeOK ==
  /\ keys \subseteq Requests \X Fields
  /\ cookie \in Requests \union {NoSid}
  /\ kind \in [Requests -> Kinds]
  /\ step \in [Requests -> Steps]
  /\ sid \in [Requests -> Requests \union {NoSid}]
  /\ from \in [Requests -> Addresses \union {NoSid}]
  /\ agentOK \in [Requests -> BOOLEAN]
  /\ failed \in [Requests -> BOOLEAN]
  /\ outcome \in [Requests -> {"none", "ok", "refused", "error"}]
  /\ root \in [Requests -> Requests \union {NoSid}]
  /\ together \subseteq SUBSET Requests

(* After a logout or a renewal that was answered with 200, nothing is left *)
(* of the session it was sent with, and nothing of it comes back, whatever *)
(* other requests do with the same sid.                                    *)
EndedIsGone ==
  \A r \in Requests :
    kind[r] \in {"renew", "logout"} /\ outcome[r] = "ok" =>
      \A field \in Fields : <<sid[r], field>> \notin keys

(* A session has two successors only when the two renewals were under way  *)
(* together: one that comes after the other has ended finds nothing.       *)
ForkOnlyTogether ==
  \A r, q \in Requests :
    r # q /\ kind[r] = "renew" /\ kind[q] = "renew"
      /\ root[r] # NoSid /\ root[q] # NoSid /\ sid[r] = sid[q]
      => {r, q} \in together

(* A session only goes on from the address it was made at, even when some  *)
(* of its keys were never stored, are deleted already, or cannot be read.  *)
RenewedAtHome ==
  \A r \in Requests : kind[r] = "renew" /\ root[r] # NoSid => from[r] = from[sid[r]]

(* The sessions that go back to the login of the session that request q    *)
(* was sent with, and can be looked up until they expire.                  *)
Alive(q) == {s \in Requests : <<s, "user">> \in keys /\ root[s] = root[sid[q]]}
LoggedOut == {q \in Requests : kind[q] = "logout" /\ sid[q] # NoSid /\ outcome[q] = "ok"}

(* The requests that were sent with a session of login l; they are calm    *)
(* when no two of them overlap and none of their answers is lost.          *)
Line(l) == {t \in Requests : sid[t] # NoSid /\ root[sid[t]] = l}
Calm(l) == \A t, u \in Line(l) : step[t] # "lost" /\ {t, u} \notin together

(* A login whose requests are calm is ended by its logout: no session of   *)
(* it is left, even if calls of Redis failed on the way, and whatever the  *)
(* browser does at the same time with other logins, their answers crossing *)
(* those of this one.                                                      *)
CalmLogoutRevokes == \A q \in LoggedOut : Calm(root[sid[q]]) => Alive(q) = {}

(* "instant revocation" (README.md): once a logout has been answered with  *)
(* 200, no session of that login is left.                                  *)
LogoutRevokes == \A q \in LoggedOut : Alive(q) = {}
=============================================================================
