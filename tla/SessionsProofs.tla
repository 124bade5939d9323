--------------------------- MODULE SessionsProofs ---------------------------
(***************************************************************************)
(* Proofs about Sessions, for any number of requests and addresses.        *)
(*                                                                         *)
(* All of them rest on one observation: a browser only knows the sid of a  *)
(* session whose request has ended, so no SET of that session is still to  *)
(* come, and a key of it that is deleted stays deleted.                    *)
(***************************************************************************)
EXTENDS Sessions, TLAPS

Deleting == {"delUser", "delAgent", "delIP", "deleted"}
Setting == {"setUser", "setAgent", "setIP", "set"}
Ended == {"done", "lost"}

(* A sid that is known belongs to a session whose answer has arrived.      *)
KnownSid(s) == s # NoSid => step[s] = "done" /\ root[s] # NoSid

SidInv ==
  /\ KnownSid(cookie)
  /\ \A r \in Requests : KnownSid(sid[r])

(* What is known of a request from the step it has reached.                *)
StepInv ==
  \A r \in Requests :
    /\ step[r] = "idle" => outcome[r] = "none" /\ root[r] = NoSid
    /\ step[r] \in Kinds => kind[r] = step[r]
    /\ step[r] \in {"getAgent", "getIP"} => kind[r] = "renew"
    /\ step[r] \in Deleting => kind[r] \in {"renew", "logout"}
    /\ step[r] \in Deleting \union {"getAgent", "getIP"} => sid[r] # NoSid
    /\ step[r] \in Setting => kind[r] \in {"login", "renew"} /\ root[r] # NoSid

(* What is gone of the session of a request: as much as its DELs that were *)
(* answered without an error have removed, and all of it once the request  *)
(* has gone on to a session of its own.                                    *)
Gone(r, F) == \A field \in F : <<sid[r], field>> \notin keys

GoneInv ==
  \A r \in Requests :
    /\ step[r] = "delAgent" /\ ~failed[r] => Gone(r, {"user"})
    /\ step[r] = "delIP" /\ ~failed[r] => Gone(r, {"user", "agent"})
    /\ step[r] = "deleted" /\ ~failed[r] => Gone(r, Fields)
    /\ kind[r] = "renew" /\ root[r] # NoSid => Gone(r, Fields)

(* A renewal that deletes its session has passed the comparison.           *)
HomeInv ==
  \A r \in Requests :
    kind[r] = "renew" /\ step[r] \in Deleting => from[r] = from[sid[r]]

(* Of two requests that were sent and never under way together, one has    *)
(* ended.                                                                  *)
TogetherInv ==
  \A r, q \in Requests :
    r # q /\ {r, q} \notin together /\ step[r] # "idle" /\ step[q] # "idle"
      => step[r] \in Ended \/ step[q] \in Ended

(* A renewal that has seen its session alive was under way together with   *)
(* every other one that goes on from that session.                         *)
SawIt(r) ==
  kind[r] = "renew" /\ (root[r] # NoSid \/ step[r] \in {"getAgent", "getIP"} \union Deleting)

ForkInv ==
  \A r, q \in Requests :
    r # q /\ SawIt(r) /\ kind[q] = "renew" /\ root[q] # NoSid /\ sid[r] = sid[q]
      => {r, q} \in together

IInv ==
  /\ TypeOK
  /\ SidInv
  /\ StepInv
  /\ GoneInv
  /\ HomeInv
  /\ TogetherInv
  /\ ForkInv
  /\ EndedIsGone
  /\ RenewedAtHome

-----------------------------------------------------------------------------
USE DEF vars, request, local, history, Goto, GoOn, Clear, End, Call

(* A SET of a session under way brings back nothing of one that has ended. *)
LEMMA SetEndedIsGone ==
  ASSUME IInv, NEW r \in Requests, step[r] # "done", NEW field \in Fields,
         keys' \subseteq keys \union {<<r, field>>}, UNCHANGED <<kind, sid, outcome>>
  PROVE  EndedIsGone'
<1> SUFFICES ASSUME NEW q \in Requests, kind[q] \in {"renew", "logout"}, outcome[q] = "ok",
                    NEW f \in Fields
             PROVE  <<sid[q], f>> \notin keys'
  BY DEF EndedIsGone
<1>1. <<sid[q], f>> \notin keys
  BY DEF IInv, EndedIsGone
<1>2. sid[q] # r
  BY NoSidAssumption DEF IInv, SidInv, KnownSid
<1> QED
  BY <1>1, <1>2

(* A request is sent: it was idle, and gets the sid the browser knows.     *)
LEMMA SendStep ==
  ASSUME IInv, NEW r \in Requests, NEW k \in Kinds, NEW address \in Addresses, Send(r, k, address)
  PROVE  IInv'
<1>1. TypeOK'
  <2>1. {{r, q} : q \in UnderWay} \subseteq SUBSET Requests
    BY DEF UnderWay
  <2>2. together' \subseteq SUBSET Requests
    BY <2>1 DEF IInv, TypeOK, Send
  <2>3. sid'[r] \in Requests \union {NoSid} /\ from'[r] \in Addresses \union {NoSid}
    BY DEF IInv, TypeOK, Send
  <2> QED
    BY <2>2, <2>3 DEF IInv, TypeOK, Steps, Kinds, Send
<1>2. SidInv'
  BY DEF IInv, TypeOK, SidInv, KnownSid, Send
<1>3. StepInv'
  BY DEF IInv, TypeOK, StepInv, Kinds, Deleting, Setting, Send
<1>4. GoneInv'
  BY DEF IInv, TypeOK, SidInv, KnownSid, StepInv, Deleting, Setting, GoneInv, Gone,
         Fields, Kinds, Send
<1>5. HomeInv'
  BY NoSidAssumption DEF IInv, TypeOK, SidInv, KnownSid, HomeInv, Deleting, Kinds, Send
<1>6. TogetherInv'
  BY DEF IInv, TypeOK, TogetherInv, Ended, UnderWay, Send
<1>7. ForkInv'
  BY DEF IInv, TypeOK, ForkInv, SawIt, Deleting, StepInv, Send
<1>8. EndedIsGone'
  <2> SUFFICES ASSUME NEW q \in Requests, kind'[q] \in {"renew", "logout"},
                      outcome'[q] = "ok", NEW field \in Fields
               PROVE  <<sid'[q], field>> \notin keys'
    BY DEF EndedIsGone
  <2>1. outcome' = outcome /\ keys' = keys
    BY DEF Send
  <2>2. q # r
    BY <2>1 DEF IInv, StepInv, Send
  <2>3. kind'[q] = kind[q] /\ sid'[q] = sid[q]
    BY <2>2 DEF IInv, TypeOK, Send
  <2> QED
    BY <2>1, <2>3 DEF IInv, EndedIsGone
<1>9. RenewedAtHome'
  BY NoSidAssumption DEF IInv, TypeOK, SidInv, KnownSid, RenewedAtHome, StepInv, Send
<1> QED
  BY <1>1, <1>2, <1>3, <1>4, <1>5, <1>6, <1>7, <1>8, <1>9 DEF IInv

(* A login has no session to end, and starts one of its own.               *)
LEMMA LoginStep ==
  ASSUME IInv, NEW r \in Requests, Login(r)
  PROVE  IInv'
<1>1. TypeOK'
  BY DEF IInv, TypeOK, Steps, Kinds, Fields, Login
<1>2. SidInv'
  BY DEF IInv, TypeOK, SidInv, KnownSid, StepInv, Login
<1>3. StepInv'
  BY NoSidAssumption DEF IInv, TypeOK, StepInv, Kinds, Deleting, Setting, Login
<1>4. GoneInv'
  BY DEF IInv, TypeOK, SidInv, KnownSid, StepInv, Deleting, Setting, GoneInv, Gone,
         Fields, Kinds, Login
<1>5. HomeInv'
  BY DEF IInv, TypeOK, SidInv, KnownSid, HomeInv, Deleting, Login
<1>6. TogetherInv'
  BY DEF IInv, TypeOK, TogetherInv, Ended, UnderWay, Login
<1>7. ForkInv'
  BY DEF IInv, TypeOK, ForkInv, SawIt, Deleting, StepInv, Kinds, Login
<1>8. EndedIsGone'
  BY DEF IInv, TypeOK, SidInv, KnownSid, EndedIsGone, Fields, Login
<1>9. RenewedAtHome'
  BY DEF IInv, TypeOK, SidInv, KnownSid, RenewedAtHome, StepInv, Kinds, Login
<1> QED
  BY <1>1, <1>2, <1>3, <1>4, <1>5, <1>6, <1>7, <1>8, <1>9 DEF IInv

(* A SET touches a session nobody knows yet.                               *)
LEMMA SetUserStep ==
  ASSUME IInv, NEW r \in Requests, SetUser(r)
  PROVE  IInv'
<1>1. TypeOK'
  <2>1. <<r, "user">> \in Requests \X Fields
    BY DEF Fields
  <2>2. keys' \subseteq Requests \X Fields
    BY <2>1 DEF IInv, TypeOK, SetUser, Set
  <2> QED
    BY <2>2 DEF IInv, TypeOK, Steps, Kinds, SetUser, Set
<1>2. SidInv'
  BY DEF IInv, TypeOK, SidInv, KnownSid, SetUser, Set
<1>3. StepInv'
  BY DEF IInv, TypeOK, StepInv, Kinds, Deleting, Setting, SetUser, Set
<1>4. GoneInv'
  BY NoSidAssumption DEF IInv, TypeOK, SidInv, KnownSid, StepInv, Deleting, Setting,
         GoneInv, Gone, Fields, SetUser, Set
<1>5. HomeInv'
  BY DEF IInv, TypeOK, SidInv, KnownSid, HomeInv, Deleting, SetUser, Set
<1>6. TogetherInv'
  BY DEF IInv, TypeOK, TogetherInv, Ended, UnderWay, SetUser, Set
<1>7. ForkInv'
  BY DEF IInv, TypeOK, ForkInv, SawIt, Deleting, SetUser, Set
<1>8. EndedIsGone'
  <2>1. /\ keys' \subseteq keys \union {<<r, "user">>}
        /\ UNCHANGED <<kind, sid, outcome>>
        /\ step[r] # "done"
    BY DEF SetUser, Set
  <2>2. "user" \in Fields
    BY DEF Fields
  <2> QED
    BY <2>1, <2>2, SetEndedIsGone
<1>9. RenewedAtHome'
  BY DEF IInv, TypeOK, SidInv, KnownSid, RenewedAtHome, SetUser, Set
<1> QED
  BY <1>1, <1>2, <1>3, <1>4, <1>5, <1>6, <1>7, <1>8, <1>9 DEF IInv

(* A SET touches a session nobody knows yet.                               *)
LEMMA SetAgentStep ==
  ASSUME IInv, NEW r \in Requests, SetAgent(r)
  PROVE  IInv'
<1>1. TypeOK'
  <2>1. <<r, "agent">> \in Requests \X Fields
    BY DEF Fields
  <2>2. keys' \subseteq Requests \X Fields
    BY <2>1 DEF IInv, TypeOK, SetAgent, Set
  <2> QED
    BY <2>2 DEF IInv, TypeOK, Steps, Kinds, SetAgent, Set
<1>2. SidInv'
  BY DEF IInv, TypeOK, SidInv, KnownSid, SetAgent, Set
<1>3. StepInv'
  BY DEF IInv, TypeOK, StepInv, Kinds, Deleting, Setting, SetAgent, Set
<1>4. GoneInv'
  BY NoSidAssumption DEF IInv, TypeOK, SidInv, KnownSid, StepInv, Deleting, Setting,
         GoneInv, Gone, Fields, SetAgent, Set
<1>5. HomeInv'
  BY DEF IInv, TypeOK, SidInv, KnownSid, HomeInv, Deleting, SetAgent, Set
<1>6. TogetherInv'
  BY DEF IInv, TypeOK, TogetherInv, Ended, UnderWay, SetAgent, Set
<1>7. ForkInv'
  BY DEF IInv, TypeOK, ForkInv, SawIt, Deleting, SetAgent, Set
<1>8. EndedIsGone'
  <2>1. /\ keys' \subseteq keys \union {<<r, "agent">>}
        /\ UNCHANGED <<kind, sid, outcome>>
        /\ step[r] # "done"
    BY DEF SetAgent, Set
  <2>2. "agent" \in Fields
    BY DEF Fields
  <2> QED
    BY <2>1, <2>2, SetEndedIsGone
<1>9. RenewedAtHome'
  BY DEF IInv, TypeOK, SidInv, KnownSid, RenewedAtHome, SetAgent, Set
<1> QED
  BY <1>1, <1>2, <1>3, <1>4, <1>5, <1>6, <1>7, <1>8, <1>9 DEF IInv

(* A SET touches a session nobody knows yet.                               *)
LEMMA SetIPStep ==
  ASSUME IInv, NEW r \in Requests, SetIP(r)
  PROVE  IInv'
<1>1. TypeOK'
  <2>1. <<r, "ip">> \in Requests \X Fields
    BY DEF Fields
  <2>2. keys' \subseteq Requests \X Fields
    BY <2>1 DEF IInv, TypeOK, SetIP, Set
  <2> QED
    BY <2>2 DEF IInv, TypeOK, Steps, Kinds, SetIP, Set
<1>2. SidInv'
  BY DEF IInv, TypeOK, SidInv, KnownSid, SetIP, Set
<1>3. StepInv'
  BY DEF IInv, TypeOK, StepInv, Kinds, Deleting, Setting, SetIP, Set
<1>4. GoneInv'
  BY NoSidAssumption DEF IInv, TypeOK, SidInv, KnownSid, StepInv, Deleting, Setting,
         GoneInv, Gone, Fields, SetIP, Set
<1>5. HomeInv'
  BY DEF IInv, TypeOK, SidInv, KnownSid, HomeInv, Deleting, SetIP, Set
<1>6. TogetherInv'
  BY DEF IInv, TypeOK, TogetherInv, Ended, UnderWay, SetIP, Set
<1>7. ForkInv'
  BY DEF IInv, TypeOK, ForkInv, SawIt, Deleting, SetIP, Set
<1>8. EndedIsGone'
  <2>1. /\ keys' \subseteq keys \union {<<r, "ip">>}
        /\ UNCHANGED <<kind, sid, outcome>>
        /\ step[r] # "done"
    BY DEF SetIP, Set
  <2>2. "ip" \in Fields
    BY DEF Fields
  <2> QED
    BY <2>1, <2>2, SetEndedIsGone
<1>9. RenewedAtHome'
  BY DEF IInv, TypeOK, SidInv, KnownSid, RenewedAtHome, SetIP, Set
<1> QED
  BY <1>1, <1>2, <1>3, <1>4, <1>5, <1>6, <1>7, <1>8, <1>9 DEF IInv

(* The session is made: that of a renewal before it is gone.               *)
LEMMA SetDoneStep ==
  ASSUME IInv, NEW r \in Requests, SetDone(r)
  PROVE  IInv'
<1>1. TypeOK'
  BY DEF IInv, TypeOK, Steps, Kinds, Fields, SetDone
<1>2. SidInv'
  BY DEF IInv, TypeOK, SidInv, KnownSid, SetDone
<1>3. StepInv'
  BY DEF IInv, TypeOK, StepInv, Kinds, Deleting, Setting, SetDone
<1>4. GoneInv'
  BY DEF IInv, TypeOK, SidInv, KnownSid, StepInv, Deleting, Setting, GoneInv, Gone,
         Fields, SetDone
<1>5. HomeInv'
  BY DEF IInv, TypeOK, SidInv, KnownSid, HomeInv, Deleting, SetDone
<1>6. TogetherInv'
  BY DEF IInv, TypeOK, TogetherInv, Ended, UnderWay, SetDone
<1>7. ForkInv'
  BY DEF IInv, TypeOK, ForkInv, SawIt, Deleting, SetDone
<1>8. EndedIsGone'
  <2>1. \A s \in Requests \ {r} : outcome'[s] = outcome[s]
    BY DEF IInv, TypeOK, SetDone
  <2>2. UNCHANGED <<keys, kind, sid>>
    BY DEF SetDone
  <2>3. kind[r] \in {"login", "renew"} /\ root[r] # NoSid
    BY DEF IInv, StepInv, Setting, SetDone
  <2>4. kind[r] = "renew" => Gone(r, Fields)
    BY <2>3 DEF IInv, GoneInv
  <2> QED
    BY <2>1, <2>2, <2>3, <2>4 DEF IInv, EndedIsGone, Gone
<1>9. RenewedAtHome'
  BY DEF IInv, TypeOK, SidInv, KnownSid, RenewedAtHome, SetDone
<1> QED
  BY <1>1, <1>2, <1>3, <1>4, <1>5, <1>6, <1>7, <1>8, <1>9 DEF IInv

(* A renewal that finds its session alive is the only one to go on from it. *)
LEMMA GetUsernameStep ==
  ASSUME IInv, NEW r \in Requests, GetUsername(r)
  PROVE  IInv'
<1>1. TypeOK'
  BY DEF IInv, TypeOK, Steps, Kinds, Fields, GetUsername
<1>2. SidInv'
  BY DEF IInv, TypeOK, SidInv, KnownSid, GetUsername
<1>3. StepInv'
  BY NoSidAssumption DEF IInv, TypeOK, StepInv, Kinds, Deleting, Setting, GetUsername
<1>4. GoneInv'
  BY DEF IInv, TypeOK, SidInv, KnownSid, StepInv, Deleting, Setting, GoneInv, Gone,
         Fields, GetUsername
<1>5. HomeInv'
  BY DEF IInv, TypeOK, SidInv, KnownSid, HomeInv, Deleting, GetUsername
<1>6. TogetherInv'
  BY DEF IInv, TypeOK, TogetherInv, Ended, UnderWay, GetUsername
<1>7. ForkInv'
  <2>1. UNCHANGED <<keys, kind, sid, root, together>>
    BY DEF GetUsername
  <2>2. \A s \in Requests \ {r} : step'[s] = step[s]
    BY DEF IInv, TypeOK, GetUsername
  <2>3. \A s \in Requests \ {r} : SawIt(s)' => SawIt(s)
    BY <2>1, <2>2 DEF SawIt
  <2>4. SawIt(r)' => SawIt(r) \/ <<sid[r], "user">> \in keys
    BY <2>1 DEF IInv, TypeOK, GetUsername, SawIt, Deleting
  <2>5. ASSUME NEW q \in Requests, kind[q] = "renew", root[q] # NoSid, sid[r] = sid[q]
        PROVE  <<sid[r], "user">> \notin keys
    BY <2>5 DEF IInv, GoneInv, Gone, Fields
  <2> QED
    BY <2>1, <2>3, <2>4, <2>5 DEF IInv, ForkInv
<1>8. EndedIsGone'
  <2>1. \A s \in Requests : outcome'[s] = "ok" => outcome[s] = "ok"
    BY DEF IInv, TypeOK, GetUsername
  <2>2. UNCHANGED <<keys, kind, sid>>
    BY DEF GetUsername
  <2> QED
    BY <2>1, <2>2 DEF IInv, EndedIsGone
<1>9. RenewedAtHome'
  BY DEF IInv, TypeOK, SidInv, KnownSid, RenewedAtHome, GetUsername
<1> QED
  BY <1>1, <1>2, <1>3, <1>4, <1>5, <1>6, <1>7, <1>8, <1>9 DEF IInv

(* Reading the user agent decides nothing yet.                             *)
LEMMA GetAgentStep ==
  ASSUME IInv, NEW r \in Requests, GetAgent(r)
  PROVE  IInv'
<1>1. TypeOK'
  BY DEF IInv, TypeOK, Steps, Kinds, Fields, GetAgent
<1>2. SidInv'
  BY DEF IInv, TypeOK, SidInv, KnownSid, GetAgent
<1>3. StepInv'
  BY DEF IInv, TypeOK, StepInv, Kinds, Deleting, Setting, GetAgent
<1>4. GoneInv'
  BY DEF IInv, TypeOK, SidInv, KnownSid, StepInv, Deleting, Setting, GoneInv, Gone,
         Fields, GetAgent
<1>5. HomeInv'
  BY DEF IInv, TypeOK, SidInv, KnownSid, HomeInv, Deleting, GetAgent
<1>6. TogetherInv'
  BY DEF IInv, TypeOK, TogetherInv, Ended, UnderWay, GetAgent
<1>7. ForkInv'
  BY DEF IInv, TypeOK, ForkInv, SawIt, Deleting, GetAgent
<1>8. EndedIsGone'
  BY DEF IInv, TypeOK, SidInv, KnownSid, EndedIsGone, Fields, GetAgent
<1>9. RenewedAtHome'
  BY DEF IInv, TypeOK, SidInv, KnownSid, RenewedAtHome, GetAgent
<1> QED
  BY <1>1, <1>2, <1>3, <1>4, <1>5, <1>6, <1>7, <1>8, <1>9 DEF IInv

(* Here the addresses are compared.                                        *)
LEMMA GetIPStep ==
  ASSUME IInv, NEW r \in Requests, GetIP(r)
  PROVE  IInv'
<1>1. TypeOK'
  <2>1. /\ step' \in [Requests -> Steps]
        /\ agentOK' \in [Requests -> BOOLEAN]
        /\ failed' \in [Requests -> BOOLEAN]
        /\ outcome' \in [Requests -> {"none", "ok", "refused", "error"}]
    <3>1. CASE agentOK[r] /\ SameIP(r)
      BY <3>1 DEF IInv, TypeOK, Steps, GetIP
    <3>2. CASE ~(agentOK[r] /\ SameIP(r))
      BY <3>2 DEF IInv, TypeOK, Steps, GetIP
    <3> QED
      BY <3>1, <3>2
  <2> QED
    BY <2>1 DEF IInv, TypeOK, GetIP
<1>2. SidInv'
  BY DEF IInv, TypeOK, SidInv, KnownSid, GetIP, SameIP
<1>3. StepInv'
  BY DEF IInv, TypeOK, StepInv, Kinds, Deleting, Setting, GetIP, SameIP
<1>4. GoneInv'
  <2>1. UNCHANGED <<keys, kind, sid, root>>
    BY DEF GetIP
  <2>2. step'[r] \in {"delUser", "answered"}
    BY DEF IInv, TypeOK, GetIP
  <2>3. \A q \in Requests \ {r} : step'[q] = step[q] /\ failed'[q] = failed[q]
    BY DEF IInv, TypeOK, GetIP
  <2> QED
    BY <2>1, <2>2, <2>3 DEF IInv, GoneInv, Gone
<1>5. HomeInv'
  BY DEF IInv, TypeOK, SidInv, KnownSid, HomeInv, Deleting, StepInv, GetIP, SameIP
<1>6. TogetherInv'
  BY DEF IInv, TypeOK, TogetherInv, Ended, UnderWay, GetIP, SameIP
<1>7. ForkInv'
  BY DEF IInv, TypeOK, ForkInv, SawIt, Deleting, GetIP, SameIP
<1>8. EndedIsGone'
  <2>1. \A s \in Requests : outcome'[s] = "ok" => outcome[s] = "ok"
    BY DEF IInv, TypeOK, GetIP
  <2>2. UNCHANGED <<keys, kind, sid>>
    BY DEF GetIP
  <2> QED
    BY <2>1, <2>2 DEF IInv, EndedIsGone
<1>9. RenewedAtHome'
  BY DEF IInv, TypeOK, SidInv, KnownSid, RenewedAtHome, GetIP, SameIP
<1> QED
  BY <1>1, <1>2, <1>3, <1>4, <1>5, <1>6, <1>7, <1>8, <1>9 DEF IInv

(* A failed read ends the request.                                         *)
LEMMA ReadFailsStep ==
  ASSUME IInv, NEW r \in Requests, ReadFails(r)
  PROVE  IInv'
<1>1. TypeOK'
  BY DEF IInv, TypeOK, Steps, Kinds, Fields, ReadFails
<1>2. SidInv'
  BY DEF IInv, TypeOK, SidInv, KnownSid, ReadFails
<1>3. StepInv'
  BY DEF IInv, TypeOK, StepInv, Kinds, Deleting, Setting, ReadFails
<1>4. GoneInv'
  BY DEF IInv, TypeOK, SidInv, KnownSid, StepInv, Deleting, Setting, GoneInv, Gone,
         Fields, ReadFails
<1>5. HomeInv'
  BY DEF IInv, TypeOK, SidInv, KnownSid, HomeInv, Deleting, ReadFails
<1>6. TogetherInv'
  BY DEF IInv, TypeOK, TogetherInv, Ended, UnderWay, ReadFails
<1>7. ForkInv'
  BY DEF IInv, TypeOK, ForkInv, SawIt, Deleting, ReadFails
<1>8. EndedIsGone'
  BY DEF IInv, TypeOK, SidInv, KnownSid, EndedIsGone, Fields, ReadFails
<1>9. RenewedAtHome'
  BY DEF IInv, TypeOK, SidInv, KnownSid, RenewedAtHome, ReadFails
<1> QED
  BY <1>1, <1>2, <1>3, <1>4, <1>5, <1>6, <1>7, <1>8, <1>9 DEF IInv

(* A DEL only removes.                                                     *)
LEMMA DelUserStep ==
  ASSUME IInv, NEW r \in Requests, DelUser(r)
  PROVE  IInv'
<1>1. TypeOK'
  BY DEF IInv, TypeOK, Steps, Kinds, Fields, DelUser, Del
<1>2. SidInv'
  BY DEF IInv, TypeOK, SidInv, KnownSid, DelUser, Del
<1>3. StepInv'
  BY DEF IInv, TypeOK, StepInv, Kinds, Deleting, Setting, DelUser, Del
<1>4. GoneInv'
  BY DEF IInv, TypeOK, SidInv, KnownSid, StepInv, Deleting, Setting, GoneInv, Gone,
         Fields, DelUser, Del
<1>5. HomeInv'
  BY DEF IInv, TypeOK, SidInv, KnownSid, HomeInv, Deleting, DelUser, Del
<1>6. TogetherInv'
  BY DEF IInv, TypeOK, TogetherInv, Ended, UnderWay, DelUser, Del
<1>7. ForkInv'
  BY DEF IInv, TypeOK, ForkInv, SawIt, Deleting, DelUser, Del
<1>8. EndedIsGone'
  BY DEF IInv, TypeOK, SidInv, KnownSid, EndedIsGone, Fields, DelUser, Del
<1>9. RenewedAtHome'
  BY DEF IInv, TypeOK, SidInv, KnownSid, RenewedAtHome, DelUser, Del
<1> QED
  BY <1>1, <1>2, <1>3, <1>4, <1>5, <1>6, <1>7, <1>8, <1>9 DEF IInv

(* A DEL only removes.                                                     *)
LEMMA DelAgentStep ==
  ASSUME IInv, NEW r \in Requests, DelAgent(r)
  PROVE  IInv'
<1>1. TypeOK'
  BY DEF IInv, TypeOK, Steps, Kinds, Fields, DelAgent, Del
<1>2. SidInv'
  BY DEF IInv, TypeOK, SidInv, KnownSid, DelAgent, Del
<1>3. StepInv'
  BY DEF IInv, TypeOK, StepInv, Kinds, Deleting, Setting, DelAgent, Del
<1>4. GoneInv'
  BY DEF IInv, TypeOK, SidInv, KnownSid, StepInv, Deleting, Setting, GoneInv, Gone,
         Fields, DelAgent, Del
<1>5. HomeInv'
  BY DEF IInv, TypeOK, SidInv, KnownSid, HomeInv, Deleting, DelAgent, Del
<1>6. TogetherInv'
  BY DEF IInv, TypeOK, TogetherInv, Ended, UnderWay, DelAgent, Del
<1>7. ForkInv'
  BY DEF IInv, TypeOK, ForkInv, SawIt, Deleting, DelAgent, Del
<1>8. EndedIsGone'
  BY DEF IInv, TypeOK, SidInv, KnownSid, EndedIsGone, Fields, DelAgent, Del
<1>9. RenewedAtHome'
  BY DEF IInv, TypeOK, SidInv, KnownSid, RenewedAtHome, DelAgent, Del
<1> QED
  BY <1>1, <1>2, <1>3, <1>4, <1>5, <1>6, <1>7, <1>8, <1>9 DEF IInv

(* A DEL only removes.                                                     *)
LEMMA DelIPStep ==
  ASSUME IInv, NEW r \in Requests, DelIP(r)
  PROVE  IInv'
<1>1. TypeOK'
  BY DEF IInv, TypeOK, Steps, Kinds, Fields, DelIP, Del
<1>2. SidInv'
  BY DEF IInv, TypeOK, SidInv, KnownSid, DelIP, Del
<1>3. StepInv'
  BY DEF IInv, TypeOK, StepInv, Kinds, Deleting, Setting, DelIP, Del
<1>4. GoneInv'
  BY DEF IInv, TypeOK, SidInv, KnownSid, StepInv, Deleting, Setting, GoneInv, Gone,
         Fields, DelIP, Del
<1>5. HomeInv'
  BY DEF IInv, TypeOK, SidInv, KnownSid, HomeInv, Deleting, DelIP, Del
<1>6. TogetherInv'
  BY DEF IInv, TypeOK, TogetherInv, Ended, UnderWay, DelIP, Del
<1>7. ForkInv'
  BY DEF IInv, TypeOK, ForkInv, SawIt, Deleting, DelIP, Del
<1>8. EndedIsGone'
  BY DEF IInv, TypeOK, SidInv, KnownSid, EndedIsGone, Fields, DelIP, Del
<1>9. RenewedAtHome'
  BY DEF IInv, TypeOK, SidInv, KnownSid, RenewedAtHome, DelIP, Del
<1> QED
  BY <1>1, <1>2, <1>3, <1>4, <1>5, <1>6, <1>7, <1>8, <1>9 DEF IInv

(* The old session is gone before the new one is made.                     *)
LEMMA RenewStep ==
  ASSUME IInv, NEW r \in Requests, Renew(r)
  PROVE  IInv'
<1>1. TypeOK'
  <2>1. sid[r] \in Requests
    BY DEF IInv, TypeOK, StepInv, Deleting, Renew
  <2>2. root' \in [Requests -> Requests \union {NoSid}]
    BY <2>1 DEF IInv, TypeOK, Renew
  <2> QED
    BY <2>2 DEF IInv, TypeOK, Steps, Kinds, Renew
<1>2. SidInv'
  BY DEF IInv, TypeOK, SidInv, KnownSid, Renew
<1>3. StepInv'
  BY DEF IInv, TypeOK, StepInv, Kinds, Deleting, Setting, SidInv, KnownSid, Renew
<1>4. GoneInv'
  BY DEF IInv, TypeOK, SidInv, KnownSid, StepInv, Deleting, Setting, GoneInv, Gone,
         Fields, Renew
<1>5. HomeInv'
  BY DEF IInv, TypeOK, SidInv, KnownSid, HomeInv, Deleting, Renew
<1>6. TogetherInv'
  BY DEF IInv, TypeOK, TogetherInv, Ended, UnderWay, Renew
<1>7. ForkInv'
  BY DEF IInv, TypeOK, ForkInv, SawIt, Deleting, TogetherInv, Ended, SidInv,
         KnownSid, StepInv, Renew
<1>8. EndedIsGone'
  <2>1. \A s \in Requests : outcome'[s] = "ok" => outcome[s] = "ok"
    BY DEF IInv, TypeOK, Renew
  <2>2. UNCHANGED <<keys, kind, sid>>
    BY DEF Renew
  <2> QED
    BY <2>1, <2>2 DEF IInv, EndedIsGone
<1>9. RenewedAtHome'
  BY DEF IInv, TypeOK, SidInv, KnownSid, RenewedAtHome, HomeInv, Deleting, Renew
<1> QED
  BY <1>1, <1>2, <1>3, <1>4, <1>5, <1>6, <1>7, <1>8, <1>9 DEF IInv

(* A logout without a cookie has nothing to do.                            *)
LEMMA LogoutStep ==
  ASSUME IInv, NEW r \in Requests, Logout(r)
  PROVE  IInv'
<1>1. TypeOK'
  BY DEF IInv, TypeOK, Steps, Kinds, Fields, Logout
<1>2. SidInv'
  BY DEF IInv, TypeOK, SidInv, KnownSid, Logout
<1>3. StepInv'
  BY DEF IInv, TypeOK, StepInv, Kinds, Deleting, Setting, Logout
<1>4. GoneInv'
  BY DEF IInv, TypeOK, SidInv, KnownSid, StepInv, Deleting, Setting, GoneInv, Gone,
         Fields, Logout
<1>5. HomeInv'
  BY DEF IInv, TypeOK, SidInv, KnownSid, HomeInv, Deleting, StepInv, Kinds, Logout
<1>6. TogetherInv'
  BY DEF IInv, TypeOK, TogetherInv, Ended, UnderWay, Logout
<1>7. ForkInv'
  BY DEF IInv, TypeOK, ForkInv, SawIt, Deleting, StepInv, Kinds, Logout
<1>8. EndedIsGone'
  <2>1. \A s \in Requests \ {r} : outcome'[s] = outcome[s]
    BY DEF IInv, TypeOK, Logout
  <2>2. UNCHANGED <<keys, kind, sid>>
    BY DEF Logout
  <2>3. outcome'[r] = "ok" => outcome[r] = "ok" \/ sid[r] = NoSid
    BY DEF IInv, TypeOK, Logout
  <2>4. \A field \in Fields : <<NoSid, field>> \notin keys
    BY NoSidAssumption DEF IInv, TypeOK
  <2> QED
    BY <2>1, <2>2, <2>3, <2>4 DEF IInv, EndedIsGone
<1>9. RenewedAtHome'
  BY DEF IInv, TypeOK, SidInv, KnownSid, RenewedAtHome, Logout
<1> QED
  BY <1>1, <1>2, <1>3, <1>4, <1>5, <1>6, <1>7, <1>8, <1>9 DEF IInv

(* A logout answered with 200 has removed all three keys.                  *)
LEMMA LogoutDoneStep ==
  ASSUME IInv, NEW r \in Requests, LogoutDone(r)
  PROVE  IInv'
<1>1. TypeOK'
  BY DEF IInv, TypeOK, Steps, Kinds, Fields, LogoutDone
<1>2. SidInv'
  BY DEF IInv, TypeOK, SidInv, KnownSid, LogoutDone
<1>3. StepInv'
  BY DEF IInv, TypeOK, StepInv, Kinds, Deleting, Setting, LogoutDone
<1>4. GoneInv'
  BY DEF IInv, TypeOK, SidInv, KnownSid, StepInv, Deleting, Setting, GoneInv, Gone,
         Fields, LogoutDone
<1>5. HomeInv'
  BY DEF IInv, TypeOK, SidInv, KnownSid, HomeInv, Deleting, LogoutDone
<1>6. TogetherInv'
  BY DEF IInv, TypeOK, TogetherInv, Ended, UnderWay, LogoutDone
<1>7. ForkInv'
  BY DEF IInv, TypeOK, ForkInv, SawIt, Deleting, LogoutDone
<1>8. EndedIsGone'
  BY DEF IInv, TypeOK, SidInv, KnownSid, EndedIsGone, Fields, GoneInv, Gone, LogoutDone
<1>9. RenewedAtHome'
  BY DEF IInv, TypeOK, SidInv, KnownSid, RenewedAtHome, LogoutDone
<1> QED
  BY <1>1, <1>2, <1>3, <1>4, <1>5, <1>6, <1>7, <1>8, <1>9 DEF IInv

(* The browser learns a sid only from the request that made it, as that ends. *)
LEMMA DeliverStep ==
  ASSUME IInv, NEW r \in Requests, Deliver(r)
  PROVE  IInv'
<1>1. TypeOK'
  BY DEF IInv, TypeOK, Steps, Kinds, Fields, Deliver, NewCookie
<1>2. SidInv'
  BY DEF IInv, TypeOK, SidInv, KnownSid, Deliver, NewCookie
<1>3. StepInv'
  BY DEF IInv, TypeOK, StepInv, Kinds, Deleting, Setting, Deliver, NewCookie
<1>4. GoneInv'
  BY DEF IInv, TypeOK, SidInv, KnownSid, StepInv, Deleting, Setting, GoneInv, Gone,
         Fields, Deliver, NewCookie
<1>5. HomeInv'
  BY DEF IInv, TypeOK, SidInv, KnownSid, HomeInv, Deleting, Deliver, NewCookie
<1>6. TogetherInv'
  BY DEF IInv, TypeOK, TogetherInv, Ended, UnderWay, Deliver, NewCookie
<1>7. ForkInv'
  BY DEF IInv, TypeOK, ForkInv, SawIt, Deleting, Deliver, NewCookie
<1>8. EndedIsGone'
  BY DEF IInv, TypeOK, SidInv, KnownSid, EndedIsGone, Fields, Deliver, NewCookie
<1>9. RenewedAtHome'
  BY DEF IInv, TypeOK, SidInv, KnownSid, RenewedAtHome, Deliver, NewCookie
<1> QED
  BY <1>1, <1>2, <1>3, <1>4, <1>5, <1>6, <1>7, <1>8, <1>9 DEF IInv

(* A request that is lost ends, and the browser learns nothing.            *)
LEMMA NoAnswerStep ==
  ASSUME IInv, NEW r \in Requests, NoAnswer(r)
  PROVE  IInv'
<1>1. TypeOK'
  BY DEF IInv, TypeOK, Steps, Kinds, Fields, NoAnswer, UnderWay
<1>2. SidInv'
  BY DEF IInv, TypeOK, SidInv, KnownSid, NoAnswer, UnderWay
<1>3. StepInv'
  BY DEF IInv, TypeOK, StepInv, Kinds, Deleting, Setting, NoAnswer, UnderWay
<1>4. GoneInv'
  BY DEF IInv, TypeOK, SidInv, KnownSid, StepInv, Deleting, Setting, GoneInv, Gone,
         Fields, NoAnswer, UnderWay
<1>5. HomeInv'
  BY DEF IInv, TypeOK, SidInv, KnownSid, HomeInv, Deleting, NoAnswer, UnderWay
<1>6. TogetherInv'
  BY DEF IInv, TypeOK, TogetherInv, Ended, UnderWay, NoAnswer
<1>7. ForkInv'
  BY DEF IInv, TypeOK, ForkInv, SawIt, Deleting, NoAnswer, UnderWay
<1>8. EndedIsGone'
  BY DEF IInv, TypeOK, SidInv, KnownSid, EndedIsGone, Fields, NoAnswer, UnderWay
<1>9. RenewedAtHome'
  BY DEF IInv, TypeOK, SidInv, KnownSid, RenewedAtHome, NoAnswer, UnderWay
<1> QED
  BY <1>1, <1>2, <1>3, <1>4, <1>5, <1>6, <1>7, <1>8, <1>9 DEF IInv

-----------------------------------------------------------------------------
(* At the start nothing is stored, known or under way.                     *)
LEMMA InitIInv == Init => IInv
BY NoSidAssumption DEF Init, IInv, TypeOK, Steps, Kinds, Fields, SidInv, KnownSid, StepInv,
   Deleting, Setting, GoneInv, Gone, HomeInv, TogetherInv, ForkInv, SawIt, EndedIsGone, RenewedAtHome

(* A step that changes nothing preserves anything.                         *)
LEMMA Stutter == IInv /\ UNCHANGED vars => IInv'
BY DEF IInv, TypeOK, SidInv, KnownSid, StepInv, GoneInv, Gone, HomeInv, TogetherInv,
   ForkInv, SawIt, EndedIsGone, RenewedAtHome

(* Every step preserves the invariant.                                     *)
LEMMA NextIInv == IInv /\ [Next]_vars => IInv'
<1> SUFFICES ASSUME IInv, [Next]_vars PROVE IInv'
  OBVIOUS
<1>1. CASE UNCHANGED vars
  BY <1>1, Stutter
<1>2. CASE Next
  <2>1. PICK r \in Requests :
          (\E k \in Kinds, address \in Addresses : Send(r, k, address)) \/ Handle(r)
    BY <1>2 DEF Next
  <2>2. CASE \E k \in Kinds, address \in Addresses : Send(r, k, address)
    BY <2>2, SendStep
  <2>3. CASE Handle(r)
    BY <2>3, LoginStep, SetUserStep, SetAgentStep, SetIPStep, SetDoneStep, GetUsernameStep,
       GetAgentStep, GetIPStep, ReadFailsStep, DelUserStep, DelAgentStep, DelIPStep, RenewStep,
       LogoutStep, LogoutDoneStep, DeliverStep, NoAnswerStep
       DEF Handle
  <2> QED
    BY <2>1, <2>2, <2>3
<1> QED
  BY <1>1, <1>2

(* The inductive invariant: what is known of sids, keys and requests at    *)
(* every step of the three handlers.                                       *)
THEOREM Invariance == Spec => []IInv
BY InitIInv, NextIInv, PTL DEF Spec

(* Every variable of the handlers, of Redis and of the browser keeps its   *)
(* type.                                                                   *)
THEOREM TypeCorrect == Spec => []TypeOK
<1>1. IInv => TypeOK
  BY DEF IInv
<1> QED
  BY <1>1, Invariance, PTL

(* Nothing is left, or comes back, of a session whose renewal or logout    *)
(* was answered with 200.                                                  *)
THEOREM EndedStaysGone == Spec => []EndedIsGone
<1>1. IInv => EndedIsGone
  BY DEF IInv
<1> QED
  BY <1>1, Invariance, PTL

(* renewAccessToken goes on only from the address the session was made at. *)
THEOREM RenewalsStayHome == Spec => []RenewedAtHome
<1>1. IInv => RenewedAtHome
  BY DEF IInv
<1> QED
  BY <1>1, Invariance, PTL

(* A session forks only when two renewals of it were under way together.   *)
THEOREM ForksNeedOverlap == Spec => []ForkOnlyTogether
<1>1. IInv => ForkOnlyTogether
  BY DEF IInv, ForkInv, SawIt, ForkOnlyTogether
<1> QED
  BY <1>1, Invariance, PTL

-----------------------------------------------------------------------------
(* The line of a login: the requests that were sent with one of its        *)
(* sessions.  While they are calm at most one of them is under way, and    *)
(* all that is alive of the login is the session the browser has, the one  *)
(* that request came with, or the one it is making.  The browser may have  *)
(* another login's cookie by then; it comes back to this line only with    *)
(* the answer of that request.                                             *)
RootInv ==
  \A t \in Requests :
    /\ step[t] = "idle" \/ kind[t] = "login" => sid[t] = NoSid
    /\ root[t] # NoSid =>
         /\ kind[t] \in {"login", "renew"}
         /\ kind[t] = "login" => root[t] = t
         /\ kind[t] = "renew" => sid[t] # NoSid /\ root[t] = root[sid[t]]
         /\ root[t] # t => step[root[t]] = "done"

Going(l) == Line(l) \intersect UnderWay
OnCookie(l) == cookie # NoSid /\ root[cookie] = l
Live(l) == {s \in Requests : <<s, "user">> \in keys /\ root[s] = l}
Out(l) == LoggedOut \intersect Line(l)

CookieInv(l) == OnCookie(l) => \A t \in Going(l) : sid[t] = cookie

LiveInv(l) ==
  /\ \A t \in Going(l) : Live(l) \subseteq {sid[t], t}
  /\ OnCookie(l) => Live(l) \subseteq UnderWay \union {cookie}

OutInv(l) ==
  \A q \in Out(l) :
    /\ Live(l) = {}
    /\ Going(l) \subseteq {q}
    /\ OnCookie(l) => step[q] = "answered"

LineInv(l) == CookieInv(l) /\ LiveInv(l) /\ OutInv(l)
CalmInv == RootInv /\ \A l \in Requests : Calm(l) => LineInv(l)

(* The sessions that are known, and the logins they go back to, are those  *)
(* of requests that have ended.                                            *)
LEMMA LoginIsOver ==
  ASSUME IInv, CalmInv, NEW s \in Requests, KnownSid(s)
  PROVE  /\ step[s] = "done" /\ root[s] # NoSid
         /\ root[s] \in Requests /\ step[root[s]] = "done"
BY NoSidAssumption DEF IInv, TypeOK, CalmInv, RootInv, KnownSid

LEMMA LineIsOld ==
  ASSUME IInv, CalmInv, NEW l \in Requests, OnCookie(l) \/ Line(l) # {}
  PROVE  step[l] = "done"
<1>1. CASE OnCookie(l)
  <2>1. cookie \in Requests /\ KnownSid(cookie)
    BY <1>1 DEF OnCookie, IInv, TypeOK, SidInv
  <2> QED
    BY <1>1, <2>1, LoginIsOver DEF OnCookie
<1>2. CASE Line(l) # {}
  <2>1. PICK t \in Requests : sid[t] # NoSid /\ root[sid[t]] = l
    BY <1>2 DEF Line
  <2>2. sid[t] \in Requests /\ KnownSid(sid[t])
    BY <2>1 DEF IInv, TypeOK, SidInv
  <2> QED
    BY <2>1, <2>2, LoginIsOver
<1> QED
  BY <1>1, <1>2

(* At most one request of a calm line is under way.                        *)
LEMMA OneGoing ==
  ASSUME IInv, NEW l \in Requests, Calm(l), NEW t \in Going(l), NEW u \in Going(l)
  PROVE  t = u
BY DEF IInv, TogetherInv, Ended, Going, UnderWay, Calm, Line

(* A session belongs to the line of the renewal that made it, or is that   *)
(* of the login itself.                                                    *)
LEMMA MakerInLine ==
  ASSUME CalmInv, NEW s \in UnderWay, NEW l \in Requests, root[s] = l, l \in Requests \ {NoSid}
  PROVE  s = l \/ s \in Going(l)
BY DEF CalmInv, RootInv, Going, Line, UnderWay

(* A step of a request under way that stays under way and changes neither  *)
(* cookies nor histories: its line stays what it is.                       *)
LEMMA InsideStep ==
  ASSUME IInv, CalmInv, NEW r \in UnderWay,
         NEW to \in Steps \ {"idle", "done", "lost"}, step' = [step EXCEPT ![r] = to],
         UNCHANGED <<cookie, request, history>>
  PROVE  /\ UnderWay' = UnderWay
         /\ RootInv'
         /\ \A l \in Requests :
              /\ Calm(l)' => Calm(l)
              /\ Line(l)' = Line(l) /\ Going(l)' = Going(l) /\ OnCookie(l)' = OnCookie(l)
<1>1. /\ r \in Requests /\ step \in [Requests -> Steps] /\ step[r] \notin {"idle", "done", "lost"}
      /\ step'[r] = to /\ \A q \in Requests \ {r} : step'[q] = step[q]
  BY DEF IInv, TypeOK, UnderWay
<1>2. UnderWay' = UnderWay
  BY <1>1 DEF UnderWay
<1>3. RootInv'
  BY <1>1 DEF CalmInv, RootInv
<1>4. ASSUME NEW l \in Requests
      PROVE  /\ Line(l)' = Line(l) /\ Going(l)' = Going(l) /\ OnCookie(l)' = OnCookie(l)
             /\ Calm(l)' => Calm(l)
  <2>1. Line(l)' = Line(l) /\ OnCookie(l)' = OnCookie(l)
    BY DEF Line, OnCookie
  <2>2. Calm(l)' => Calm(l)
    BY <1>1, <2>1 DEF Calm, Line
  <2> QED
    BY <1>2, <2>1, <2>2 DEF Going
<1> QED
  BY <1>2, <1>3, <1>4

(* A step of a request that ends no session and makes none.                *)
LEMMA QuietStep ==
  ASSUME IInv, CalmInv, NEW r \in UnderWay, step[r] # "answered",
         NEW to \in Steps \ {"idle", "done", "lost"}, step' = [step EXCEPT ![r] = to],
         keys' \subseteq keys, UNCHANGED <<cookie, request, history>>,
         \A q \in Requests \ {r} : outcome'[q] = outcome[q],
         \/ outcome'[r] = outcome[r]
         \/ outcome'[r] # "ok"
         \/ kind[r] # "logout"
         \/ sid[r] = NoSid
  PROVE  CalmInv'
<1>1. /\ r \in Requests /\ step \in [Requests -> Steps]
      /\ step'[r] = to /\ \A q \in Requests \ {r} : step'[q] = step[q]
  BY DEF IInv, TypeOK, UnderWay
<1>2. LoggedOut' \subseteq LoggedOut
  BY DEF LoggedOut
<1>3. ASSUME NEW l \in Requests, Calm(l)' PROVE LineInv(l)'
  <2>1. LineInv(l) /\ Line(l)' = Line(l) /\ Going(l)' = Going(l) /\ OnCookie(l)' = OnCookie(l)
    BY <1>3, InsideStep DEF CalmInv
  <2>2. Live(l)' \subseteq Live(l) /\ Out(l)' \subseteq Out(l)
    BY <1>2, <2>1 DEF Live, Out
  <2>3. CookieInv(l)'
    BY <2>1 DEF LineInv, CookieInv
  <2>4. LiveInv(l)'
    BY <2>1, <2>2, InsideStep DEF LineInv, LiveInv
  <2>5. OutInv(l)'
    BY <1>1, <2>1, <2>2 DEF LineInv, OutInv
  <2> QED
    BY <2>3, <2>4, <2>5 DEF LineInv
<1> QED
  BY <1>3, InsideStep DEF CalmInv

(* A SET of a session that is being made: it belongs to no login that was  *)
(* logged out.                                                             *)
LEMMA SetStep ==
  ASSUME IInv, CalmInv, NEW r \in Requests, step[r] \in Setting, NEW field,
         NEW to \in Setting, step' = [step EXCEPT ![r] = to],
         keys' \subseteq keys \union {<<r, field>>}, UNCHANGED <<cookie, request, outcome, history>>
  PROVE  CalmInv'
<1>1. /\ step \in [Requests -> Steps] /\ to \in Steps \ {"idle", "done", "lost"}
      /\ step'[r] = to /\ \A q \in Requests \ {r} : step'[q] = step[q]
  BY DEF IInv, TypeOK, Setting, Steps
<1>2. r \in UnderWay /\ step[r] # "answered" /\ kind[r] # "logout"
  BY DEF UnderWay, Setting, IInv, StepInv
<1>3. ASSUME NEW l \in Requests, Calm(l)' PROVE LineInv(l)'
  <2>1. /\ LineInv(l) /\ Calm(l)
        /\ Line(l)' = Line(l) /\ Going(l)' = Going(l) /\ OnCookie(l)' = OnCookie(l)
    BY <1>1, <1>2, <1>3, InsideStep DEF CalmInv
  <2>2. UnderWay' = UnderWay
    BY <1>1, <1>2, InsideStep
  <2>3. Live(l)' \subseteq Live(l) \union {r} /\ Out(l)' = Out(l)
    BY <2>1 DEF Live, Out, LoggedOut
  <2>4. ASSUME r \in Live(l)' PROVE r = l \/ r \in Going(l)
    BY <1>2, <2>4, NoSidAssumption, MakerInLine DEF Live
  <2>5. ASSUME r = l PROVE Going(l) = {} /\ Out(l) = {}
    <3>1. step[l] # "done"
      BY <1>2, <2>5 DEF UnderWay
    <3> QED
      BY <3>1, LineIsOld DEF Going, Out
  <2>6. CookieInv(l)'
    BY <2>1 DEF LineInv, CookieInv
  <2>7. LiveInv(l)'
    <3>1. ASSUME NEW t \in Going(l) PROVE Live(l)' \subseteq {sid[t], t}
      BY <2>1, <2>3, <2>4, <2>5, <3>1, OneGoing DEF LineInv, LiveInv
    <3> QED
      BY <1>2, <2>1, <2>2, <2>3, <3>1 DEF LineInv, LiveInv
  <2>8. OutInv(l)'
    <3>1. ASSUME NEW q \in Out(l) PROVE r \notin Live(l)'
      BY <1>2, <2>1, <2>4, <2>5, <3>1 DEF LineInv, OutInv, Out, LoggedOut
    <3> QED
      BY <1>1, <1>2, <2>1, <2>3, <3>1 DEF LineInv, OutInv, Out, LoggedOut
  <2> QED
    BY <2>6, <2>7, <2>8 DEF LineInv
<1> QED
  BY <1>1, <1>2, <1>3, InsideStep DEF CalmInv

(* A session starts: it gets its root, that of a login that is over or its *)
(* own.  Nobody knows it yet, so that no line changes.                     *)
LEMMA RootStep ==
  ASSUME IInv, CalmInv, NEW r \in UnderWay, step[r] # "answered",
         NEW l0 \in Requests, root' = [root EXCEPT ![r] = l0],
         step' = [step EXCEPT ![r] = "setUser"],
         \/ kind[r] = "login" /\ l0 = r
         \/ kind[r] = "renew" /\ sid[r] # NoSid /\ l0 = root[sid[r]],
         UNCHANGED <<keys, cookie, kind, sid, outcome, together>>
  PROVE  CalmInv'
<1>1. /\ r \in Requests /\ step[r] \notin {"idle", "done", "lost"}
      /\ step'[r] = "setUser" /\ \A q \in Requests \ {r} : step'[q] = step[q]
      /\ root'[r] = l0 /\ \A q \in Requests \ {r} : root'[q] = root[q]
  BY DEF IInv, TypeOK, UnderWay
<1>2. UnderWay' = UnderWay
  BY <1>1 DEF UnderWay
<1>3. /\ \A q \in Requests : sid[q] # NoSid => root'[sid[q]] = root[sid[q]] /\ sid[q] \in Requests
      /\ cookie # NoSid => root'[cookie] = root[cookie] /\ cookie \in Requests
  BY <1>1 DEF IInv, TypeOK, SidInv, KnownSid
<1>4. RootInv'
  <2>1. \A t \in Requests : step[t] = "done" => step'[t] = "done"
    BY <1>1
  <2>2. ASSUME NEW t \in Requests \ {r}, root'[t] # NoSid
        PROVE  /\ kind'[t] \in {"login", "renew"}
               /\ kind'[t] = "login" => root'[t] = t
               /\ kind'[t] = "renew" => sid'[t] # NoSid /\ root'[t] = root'[sid'[t]]
               /\ root'[t] # t => step'[root'[t]] = "done"
    <3>1. root'[t] = root[t] /\ root[t] \in Requests
      BY <1>1, <2>2 DEF IInv, TypeOK
    <3> QED
      BY <1>3, <2>1, <2>2, <3>1 DEF CalmInv, RootInv
  <2>3. CASE kind[r] = "login"
    BY <1>1, <2>2, <2>3 DEF CalmInv, RootInv
  <2>4. CASE kind[r] = "renew"
    <3>1. step[l0] = "done"
      BY <1>1, <1>3, <2>4, LoginIsOver DEF IInv, SidInv
    <3> QED
      BY <1>1, <1>3, <2>1, <2>2, <2>4, <3>1 DEF CalmInv, RootInv
  <2> QED
    BY <2>3, <2>4
<1>5. ASSUME NEW l \in Requests, Calm(l)' PROVE LineInv(l)'
  <2>1. Line(l)' = Line(l) /\ OnCookie(l)' = OnCookie(l)
    BY <1>3 DEF Line, OnCookie
  <2>2. Going(l)' = Going(l) /\ Out(l)' = Out(l)
    BY <1>2, <2>1 DEF Going, Out, LoggedOut
  <2>3. Calm(l) /\ LineInv(l)
    <3>1. \A t \in Line(l) : t \in Requests /\ (step[t] = "lost" => step'[t] = "lost")
      BY <1>1 DEF Line
    <3>2. Calm(l)
      BY <1>5, <2>1, <3>1 DEF Calm
    <3> QED
      BY <3>2 DEF CalmInv
  <2>4. Live(l)' \subseteq Live(l) \union (IF l = l0 THEN {r} ELSE {})
    BY <1>1 DEF Live
  <2>5. ASSUME l = l0 PROVE r \in Going(l) \/ (r = l /\ Going(l) = {} /\ Out(l) = {})
    <3>1. CASE kind[r] = "login"
      BY <1>1, <2>5, <3>1, LineIsOld DEF Going, Out
    <3>2. CASE kind[r] = "renew"
      BY <1>1, <2>5, <3>2 DEF Going, Line
    <3> QED
      BY <3>1, <3>2
  <2>6. CookieInv(l)'
    BY <2>1, <2>2, <2>3 DEF LineInv, CookieInv
  <2>7. LiveInv(l)'
    <3>1. ASSUME NEW t \in Going(l) PROVE Live(l)' \subseteq {sid[t], t}
      BY <2>3, <2>4, <2>5, <3>1, OneGoing DEF LineInv, LiveInv
    <3> QED
      BY <1>2, <2>1, <2>2, <2>3, <2>4, <3>1 DEF LineInv, LiveInv
  <2>8. OutInv(l)'
    <3>1. ASSUME NEW q \in Out(l) PROVE l # l0 /\ q # r
      BY <2>3, <2>5, <3>1 DEF LineInv, OutInv, Out, LoggedOut
    <3> QED
      BY <1>1, <2>1, <2>2, <2>3, <2>4, <3>1 DEF LineInv, OutInv, Out, LoggedOut
  <2> QED
    BY <2>6, <2>7, <2>8 DEF LineInv
<1> QED
  BY <1>4, <1>5 DEF CalmInv

LEMMA CalmLogin == ASSUME IInv, CalmInv, NEW r \in Requests, Login(r) PROVE CalmInv'
<1>1. /\ step[r] = "login" /\ step' = [step EXCEPT ![r] = "setUser"]
      /\ root' = [root EXCEPT ![r] = r]
      /\ UNCHANGED <<keys, cookie, kind, sid, outcome, together>>
  BY DEF Login
<1>2. kind[r] = "login" /\ r \in UnderWay
  BY <1>1 DEF IInv, StepInv, Kinds, UnderWay
<1> QED
  BY <1>1, <1>2, RootStep

LEMMA CalmRenew ==
  ASSUME IInv, CalmInv, NEW r \in Requests, Renew(r), ~failed[r]
  PROVE  CalmInv'
<1>1. /\ step[r] = "deleted" /\ kind[r] = "renew" /\ step' = [step EXCEPT ![r] = "setUser"]
      /\ root' = [root EXCEPT ![r] = root[sid[r]]]
      /\ UNCHANGED <<keys, cookie, kind, sid, outcome, together>>
  BY DEF Renew
<1>2. sid[r] # NoSid /\ sid[r] \in Requests /\ root[sid[r]] \in Requests
  BY <1>1, LoginIsOver DEF IInv, TypeOK, SidInv, StepInv, Deleting
<1>3. r \in UnderWay
  BY <1>1 DEF UnderWay
<1> QED
  BY <1>1, <1>2, <1>3, RootStep

(* A logout has deleted the session it came with, all of its login that    *)
(* was left.                                                               *)
LEMMA CalmLogout ==
  ASSUME IInv, CalmInv, NEW r \in Requests, LogoutDone(r), ~failed[r]
  PROVE  CalmInv'
<1>1. /\ step[r] = "deleted" /\ kind[r] = "logout" /\ step' = [step EXCEPT ![r] = "answered"]
      /\ outcome' = [outcome EXCEPT ![r] = "ok"]
      /\ UNCHANGED <<keys, cookie, kind, sid, root, together>>
  BY DEF LogoutDone
<1>2. /\ step'[r] = "answered" /\ \A q \in Requests \ {r} : step'[q] = step[q]
      /\ \A q \in Requests \ {r} : outcome'[q] = outcome[q]
  BY <1>1 DEF IInv, TypeOK
<1>3. r \in UnderWay
  BY <1>1 DEF UnderWay
<1>4. sid[r] # NoSid /\ <<sid[r], "user">> \notin keys /\ root[r] = NoSid
  BY <1>1 DEF IInv, StepInv, GoneInv, Gone, Fields, Deleting, CalmInv, RootInv
<1>5. UNCHANGED <<cookie, request, history>> /\ "answered" \in Steps \ {"idle", "done", "lost"}
  BY DEF LogoutDone, Steps
<1>6. ASSUME NEW l \in Requests, Calm(l)' PROVE LineInv(l)'
  <2>1. /\ LineInv(l) /\ Calm(l) /\ UnderWay' = UnderWay
        /\ Line(l)' = Line(l) /\ Going(l)' = Going(l) /\ OnCookie(l)' = OnCookie(l)
    BY <1>1, <1>3, <1>5, <1>6, InsideStep DEF CalmInv
  <2>2. Live(l)' = Live(l)
    BY <1>1 DEF Live
  <2>3. Out(l)' \subseteq Out(l) \union {r}
    BY <1>1, <1>2, <2>1 DEF Out, LoggedOut
  <2>4. ASSUME r \in Out(l)' PROVE Live(l) = {} /\ Going(l) \subseteq {r}
    <3>1. r \in Going(l)
      BY <1>3, <2>1, <2>4 DEF Out, Going
    <3>2. Live(l) \subseteq {sid[r], r}
      BY <2>1, <3>1 DEF LineInv, LiveInv
    <3>3. sid[r] \notin Live(l) /\ r \notin Live(l)
      BY <1>4, NoSidAssumption DEF Live
    <3> QED
      BY <2>1, <3>1, <3>2, <3>3, OneGoing
  <2>5. OutInv(l)'
    BY <1>2, <2>1, <2>2, <2>3, <2>4 DEF LineInv, OutInv, Out, LoggedOut
  <2>6. CookieInv(l)' /\ LiveInv(l)'
    BY <1>1, <2>1, <2>2 DEF LineInv, CookieInv, LiveInv
  <2> QED
    BY <2>5, <2>6 DEF LineInv
<1> QED
  BY <1>1, <1>3, <1>5, <1>6, InsideStep DEF CalmInv

(* An answer reaches the browser: its cookie moves along the line, starts  *)
(* that of another login, or goes.                                         *)
LEMMA CalmDeliver == ASSUME IInv, CalmInv, NEW r \in Requests, Deliver(r) PROVE CalmInv'
<1>1. /\ step[r] = "answered" /\ step' = [step EXCEPT ![r] = "done"]
      /\ cookie' = NewCookie(r)
      /\ UNCHANGED <<keys, kind, sid, outcome, root, together>>
  BY DEF Deliver
<1>2. /\ step'[r] = "done" /\ \A q \in Requests \ {r} : step'[q] = step[q]
  BY <1>1 DEF IInv, TypeOK
<1>3. UnderWay' = UnderWay \ {r} /\ r \in UnderWay
  BY <1>1, <1>2 DEF UnderWay
<1>4. RootInv'
  <2>1. \A t \in Requests : step[t] = "done" => step'[t] = "done"
    BY <1>1, <1>2
  <2>2. \A t \in Requests : root[t] # NoSid => root[t] \in Requests
    BY DEF IInv, TypeOK
  <2> QED
    BY <1>1, <1>2, <2>1, <2>2 DEF CalmInv, RootInv
<1>5. ASSUME NEW l \in Requests, Calm(l)' PROVE LineInv(l)'
  <2>1. Line(l)' = Line(l) /\ Live(l)' = Live(l) /\ Out(l)' = Out(l)
    BY <1>1 DEF Line, Live, Out, LoggedOut
  <2>2. Going(l)' = Going(l) \ {r}
    BY <1>3, <2>1 DEF Going
  <2>3. Calm(l) /\ LineInv(l)
    <3>1. \A t \in Line(l) : t \in Requests /\ (step[t] = "lost" => step'[t] = "lost")
      BY <1>1, <1>2 DEF Line
    <3>2. Calm(l)
      BY <1>1, <1>5, <2>1, <3>1 DEF Calm
    <3> QED
      BY <3>2 DEF CalmInv
  <2>4. CASE r \in Going(l)
    <3>1. Going(l)' = {}
      BY <2>2, <2>3, <2>4, OneGoing
    <3>2. sid[r] # NoSid /\ root[sid[r]] = l /\ Live(l) \subseteq {sid[r], r}
      BY <2>3, <2>4 DEF Going, Line, LineInv, LiveInv
    <3>3. CASE root[r] # NoSid
      <4>1. cookie' = r /\ kind[r] = "renew"
        BY <1>1, <3>2, <3>3, <2>4 DEF NewCookie, CalmInv, RootInv, Going
      <4>2. <<sid[r], "user">> \notin keys
        BY <3>3, <4>1 DEF IInv, GoneInv, Gone, Fields
      <4>3. Live(l) \subseteq {r} /\ r \notin Out(l)
        BY <3>2, <4>1, <4>2 DEF Live, Out, LoggedOut
      <4>4. Out(l) = {}
        BY <2>3, <2>4, <4>3 DEF LineInv, OutInv
      <4> QED
        BY <2>1, <3>1, <4>1, <4>3, <4>4 DEF LineInv, CookieInv, LiveInv, OutInv
    <3>4. CASE root[r] = NoSid
      <4>1. r \notin Live(l)
        BY <3>4, NoSidAssumption DEF Live
      <4>2. cookie' = cookie \/ cookie' = NoSid
        BY <1>1, <3>4 DEF NewCookie
      <4>3. OnCookie(l)' => OnCookie(l) /\ cookie' = sid[r] /\ r \notin Out(l)
        BY <1>1, <2>3, <2>4, <3>2, <3>4, <4>2 DEF OnCookie, LineInv, CookieInv, Out, LoggedOut, NewCookie
      <4>4. LiveInv(l)'
        BY <2>1, <3>1, <3>2, <4>1, <4>3 DEF LiveInv
      <4>5. OutInv(l)'
        BY <2>1, <2>3, <2>4, <3>1, <4>3 DEF LineInv, OutInv
      <4> QED
        BY <3>1, <4>4, <4>5 DEF LineInv, CookieInv
    <3> QED
      BY <3>3, <3>4
  <2>5. CASE r \notin Going(l)
    <3>1. Going(l)' = Going(l) /\ r \notin Line(l) /\ r \notin Out(l)
      BY <1>3, <2>2, <2>5 DEF Going, Out
    <3>2. CASE root[r] = l
      <4>1. r = l /\ cookie' = r
        BY <1>1, <1>3, <2>5, <3>2, NoSidAssumption, MakerInLine DEF NewCookie
      <4>2. Going(l) = {} /\ Out(l) = {}
        BY <1>1, <4>1, LineIsOld DEF Going, Out
      <4>3. Live(l) \subseteq {r}
        BY <1>1, <4>1, NoSidAssumption DEF Live, CalmInv, RootInv
      <4> QED
        BY <2>1, <3>1, <4>1, <4>2, <4>3 DEF LineInv, CookieInv, LiveInv, OutInv
    <3>3. CASE root[r] # l
      <4>1. OnCookie(l)' => OnCookie(l) /\ cookie' = cookie
        BY <1>1, <3>3 DEF OnCookie, NewCookie
      <4>2. CookieInv(l)'
        BY <1>1, <2>3, <3>1, <4>1 DEF LineInv, CookieInv
      <4>3. LiveInv(l)'
        <5>1. r \notin Live(l)
          BY <3>3 DEF Live
        <5> QED
          BY <1>1, <1>3, <2>1, <2>3, <3>1, <4>1, <5>1 DEF LineInv, LiveInv
      <4>4. OutInv(l)'
        BY <1>2, <2>1, <2>3, <3>1, <4>1 DEF LineInv, OutInv, Out, LoggedOut
      <4> QED
        BY <4>2, <4>3, <4>4 DEF LineInv
    <3> QED
      BY <3>2, <3>3
  <2> QED
    BY <2>4, <2>5
<1> QED
  BY <1>4, <1>5 DEF CalmInv

(* A line that does not get an answer is not calm; the others lose nothing.*)
LEMMA CalmNoAnswer == ASSUME IInv, CalmInv, NEW r \in Requests, NoAnswer(r) PROVE CalmInv'
<1>1. /\ r \in UnderWay /\ step[r] \notin {"idle", "done", "lost"}
      /\ step' = [step EXCEPT ![r] = "lost"]
      /\ UNCHANGED <<keys, cookie, kind, sid, outcome, root, together>>
  BY DEF NoAnswer, UnderWay
<1>2. step'[r] = "lost" /\ \A q \in Requests \ {r} : step'[q] = step[q]
  BY <1>1 DEF IInv, TypeOK
<1>3. UnderWay' = UnderWay \ {r}
  BY <1>2 DEF UnderWay
<1>4. RootInv'
  <2>1. \A t \in Requests : step[t] = "done" => step'[t] = "done"
    BY <1>1, <1>2
  <2>2. \A t \in Requests : root[t] # NoSid => root[t] \in Requests
    BY DEF IInv, TypeOK
  <2> QED
    BY <1>1, <1>2, <2>1, <2>2 DEF CalmInv, RootInv
<1>5. ASSUME NEW l \in Requests, Calm(l)' PROVE LineInv(l)'
  <2>1. /\ Line(l)' = Line(l) /\ Live(l)' = Live(l) /\ Out(l)' = Out(l)
        /\ OnCookie(l)' = OnCookie(l)
    BY <1>1 DEF Line, Live, Out, LoggedOut, OnCookie
  <2>2. r \notin Line(l)
    BY <1>2, <1>5, <2>1 DEF Calm
  <2>3. Calm(l) /\ LineInv(l)
    <3>1. \A t \in Line(l) : t \in Requests /\ (step[t] = "lost" => step'[t] = "lost")
      BY <1>1, <1>2 DEF Line
    <3>2. Calm(l)
      BY <1>1, <1>5, <2>1, <3>1 DEF Calm
    <3> QED
      BY <3>2 DEF CalmInv
  <2>4. Going(l)' = Going(l)
    BY <1>3, <2>1, <2>2 DEF Going
  <2>5. CookieInv(l)'
    BY <1>1, <2>1, <2>3, <2>4 DEF LineInv, CookieInv
  <2>6. LiveInv(l)'
    <3>1. OnCookie(l) => r \notin Live(l)
      BY <1>1, <2>2, NoSidAssumption, MakerInLine, LineIsOld DEF Live, Going
    <3> QED
      BY <1>1, <1>3, <2>1, <2>3, <2>4, <3>1 DEF LineInv, LiveInv
  <2>7. OutInv(l)'
    BY <1>2, <2>1, <2>2, <2>3, <2>4 DEF LineInv, OutInv, Out, LoggedOut
  <2> QED
    BY <2>5, <2>6, <2>7 DEF LineInv
<1> QED
  BY <1>4, <1>5 DEF CalmInv

(* A calm line sends a request when no other of it is under way, with the  *)
(* cookie it has.                                                          *)
LEMMA CalmSend ==
  ASSUME IInv, CalmInv, NEW r \in Requests, NEW k \in Kinds, NEW address, Send(r, k, address)
  PROVE  CalmInv'
<1>1. /\ step[r] = "idle" /\ step' = [step EXCEPT ![r] = k]
      /\ kind' = [kind EXCEPT ![r] = k]
      /\ sid' = [sid EXCEPT ![r] = IF k = "login" THEN NoSid ELSE cookie]
      /\ together' = together \union {{r, q} : q \in UnderWay}
      /\ UNCHANGED <<keys, cookie, outcome, root>>
  BY DEF Send
<1>2. /\ step'[r] = k /\ k \notin {"idle", "done", "lost", "answered"}
      /\ sid'[r] \in {NoSid, cookie}
      /\ \A q \in Requests \ {r} : step'[q] = step[q] /\ kind'[q] = kind[q] /\ sid'[q] = sid[q]
  BY <1>1 DEF IInv, TypeOK, Kinds
<1>3. outcome[r] = "none" /\ root[r] = NoSid /\ sid[r] = NoSid
  BY <1>1 DEF IInv, StepInv, CalmInv, RootInv
<1>4. UnderWay' = UnderWay \union {r}
  BY <1>2 DEF UnderWay
<1>5. RootInv'
  <2>1. \A t \in Requests : step[t] = "done" => step'[t] = "done"
    BY <1>1, <1>2
  <2>2. \A t \in Requests : root[t] # NoSid => root[t] \in Requests /\ t # r
    BY <1>3 DEF IInv, TypeOK
  <2>3. \A t \in Requests : step'[t] = "idle" \/ kind'[t] = "login" => sid'[t] = NoSid
    BY <1>1, <1>2 DEF CalmInv, RootInv, IInv, TypeOK
  <2> QED
    BY <1>1, <1>2, <2>1, <2>2, <2>3 DEF CalmInv, RootInv
<1>6. ASSUME NEW l \in Requests, Calm(l)' PROVE LineInv(l)'
  <2>1. /\ Live(l)' = Live(l) /\ OnCookie(l)' = OnCookie(l)
        /\ r \notin Line(l) /\ r \notin Live(l)
    BY <1>1, <1>3, NoSidAssumption DEF Live, OnCookie, Line
  <2>2. /\ Line(l)' = IF r \in Line(l)' THEN Line(l) \union {r} ELSE Line(l)
        /\ r \in Line(l)' => OnCookie(l) /\ sid'[r] = cookie
    BY <1>1, <1>2, <2>1 DEF Line, OnCookie
  <2>3. Calm(l) /\ LineInv(l)
    <3>1. \A t \in Line(l) : t \in Line(l)' /\ step'[t] = step[t]
      BY <1>2, <2>1, <2>2 DEF Line
    <3>2. together \subseteq together'
      BY <1>1
    <3> QED
      BY <1>6, <3>1, <3>2 DEF Calm, CalmInv
  <2>4. Out(l)' = Out(l) /\ r \notin Out(l)
    BY <1>1, <1>2, <1>3, <2>1, <2>2 DEF Out, LoggedOut
  <2>5. Going(l)' = IF r \in Line(l)' THEN Going(l) \union {r} ELSE Going(l)
    BY <1>4, <2>1, <2>2 DEF Going
  <2>6. ASSUME r \in Line(l)' PROVE Going(l) = {}
    <3>1. ASSUME NEW t \in Going(l) PROVE FALSE
      <4>1. t \in Line(l)' /\ {r, t} \in together'
        BY <1>1, <2>2, <3>1 DEF Going
      <4> QED
        BY <1>6, <2>6, <4>1 DEF Calm
    <3> QED
      BY <3>1
  <2>7. CookieInv(l)'
    BY <1>1, <1>2, <2>1, <2>2, <2>3, <2>5, <2>6 DEF LineInv, CookieInv, Going, UnderWay, Line
  <2>8. LiveInv(l)'
    <3>1. CASE r \in Line(l)'
      <4>1. OnCookie(l) /\ sid'[r] = cookie /\ Going(l)' = {r} /\ Going(l) = {}
        BY <2>2, <2>5, <2>6, <3>1
      <4>2. Live(l) \subseteq {cookie}
        <5>1. ASSUME NEW s \in Live(l), s \in UnderWay PROVE FALSE
          BY <4>1, <5>1, NoSidAssumption, MakerInLine, LineIsOld DEF Live, UnderWay
        <5> QED
          BY <2>3, <4>1, <5>1 DEF LineInv, LiveInv
      <4> QED
        BY <1>1, <2>1, <4>1, <4>2 DEF LiveInv
    <3>2. CASE r \notin Line(l)'
      <4>1. Going(l)' = Going(l) /\ \A t \in Going(l) : sid'[t] = sid[t]
        BY <1>2, <2>1, <2>5, <3>2 DEF Going, Line
      <4> QED
        BY <1>1, <1>4, <2>1, <2>3, <4>1 DEF LineInv, LiveInv
    <3> QED
      BY <3>1, <3>2
  <2>9. OutInv(l)'
    <3> SUFFICES ASSUME NEW q \in Out(l)
                 PROVE  Live(l) = {} /\ Going(l)' \subseteq {q} /\ (OnCookie(l) => step'[q] = "answered")
      BY <2>1, <2>4 DEF OutInv
    <3>1. q \in Line(l) /\ q # r /\ q \in Requests /\ step'[q] = step[q]
      BY <1>2, <2>1 DEF Out, Line
    <3>2. /\ Live(l) = {} /\ Going(l) \subseteq {q}
          /\ OnCookie(l) => step[q] = "answered"
      BY <2>3 DEF LineInv, OutInv
    <3>3. r \notin Line(l)'
      <4>1. step[q] = "answered" => q \in Going(l)
        BY <3>1 DEF Going, UnderWay
      <4> QED
        BY <2>2, <2>6, <3>2, <4>1
    <3> QED
      BY <2>5, <3>1, <3>2, <3>3
  <2> QED
    BY <2>7, <2>8, <2>9 DEF LineInv
<1> QED
  BY <1>5, <1>6 DEF CalmInv

(* The steps that make no session and end none.                            *)
LEMMA CalmQuiet ==
  ASSUME IInv, CalmInv, NEW r \in Requests,
         \/ SetDone(r) \/ GetUsername(r) \/ GetAgent(r) \/ GetIP(r) \/ ReadFails(r)
         \/ DelUser(r) \/ DelAgent(r) \/ DelIP(r) \/ Logout(r)
         \/ failed[r] /\ (Renew(r) \/ LogoutDone(r))
  PROVE  CalmInv'
<1>1. step[r] \in {"set", "renew", "getAgent", "getIP", "login", "delUser", "delAgent", "delIP",
                   "logout", "deleted"}
  BY DEF SetDone, GetUsername, GetAgent, GetIP, ReadFails, DelUser, DelAgent, DelIP, Del, Logout,
         Renew, LogoutDone
<1>2. r \in UnderWay /\ step[r] # "answered"
  BY <1>1 DEF UnderWay
<1>3. keys' \subseteq keys /\ UNCHANGED <<cookie, request, history>>
  BY DEF SetDone, GetUsername, GetAgent, GetIP, ReadFails, DelUser, DelAgent, DelIP, Del, Logout,
         Renew, LogoutDone
<1>4. \E to \in {"answered", "getAgent", "getIP", "delUser", "delAgent", "delIP", "deleted"} :
         step' = [step EXCEPT ![r] = to]
  BY DEF SetDone, GetUsername, GetAgent, GetIP, ReadFails, DelUser, DelAgent, DelIP, Del, Logout,
         Renew, LogoutDone
<1>5. UNCHANGED outcome \/ \E how \in {"ok", "error", "refused"} : outcome' = [outcome EXCEPT ![r] = how]
  BY DEF SetDone, GetUsername, GetAgent, GetIP, ReadFails, DelUser, DelAgent, DelIP, Del, Logout,
         Renew, LogoutDone
<1>6. \/ outcome'[r] = outcome[r]
      \/ outcome'[r] # "ok"
      \/ kind[r] # "logout"
      \/ sid[r] = NoSid
  <2>1. step[r] = "set" => kind[r] # "logout"
    BY DEF IInv, StepInv, Setting
  <2> QED
    BY <2>1 DEF IInv, TypeOK, SetDone, GetUsername, GetAgent, GetIP, ReadFails, DelUser, DelAgent,
       DelIP, Del, Logout, Renew, LogoutDone
<1>7. \A q \in Requests \ {r} : outcome'[q] = outcome[q]
  BY <1>5 DEF IInv, TypeOK
<1>8. PICK to \in Steps \ {"idle", "done", "lost"} : step' = [step EXCEPT ![r] = to]
  BY <1>4 DEF Steps
<1> QED
  BY <1>2, <1>3, <1>6, <1>7, <1>8, QuietStep

(* Every step preserves what is known of the lines.                        *)
LEMMA NextCalm == IInv /\ CalmInv /\ [Next]_vars => CalmInv'
<1> SUFFICES ASSUME IInv, CalmInv, [Next]_vars PROVE CalmInv'
  OBVIOUS
<1>1. CASE UNCHANGED vars
  <2>1. RootInv'
    BY <1>1 DEF CalmInv, RootInv
  <2>2. ASSUME NEW l \in Requests
        PROVE  (Calm(l)' <=> Calm(l)) /\ (LineInv(l)' <=> LineInv(l))
    BY <1>1 DEF Calm, Line, LineInv, CookieInv, LiveInv, OutInv, OnCookie, Going, UnderWay, Live,
                Out, LoggedOut
  <2> QED
    BY <2>1, <2>2 DEF CalmInv
<1>2. ASSUME NEW r \in Requests, NEW k \in Kinds, NEW address \in Addresses, Send(r, k, address)
      PROVE  CalmInv'
  BY <1>2, CalmSend
<1>3. ASSUME NEW r \in Requests, SetUser(r) \/ SetAgent(r) \/ SetIP(r) PROVE CalmInv'
  <2>1. \E here, to \in Setting, field \in Fields :
          /\ step[r] = here /\ step' = [step EXCEPT ![r] = to]
          /\ keys' \subseteq keys \union {<<r, field>>}
          /\ UNCHANGED <<cookie, request, outcome, history>>
    BY <1>3 DEF SetUser, SetAgent, SetIP, Set, Setting, Fields
  <2> QED
    BY <2>1, SetStep
<1>4. ASSUME NEW r \in Requests, Renew(r) \/ LogoutDone(r) PROVE CalmInv'
  BY <1>4, CalmRenew, CalmLogout, CalmQuiet
<1>5. ASSUME NEW r \in Requests,
             \/ SetDone(r) \/ GetUsername(r) \/ GetAgent(r) \/ GetIP(r) \/ ReadFails(r)
             \/ DelUser(r) \/ DelAgent(r) \/ DelIP(r) \/ Logout(r)
      PROVE  CalmInv'
  BY <1>5, CalmQuiet
<1>6. ASSUME NEW r \in Requests, Login(r) \/ Deliver(r) \/ NoAnswer(r) PROVE CalmInv'
  BY <1>6, CalmLogin, CalmDeliver, CalmNoAnswer
<1> QED
  BY <1>1, <1>2, <1>3, <1>4, <1>5, <1>6 DEF Next, Handle

(* A login whose requests do not overlap and get their answers is ended by *)
(* its logout (logoutUser), whatever calls of Redis failed, and whatever   *)
(* other logins of the browser are going on.                               *)
THEOREM CalmLogouts == Spec => []CalmLogoutRevokes
<1>1. Init => CalmInv
  BY DEF Init, CalmInv, RootInv, LineInv, CookieInv, LiveInv, OutInv, OnCookie, Going, UnderWay,
         Live, Out, LoggedOut
<1>2. IInv /\ CalmInv => CalmLogoutRevokes
  <2> SUFFICES ASSUME IInv, CalmInv, NEW q \in LoggedOut, Calm(root[sid[q]])
               PROVE  Alive(q) = {}
    BY DEF CalmLogoutRevokes
  <2> DEFINE l == root[sid[q]]
  <2>1. q \in Requests /\ sid[q] \in Requests /\ sid[q] # NoSid /\ KnownSid(sid[q])
    BY DEF LoggedOut, IInv, TypeOK, SidInv
  <2>2. l \in Requests /\ q \in Out(l)
    BY <2>1, LoginIsOver DEF Out, Line
  <2> QED
    BY <2>2 DEF CalmInv, LineInv, OutInv, Live, Alive
<1> QED
  BY <1>1, <1>2, NextCalm, Invariance, PTL DEF Spec
=============================================================================
