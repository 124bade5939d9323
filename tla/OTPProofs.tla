----------------------------- MODULE OTPProofs ------------------------------
(***************************************************************************)
(* Proofs about OTP, for any tasks, requests, number of retries, duration  *)
(* and bound of the clock.                                                 *)
(***************************************************************************)
EXTENDS OTP, TLAPS

(* The secrets whose SET is over, one way or the other.                    *)
Known ==
  {s \in Secrets : \/ s[2] < run[s[1]]
                   \/ s[2] = run[s[1]] /\ stage[s[1]] \in {"mail", "done", "archived"}}

(* No other secret is anywhere.                                            *)
KnownInv ==
  /\ key \in Known \union {NoSecret}
  /\ spent \subseteq Known
  /\ lost \subseteq Known
  /\ \A p \in Posts : got[p] \in Known \union {NoSecret}
  /\ \A p \in Posts : step[p] \in {"verify", "handler"} => got[p] \in Known
  /\ \A c \in mails : c.secret \in Known

(* Nothing has been made later than now.                                   *)
MadeInv ==
  /\ \A t \in Tasks : made[t] <= now
  /\ \A c \in mails : c \in [secret : Secrets, at : 0 .. MaxTime] /\ c.at <= now
  /\ \A p \in Posts : code[p].at <= now

(* A secret that was stored at some time, with a code made at time at or   *)
(* before: it is stored for as long as the code lasts, or somebody removed *)
(* it, or the code has expired.                                            *)
Lasts(s, at) ==
  \/ s \in lost
  \/ s = key /\ until >= at + Duration
  \/ now >= at + Duration

LastInv ==
  /\ \A t \in Tasks : stage[t] = "mail" => Lasts(SecretOf(t), made[t])
  /\ \A c \in mails : Lasts(c.secret, c.at)

IInv ==
  /\ TypeOK
  /\ KnownInv
  /\ MadeInv
  /\ LastInv
  /\ SpentStaysSpent

-----------------------------------------------------------------------------
(* Two moments of one interval are less than Duration apart.               *)
LEMMA SameInterval ==
  ASSUME NEW a \in Nat, NEW b \in Nat, Interval(a) = Interval(b)
  PROVE  b < a + Duration
<1>1. Duration \in Nat /\ Duration > 0
  BY DurationAssumption
<1> QED
  BY <1>1 DEF Interval

-----------------------------------------------------------------------------
(* What is known stays known: runs go on, and never back to their SET.     *)
LEMMA KnownSecrets ==
  ASSUME NEW s \in Secrets
  PROVE  /\ s[1] \in Tasks /\ s[2] \in 0 .. MaxRetry
         /\ s # NoSecret
BY NoSecretAssumption DEF Secrets

LEMMA SecretOfFacts ==
  ASSUME TypeOK, NEW t \in Tasks
  PROVE  /\ SecretOf(t) \in Secrets
         /\ SecretOf(t)[1] = t /\ SecretOf(t)[2] = run[t]
         /\ SecretOf(t) # NoSecret
BY NoSecretAssumption DEF TypeOK, SecretOf, Secrets

(* A secret whose mail is next has been stored; one whose SET is next has  *)
(* not.                                                                    *)
LEMMA StageKnown ==
  ASSUME TypeOK, NEW t \in Tasks
  PROVE  /\ stage[t] = "mail" => SecretOf(t) \in Known
         /\ stage[t] \in {"none", "queued", "store"} => SecretOf(t) \notin Known
<1> USE SecretOfFacts DEF TypeOK, Known
<1>1. run[t] \in Int
  BY RetryAssumption
<1> QED
  BY <1>1

LEMMA KnownStays ==
  ASSUME TypeOK, NEW t \in Tasks,
         \A u \in Tasks \ {t} : stage'[u] = stage[u] /\ run'[u] = run[u],
         \/ run'[t] = run[t] /\ (stage[t] \in {"mail", "done", "archived"}
                                   => stage'[t] \in {"mail", "done", "archived"})
         \/ run'[t] = run[t] + 1
  PROVE  Known \subseteq Known'
<1> SUFFICES ASSUME NEW s \in Known PROVE s \in Known'
  OBVIOUS
<1>1. s \in Secrets /\ s[1] \in Tasks /\ s[2] \in Int
  BY KnownSecrets, RetryAssumption DEF Known
<1>2. run[t] \in Int
  BY RetryAssumption DEF TypeOK
<1>3. CASE s[1] = t
  BY <1>1, <1>2, <1>3 DEF Known
<1>4. CASE s[1] # t
  BY <1>1, <1>4 DEF Known
<1> QED
  BY <1>3, <1>4

-----------------------------------------------------------------------------
(* What a step does to the task it is about.                               *)
LEMMA RetryFacts ==
  ASSUME TypeOK, NEW t \in Tasks, Retry(t)
  PROVE  /\ stage' \in [Tasks -> Stages]
         /\ run' \in [Tasks -> 0 .. MaxRetry]
         /\ made' \in [Tasks -> 0 .. MaxTime]
         /\ \A u \in Tasks \ {t} : stage'[u] = stage[u] /\ run'[u] = run[u] /\ made'[u] = made[u]
         /\ made'[t] = 0
         /\ stage'[t] \in {"queued", "archived"}
         /\ \/ run'[t] = run[t] /\ stage'[t] = "archived"
            \/ run'[t] = run[t] + 1
BY RetryAssumption, MaxTimeAssumption DEF TypeOK, Retry, Stages

(* A step of a task that stores nothing: mails, if it sends one, the code  *)
(* of its run.                                                             *)
LEMMA TaskStep ==
  ASSUME IInv, NEW t \in Tasks,
         UNCHANGED <<now, redis, posts, spent>>,
         \/ UNCHANGED mails
         \/ stage[t] = "mail" /\ mails' = mails \union {CodeOf(t)},
         stage' \in [Tasks -> Stages],
         run' \in [Tasks -> 0 .. MaxRetry],
         made' \in [Tasks -> 0 .. MaxTime],
         \A u \in Tasks \ {t} : stage'[u] = stage[u] /\ run'[u] = run[u] /\ made'[u] = made[u],
         made'[t] <= now, stage'[t] # "mail",
         \/ run'[t] = run[t] /\ (stage[t] \in {"mail", "done", "archived"}
                                   => stage'[t] \in {"mail", "done", "archived"})
         \/ run'[t] = run[t] + 1
  PROVE  IInv'
<1>1. CodeOf(t) = [secret |-> SecretOf(t), at |-> made[t]]
  BY DEF CodeOf, Code
<1>2. \A c \in mails' : c \in mails \/ (stage[t] = "mail" /\ c = CodeOf(t))
  OBVIOUS
<1>3. TypeOK'
  <2>1. CodeOf(t) \in Codes
    BY <1>1, SecretOfFacts DEF IInv, TypeOK, Codes
  <2> QED
    BY <2>1 DEF IInv, TypeOK, redis, posts
<1>4. Known \subseteq Known'
  BY KnownStays DEF IInv
<1>5. KnownInv'
  <2>1. stage[t] = "mail" => CodeOf(t).secret \in Known
    BY <1>1, StageKnown DEF IInv
  <2> QED
    BY <1>2, <1>4, <2>1 DEF IInv, KnownInv, redis, posts
<1>6. MadeInv'
  <2>1. CodeOf(t) \in [secret : Secrets, at : 0 .. MaxTime] /\ CodeOf(t).at <= now
    BY <1>1, SecretOfFacts DEF IInv, TypeOK, MadeInv
  <2>2. \A u \in Tasks : made'[u] <= now
    BY DEF IInv, MadeInv
  <2> QED
    BY <1>2, <2>1, <2>2 DEF IInv, MadeInv, redis, posts
<1>7. LastInv'
  <2>1. \A s, at : Lasts(s, at) => Lasts(s, at)'
    BY DEF Lasts, redis
  <2>2. ASSUME NEW u \in Tasks, stage'[u] = "mail" PROVE Lasts(SecretOf(u), made[u])'
    BY <2>1, <2>2 DEF IInv, LastInv, SecretOf, Lasts, redis
  <2>3. ASSUME NEW c \in mails' PROVE Lasts(c.secret, c.at)
    BY <1>1, <1>2 DEF IInv, LastInv
  <2> QED
    BY <2>2, <2>3 DEF LastInv, Lasts, redis
<1>8. SpentStaysSpent'
  BY DEF IInv, SpentStaysSpent, redis
<1> QED
  BY <1>3, <1>5, <1>6, <1>7, <1>8 DEF IInv

(* The SET.                                                                *)
LEMMA StoreSecretStep == ASSUME IInv, NEW t \in Tasks, StoreSecret(t) PROVE IInv'
<1> USE DEF StoreSecret, MoveOn
<1>0. /\ now \in Nat /\ now <= MaxTime /\ MaxTime \in Nat /\ Duration \in Nat
      /\ \A u \in Tasks : made[u] \in Nat
  BY MaxTimeAssumption, DurationAssumption DEF IInv, TypeOK
<1>1. TypeOK'
  <2>1. SecretOf(t) \in Secrets /\ Stored \subseteq Secrets
    BY SecretOfFacts DEF IInv, TypeOK, Stored
  <2>2. until' \in 0 .. MaxTime + Duration
    BY <1>0
  <2>3. stage' \in [Tasks -> Stages]
    BY DEF IInv, TypeOK, Stages
  <2> QED
    BY <2>1, <2>2, <2>3 DEF IInv, TypeOK, posts
<1>2. /\ \A u \in Tasks \ {t} : stage'[u] = stage[u] /\ run'[u] = run[u]
      /\ run' = run /\ stage'[t] = "mail"
  BY DEF IInv, TypeOK
<1>3. Known \subseteq Known' /\ SecretOf(t) \in Known' /\ SecretOf(t) \notin Known
  <2>1. Known \subseteq Known'
    BY <1>2, KnownStays DEF IInv
  <2>2. SecretOf(t) \in Known'
    BY <1>2, SecretOfFacts DEF IInv, Known
  <2> QED
    BY <2>1, <2>2, StageKnown DEF IInv
<1>4. KnownInv'
  BY <1>3 DEF IInv, KnownInv, Stored, posts
<1>5. MadeInv'
  BY DEF IInv, MadeInv, posts
<1>6. LastInv'
  <2>1. ASSUME NEW s \in Known, NEW at, Lasts(s, at) PROVE Lasts(s, at)'
    <3>1. s # NoSecret
      BY KnownSecrets DEF Known
    <3> QED
      BY <2>1, <3>1 DEF Lasts, Stored
  <2>2. \A u \in Tasks : SecretOf(u)' = SecretOf(u)
    BY DEF SecretOf
  <2>3. Lasts(SecretOf(t), made[t])'
    BY <1>0, <2>2 DEF IInv, MadeInv, Lasts
  <2>4. ASSUME NEW u \in Tasks \ {t}, stage'[u] = "mail" PROVE Lasts(SecretOf(u), made[u])'
    <3>1. SecretOf(u) \in Known /\ Lasts(SecretOf(u), made[u])
      BY <1>2, <2>4, StageKnown DEF IInv, LastInv
    <3>2. Lasts(<<u, run[u]>>, made[u])'
      BY <2>1, <3>1 DEF SecretOf, Lasts
    <3> QED
      BY <3>2 DEF SecretOf
  <2>5. ASSUME NEW c \in mails PROVE Lasts(c.secret, c.at)'
    BY <2>1 DEF IInv, LastInv, KnownInv
  <2> QED
    BY <2>3, <2>4, <2>5 DEF LastInv
<1>7. SpentStaysSpent'
  BY <1>3 DEF IInv, KnownInv, SpentStaysSpent
<1> QED
  BY <1>1, <1>4, <1>5, <1>6, <1>7 DEF IInv

-----------------------------------------------------------------------------
(* The steps of a request other than its DEL: what it holds was read from  *)
(* Redis while it was there.                                               *)
LEMMA PostStep ==
  ASSUME IInv, UNCHANGED <<now, redis, tasks, mails, spent>>,
         step' \in [Posts -> Steps],
         code' \in [Posts -> Codes],
         \A p \in Posts : code'[p].at <= now,
         got' \in [Posts -> Known \union {NoSecret}],
         \A p \in Posts : step'[p] \in {"verify", "handler"} => got'[p] \in Known
  PROVE  IInv'
<1>1. Known' = Known
  BY DEF Known, tasks
<1>2. TypeOK'
  BY DEF IInv, TypeOK, Known, redis, tasks
<1>3. KnownInv'
  BY <1>1 DEF IInv, KnownInv, redis
<1>4. MadeInv'
  BY DEF IInv, MadeInv, tasks
<1>5. LastInv'
  BY DEF IInv, LastInv, Lasts, SecretOf, redis, tasks
<1>6. SpentStaysSpent'
  BY DEF IInv, SpentStaysSpent, redis
<1> QED
  BY <1>2, <1>3, <1>4, <1>5, <1>6 DEF IInv

LEMMA WrongFacts == Wrong \in Codes /\ Wrong.at = 0
BY DEF Wrong, Code, Codes

(* The end of a request.                                                   *)
LEMMA LeaveFacts ==
  ASSUME IInv, NEW p \in Posts, NEW s \in Steps \ {"verify", "handler"}, Leave(p, s)
  PROVE  /\ step' \in [Posts -> Steps]
         /\ code' \in [Posts -> Codes]
         /\ \A q \in Posts : code'[q].at <= now
         /\ got' \in [Posts -> Known \union {NoSecret}]
         /\ \A q \in Posts : step'[q] \in {"verify", "handler"} => got'[q] \in Known
<1>1. now \in Nat
  BY DEF IInv, TypeOK
<1>2. /\ step' = [step EXCEPT ![p] = s]
      /\ code' = [code EXCEPT ![p] = Wrong]
      /\ got' = [got EXCEPT ![p] = NoSecret]
  BY DEF Leave, To
<1>3. /\ step \in [Posts -> Steps] /\ code \in [Posts -> Codes]
      /\ got \in [Posts -> Secrets \union {NoSecret}]
  BY DEF IInv, TypeOK
<1>4. \A q \in Posts : /\ step'[q] = IF q = p THEN s ELSE step[q]
                       /\ code'[q] = IF q = p THEN Wrong ELSE code[q]
                       /\ got'[q] = IF q = p THEN NoSecret ELSE got[q]
  BY <1>2, <1>3
<1>5. step' \in [Posts -> Steps] /\ code' \in [Posts -> Codes]
  BY <1>2, <1>3, WrongFacts
<1>6. \A q \in Posts : code'[q].at <= now
  BY <1>1, <1>4, WrongFacts DEF IInv, MadeInv
<1>7. got' \in [Posts -> Known \union {NoSecret}]
  BY <1>2, <1>3 DEF IInv, KnownInv
<1>8. \A q \in Posts : step'[q] \in {"verify", "handler"} => got'[q] \in Known
  BY <1>4 DEF IInv, KnownInv
<1> QED
  BY <1>5, <1>6, <1>7, <1>8

(* The GET of the middleware.                                              *)
LEMMA GetStep ==
  ASSUME IInv, NEW p \in Posts, NEW c \in mails \union {Wrong}, Get(p, c)
  PROVE  IInv'
<1>1. /\ step' = [step EXCEPT ![p] = "verify"]
      /\ code' = [code EXCEPT ![p] = c]
      /\ got' = [got EXCEPT ![p] = key]
      /\ key # NoSecret
      /\ UNCHANGED <<now, redis, tasks, mails, spent>>
  BY DEF Get, To
<1>2. /\ step \in [Posts -> Steps] /\ code \in [Posts -> Codes] /\ now \in Nat
      /\ got \in [Posts -> Secrets \union {NoSecret}]
  BY DEF IInv, TypeOK
<1>3. c \in Codes /\ c.at <= now
  BY <1>2, WrongFacts DEF IInv, MadeInv, TypeOK
<1>4. key \in Known
  BY <1>1 DEF IInv, KnownInv
<1>5. step' \in [Posts -> Steps] /\ code' \in [Posts -> Codes]
  BY <1>1, <1>2, <1>3 DEF Steps
<1>6. \A q \in Posts : code'[q].at <= now
  BY <1>1, <1>2, <1>3 DEF IInv, MadeInv
<1>7. got' \in [Posts -> Known \union {NoSecret}]
  BY <1>1, <1>2, <1>4 DEF IInv, KnownInv
<1>8. \A q \in Posts : step'[q] \in {"verify", "handler"} => got'[q] \in Known
  BY <1>1, <1>2, <1>4 DEF IInv, KnownInv
<1> QED
  BY <1>1, <1>5, <1>6, <1>7, <1>8, PostStep

(* The DEL, of whatever is stored by then.                                 *)
LEMMA DelStep == ASSUME IInv, NEW p \in Posts, Del(p) PROVE IInv'
<1>1. /\ step[p] = "handler" /\ Leave(p, "done")
      /\ key' = NoSecret /\ until' = 0
      /\ lost' = lost \union Stored /\ spent' = spent \union {got[p]}
      /\ UNCHANGED <<now, tasks, mails>>
  BY DEF Del
<1>2. /\ step' \in [Posts -> Steps]
      /\ code' \in [Posts -> Codes]
      /\ \A q \in Posts : code'[q].at <= now
      /\ got' \in [Posts -> Known \union {NoSecret}]
      /\ \A q \in Posts : step'[q] \in {"verify", "handler"} => got'[q] \in Known
  BY <1>1, LeaveFacts DEF Steps
<1>3. Known' = Known
  BY <1>1 DEF Known, tasks
<1>4. got[p] \in Known /\ Stored \subseteq Known
  BY <1>1 DEF IInv, KnownInv, Stored
<1>5. TypeOK'
  <2>1. 0 \in 0 .. MaxTime + Duration
    BY MaxTimeAssumption, DurationAssumption
  <2> QED
    BY <1>1, <1>2, <1>4, <2>1 DEF IInv, TypeOK, Known, tasks
<1>6. KnownInv'
  BY <1>1, <1>2, <1>3, <1>4 DEF IInv, KnownInv
<1>7. MadeInv'
  BY <1>1, <1>2 DEF IInv, MadeInv, tasks
<1>8. LastInv'
  <2>1. ASSUME NEW s \in Known, NEW at, Lasts(s, at) PROVE Lasts(s, at)'
    <3>1. s # NoSecret
      BY KnownSecrets DEF Known
    <3> QED
      BY <1>1, <2>1, <3>1 DEF Lasts, Stored
  <2>2. ASSUME NEW u \in Tasks, stage'[u] = "mail" PROVE Lasts(SecretOf(u), made[u])'
    <3>1. SecretOf(u) \in Known /\ Lasts(SecretOf(u), made[u])
      BY <1>1, <2>2, StageKnown DEF IInv, LastInv, tasks
    <3> QED
      BY <1>1, <2>1, <3>1 DEF SecretOf, Lasts, tasks
  <2>3. ASSUME NEW c \in mails PROVE Lasts(c.secret, c.at)'
    BY <2>1 DEF IInv, LastInv, KnownInv
  <2> QED
    BY <1>1, <2>2, <2>3 DEF LastInv
<1>9. SpentStaysSpent'
  <2>1. NoSecret \notin Known
    BY KnownSecrets DEF Known
  <2> QED
    BY <1>1, <1>4, <2>1 DEF IInv, KnownInv, SpentStaysSpent
<1> QED
  BY <1>5, <1>6, <1>7, <1>8, <1>9 DEF IInv

(* Time passes; a key that is dropped has lasted.                          *)
LEMMA TickStep == ASSUME IInv, Tick PROVE IInv'
<1>0. /\ now \in Nat /\ until \in Nat /\ MaxTime \in Nat /\ Duration \in Nat
      /\ \A t \in Tasks : made[t] \in Nat
      /\ \A c \in mails : c.at \in Nat
      /\ \A p \in Posts : code[p].at \in Nat
  <2>1. \A c \in Codes : c.at \in Nat
    BY WrongFacts DEF Codes
  <2> QED
    BY <2>1, MaxTimeAssumption, DurationAssumption DEF IInv, TypeOK
<1>1. /\ now < MaxTime /\ now' = now + 1
      /\ \/ key # NoSecret /\ until <= now + 1 /\ key' = NoSecret /\ until' = 0
         \/ UNCHANGED <<key, until>>
      /\ UNCHANGED <<tasks, mails, posts, history>>
  BY DEF Tick
<1>2. TypeOK'
  <2>1. now' \in 0 .. MaxTime /\ 0 \in 0 .. MaxTime + Duration
    BY <1>0, <1>1
  <2> QED
    BY <1>1, <2>1 DEF IInv, TypeOK, tasks, posts, history
<1>3. KnownInv'
  BY <1>1 DEF IInv, KnownInv, Known, tasks, posts, history
<1>4. MadeInv'
  <2>1. /\ \A t \in Tasks : made'[t] <= now'
        /\ \A p \in Posts : code'[p].at <= now'
    BY <1>0, <1>1 DEF IInv, MadeInv, tasks, posts
  <2>2. \A c \in mails : c.at <= now'
    BY <1>0, <1>1 DEF IInv, MadeInv
  <2> QED
    BY <1>1, <2>1, <2>2 DEF IInv, MadeInv
<1>5. LastInv'
  <2>1. ASSUME NEW s \in Secrets, NEW at \in Nat, Lasts(s, at) PROVE Lasts(s, at)'
    <3>1. s # NoSecret
      BY KnownSecrets
    <3> QED
      BY <1>0, <1>1, <2>1, <3>1 DEF Lasts, history
  <2>2. ASSUME NEW u \in Tasks, stage'[u] = "mail" PROVE Lasts(SecretOf(u), made[u])'
    <3>1. SecretOf(u) \in Secrets /\ Lasts(SecretOf(u), made[u])
      BY <1>1, <2>2, SecretOfFacts DEF IInv, LastInv, tasks
    <3> QED
      BY <1>0, <1>1, <2>1, <3>1 DEF SecretOf, Lasts, tasks
  <2>3. ASSUME NEW c \in mails PROVE Lasts(c.secret, c.at)'
    BY <1>0, <2>1 DEF IInv, LastInv, KnownInv, Known
  <2> QED
    BY <1>1, <2>2, <2>3 DEF LastInv
<1>6. SpentStaysSpent'
  <2>1. NoSecret \notin spent
    BY KnownSecrets DEF IInv, KnownInv, Known
  <2> QED
    BY <1>1, <2>1 DEF IInv, SpentStaysSpent, history
<1> QED
  BY <1>2, <1>3, <1>4, <1>5, <1>6 DEF IInv

-----------------------------------------------------------------------------
LEMMA InitStep == Init => IInv
<1> SUFFICES ASSUME Init PROVE IInv
  OBVIOUS
<1>1. /\ 0 \in 0 .. MaxTime /\ 0 \in 0 .. MaxRetry /\ 0 \in 0 .. MaxTime + Duration
  BY RetryAssumption, MaxTimeAssumption, DurationAssumption
<1>2. TypeOK
  BY <1>1, WrongFacts DEF Init, TypeOK, Stages, Steps
<1>3. KnownInv
  BY DEF Init, KnownInv
<1>4. MadeInv
  BY WrongFacts DEF Init, MadeInv
<1>5. LastInv /\ SpentStaysSpent
  BY DEF Init, LastInv, SpentStaysSpent
<1> QED
  BY <1>2, <1>3, <1>4, <1>5 DEF IInv

LEMMA NextStep == IInv /\ [Next]_vars => IInv'
<1> SUFFICES ASSUME IInv, [Next]_vars PROVE IInv'
  OBVIOUS
<1>t. /\ stage \in [Tasks -> Stages] /\ run \in [Tasks -> 0 .. MaxRetry]
      /\ made \in [Tasks -> 0 .. MaxTime]
      /\ now \in 0 .. MaxTime /\ now \in Nat /\ 0 \in 0 .. MaxTime /\ 0 <= now
  BY MaxTimeAssumption DEF IInv, TypeOK
<1>p. /\ step \in [Posts -> Steps] /\ code \in [Posts -> Codes]
      /\ got \in [Posts -> Known \union {NoSecret}]
      /\ \A p \in Posts : code[p].at <= now
      /\ \A p \in Posts : step[p] \in {"verify", "handler"} => got[p] \in Known
  BY DEF IInv, TypeOK, KnownInv, MadeInv
<1>1. ASSUME NEW t \in Tasks, SendOTP(t) PROVE IInv'
  <2>1. /\ UNCHANGED <<now, redis, posts, spent, mails, run, made>>
        /\ stage[t] = "none" /\ stage' = [stage EXCEPT ![t] = "queued"]
    BY <1>1 DEF SendOTP
  <2>2. made[t] <= now
    BY DEF IInv, MadeInv
  <2> QED
    BY <1>t, <2>1, <2>2, TaskStep DEF Stages
<1>2. ASSUME NEW t \in Tasks, MakeCode(t) PROVE IInv'
  <2>1. /\ UNCHANGED <<now, redis, posts, spent, mails, run>>
        /\ stage[t] = "queued" /\ stage' = [stage EXCEPT ![t] = "store"]
        /\ made' = [made EXCEPT ![t] = now]
    BY <1>2 DEF MakeCode, MoveOn
  <2> QED
    BY <1>t, <2>1, TaskStep DEF Stages
<1>3. ASSUME NEW t \in Tasks, StoreSecret(t) PROVE IInv'
  BY <1>3, StoreSecretStep
<1>4. ASSUME NEW t \in Tasks, SendEmail(t) PROVE IInv'
  <2>1. /\ UNCHANGED <<now, redis, posts, spent, run>>
        /\ stage[t] = "mail" /\ stage' = [stage EXCEPT ![t] = "done"]
        /\ made' = [made EXCEPT ![t] = 0]
        /\ mails' = mails \union {CodeOf(t)}
    BY <1>4 DEF SendEmail, MoveOn
  <2> QED
    BY <1>t, <2>1, TaskStep DEF Stages
<1>5. ASSUME NEW t \in Tasks, MailAnswerLost(t) \/ TaskFails(t) PROVE IInv'
  <2>1. /\ UNCHANGED <<now, redis, posts, spent>>
        /\ Retry(t)
        /\ UNCHANGED mails \/ (stage[t] = "mail" /\ mails' = mails \union {CodeOf(t)})
    BY <1>5 DEF MailAnswerLost, TaskFails
  <2>2. /\ stage' \in [Tasks -> Stages]
        /\ run' \in [Tasks -> 0 .. MaxRetry]
        /\ made' \in [Tasks -> 0 .. MaxTime]
        /\ \A u \in Tasks \ {t} : stage'[u] = stage[u] /\ run'[u] = run[u] /\ made'[u] = made[u]
        /\ made'[t] <= now /\ stage'[t] # "mail"
        /\ \/ run'[t] = run[t] /\ stage'[t] = "archived"
           \/ run'[t] = run[t] + 1
    BY <1>t, <2>1, RetryFacts DEF IInv
  <2> QED
    BY <2>1, <2>2, TaskStep
<1>6. ASSUME NEW p \in Posts, NEW c \in mails \union {Wrong}, Get(p, c) PROVE IInv'
  BY <1>6, GetStep
<1>7. ASSUME NEW p \in Posts, GetNothing(p) PROVE IInv'
  <2>1. /\ UNCHANGED <<now, redis, tasks, mails, spent, code, got>>
        /\ step' = [step EXCEPT ![p] = "refused"]
    BY <1>7 DEF GetNothing, To
  <2>2. step' \in [Posts -> Steps]
    BY <1>p, <2>1 DEF Steps
  <2>3. \A q \in Posts : step'[q] \in {"verify", "handler"} => got'[q] \in Known
    BY <1>p, <2>1
  <2> QED
    BY <1>p, <2>1, <2>2, <2>3, PostStep
<1>8. ASSUME NEW p \in Posts, Verify(p) PROVE IInv'
  <2>1. UNCHANGED <<now, redis, tasks, mails, spent>> /\ step[p] = "verify"
    BY <1>8 DEF Verify
  <2>2. CASE Leave(p, "refused")
    BY <2>1, <2>2, LeaveFacts, PostStep DEF Steps
  <2>3. CASE To(p, "handler") /\ UNCHANGED <<code, got>>
    <3>1. step' = [step EXCEPT ![p] = "handler"]
      BY <2>3 DEF To
    <3>2. step' \in [Posts -> Steps]
      BY <1>p, <3>1 DEF Steps
    <3>3. \A q \in Posts : step'[q] \in {"verify", "handler"} => got'[q] \in Known
      BY <1>p, <2>1, <2>3, <3>1
    <3> QED
      BY <1>p, <2>1, <2>3, <3>2, <3>3, PostStep
  <2> QED
    BY <1>8, <2>2, <2>3 DEF Verify
<1>9. ASSUME NEW p \in Posts, Del(p) PROVE IInv'
  BY <1>9, DelStep
<1>10. ASSUME NEW p \in Posts, NoDel(p) PROVE IInv'
  <2>1. UNCHANGED <<now, redis, tasks, mails, spent>> /\ Leave(p, "done")
    BY <1>10 DEF NoDel
  <2> QED
    BY <2>1, LeaveFacts, PostStep DEF Steps
<1>11. CASE Tick
  BY <1>11, TickStep
<1>12. CASE UNCHANGED vars
  <2>1. UNCHANGED <<now, redis, tasks, mails, spent, step, code, got>>
    BY <1>12 DEF vars, redis, tasks, posts, history
  <2> QED
    BY <1>p, <2>1, PostStep
<1> QED
  BY <1>1, <1>2, <1>3, <1>4, <1>5, <1>6, <1>7, <1>8, <1>9, <1>10, <1>11, <1>12 DEF Next, TaskRuns

(* The inductive invariant: which secrets may be anywhere, and how long    *)
(* those last (the task's SET before its mail, worker/).                   *)
THEOREM Invariance == Spec => []IInv
BY InitStep, NextStep, PTL DEF Spec

(* Types.                                                                  *)
THEOREM TypeCorrect == Spec => []TypeOK
<1>1. IInv => TypeOK
  BY DEF IInv
<1> QED
  BY <1>1, Invariance, PTL

(* A secret that a request has deleted never comes back (retries make new  *)
(* secrets).                                                               *)
THEOREM SpentIsGone == Spec => []SpentStaysSpent
<1>1. IInv => SpentStaysSpent
  BY DEF IInv
<1> QED
  BY <1>1, Invariance, PTL

(* A mailed code is accepted while its interval lasts, unless somebody     *)
(* removed its secret.                                                     *)
THEOREM MailedCodesWork == Spec => []MailedCodeWorks
<1>1. IInv => MailedCodeWorks
  <2> SUFFICES ASSUME IInv, NEW c \in mails, Interval(c.at) = Interval(now)
               PROVE  c.secret = key \/ c.secret \in lost
    BY DEF MailedCodeWorks
  <2>1. c.at \in Nat /\ now \in Nat /\ Duration \in Nat
    BY DurationAssumption DEF IInv, TypeOK, MadeInv
  <2>2. now < c.at + Duration
    BY <2>1, SameInterval
  <2> QED
    BY <2>1, <2>2 DEF IInv, LastInv, Lasts
<1> QED
  BY <1>1, Invariance, PTL

(* No code is accepted Duration or more after it was made (the comparison  *)
(* in verifyOTPMiddleware).                                                *)
THEOREM CodesExpire == Spec => ExpiresInTime
<1>1. IInv /\ [Next]_vars =>
        \A p \in Posts :
          step[p] = "verify" /\ step'[p] = "handler" => now < code[p].at + Duration
  <2> SUFFICES ASSUME IInv, [Next]_vars, NEW p \in Posts,
                      step[p] = "verify", step'[p] = "handler"
               PROVE  now < code[p].at + Duration
    OBVIOUS
  <2>t. step \in [Posts -> Steps] /\ code[p] \in Codes /\ now \in Nat
    BY DEF IInv, TypeOK
  <2>1. code[p].at \in Nat
    BY <2>t, WrongFacts DEF Codes
  <2>2. CASE Verify(p)
    <3>1. Interval(code[p].at) = Interval(now)
      <4>1. CASE Matches(code[p], got[p])
        BY <4>1 DEF Matches
      <4>2. CASE Leave(p, "refused")
        BY <2>t, <4>2 DEF Leave, To
      <4> QED
        BY <2>2, <4>1, <4>2 DEF Verify
    <3> QED
      BY <2>t, <2>1, <3>1, SameInterval
  <2>3. ASSUME NEW q \in Posts, q # p, Verify(q) PROVE FALSE
    <3>1. step'[p] = step[p]
      <4>1. PICK s : step' = [step EXCEPT ![q] = s]
        BY <2>3 DEF Verify, Leave, To
      <4> QED
        BY <2>t, <2>3, <4>1
    <3> QED
      BY <3>1
  <2>4. ASSUME NEW q \in Posts, NEW c, Get(q, c) PROVE FALSE
    BY <2>t, <2>4 DEF Get, To
  <2>5. ASSUME NEW q \in Posts, GetNothing(q) \/ Del(q) \/ NoDel(q) PROVE FALSE
    BY <2>t, <2>5 DEF GetNothing, Del, NoDel, Leave, To
  <2>6. ASSUME NEW t \in Tasks, SendOTP(t) \/ TaskRuns(t) \/ MailAnswerLost(t) \/ TaskFails(t)
        PROVE  FALSE
    BY <2>6 DEF SendOTP, TaskRuns, MakeCode, StoreSecret, SendEmail, MailAnswerLost, TaskFails, posts
  <2>7. CASE Tick \/ UNCHANGED vars
    BY <2>7 DEF Tick, vars, posts
  <2> QED
    BY <2>2, <2>3, <2>4, <2>5, <2>6, <2>7 DEF Next
<1> QED
  BY <1>1, Invariance, PTL DEF Spec, ExpiresInTime

(* The mail task, its failures and its retries are what the queue makes of *)
(* a task (ProcessTaskSendVerifyEmail and asynq).                          *)
THEOREM TasksImplementQueue == Spec => ImplementsTaskQueue
<1> DEFINE State == [t \in Tasks |-> IF stage[t] \in {"store", "mail"} THEN "active" ELSE stage[t]]
<1>1. Init => Queue!Init
  BY DEF Init, Queue!Init
<1>2. IInv /\ [Next]_vars => [Queue!Next]_(Queue!vars)
  <2> SUFFICES ASSUME IInv, [Next]_vars PROVE Queue!Next \/ UNCHANGED <<State, run>>
    BY DEF Queue!vars
  <2>1. stage \in [Tasks -> Stages] /\ run \in [Tasks -> 0 .. MaxRetry]
    BY DEF IInv, TypeOK
  <2>2. ASSUME NEW t \in Tasks, NEW from, NEW to, stage[t] = from, stage' = [stage EXCEPT ![t] = to]
        PROVE  /\ State[t] = IF from \in {"store", "mail"} THEN "active" ELSE from
               /\ State' = [State EXCEPT ![t] = IF to \in {"store", "mail"} THEN "active" ELSE to]
    BY <2>1, <2>2
  <2>3. ASSUME NEW t \in Tasks, stage[t] \in {"store", "mail"}, Retry(t) PROVE Queue!Fail(t)
    <3>1. run[t] <= MaxRetry
      BY <2>1, RetryAssumption
    <3>2. CASE run[t] < MaxRetry
      BY <2>2, <2>3, <3>2 DEF Retry, Queue!Fail, Queue!Move
    <3>3. CASE run[t] = MaxRetry
      BY <2>2, <2>3, <3>3, RetryAssumption DEF Retry, Queue!Fail, Queue!Move
    <3> QED
      BY <2>1, <3>1, <3>2, <3>3, RetryAssumption
  <2>4. ASSUME NEW t \in Tasks, SendOTP(t) PROVE Queue!Add(t)
    BY <2>2, <2>4 DEF SendOTP, Queue!Add, Queue!Move
  <2>5. ASSUME NEW t \in Tasks, MakeCode(t) PROVE Queue!Take(t)
    BY <2>2, <2>5 DEF MakeCode, MoveOn, Queue!Take, Queue!Move
  <2>6. ASSUME NEW t \in Tasks, StoreSecret(t) PROVE UNCHANGED <<State, run>>
    BY <2>1, <2>6 DEF StoreSecret, MoveOn
  <2>7. ASSUME NEW t \in Tasks, SendEmail(t) PROVE Queue!Complete(t)
    BY <2>2, <2>7 DEF SendEmail, MoveOn, Queue!Complete, Queue!Move
  <2>8. ASSUME NEW t \in Tasks, MailAnswerLost(t) \/ TaskFails(t) PROVE Queue!Fail(t)
    BY <2>3, <2>8 DEF MailAnswerLost, TaskFails
  <2>9. ASSUME NEW p \in Posts, NEW c, Get(p, c) PROVE UNCHANGED <<State, run>>
    BY <2>9 DEF Get, tasks
  <2>10. ASSUME NEW p \in Posts, GetNothing(p) \/ Verify(p) \/ Del(p) \/ NoDel(p)
         PROVE  UNCHANGED <<State, run>>
    BY <2>10 DEF GetNothing, Verify, Del, NoDel, tasks
  <2>11. CASE Tick \/ UNCHANGED vars
    BY <2>11 DEF Tick, vars, tasks
  <2> HIDE DEF State
  <2> QED
    BY <2>4, <2>5, <2>6, <2>7, <2>8, <2>9, <2>10, <2>11 DEF Next, TaskRuns, Queue!Next
<1> QED
  BY Invariance, <1>1, <1>2, PTL DEF Spec, ImplementsTaskQueue, Queue!Spec
=============================================================================
