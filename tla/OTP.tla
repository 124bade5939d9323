-------------------------------- MODULE OTP --------------------------------
(***************************************************************************)
(* The one-time codes that protect POST /api/auth/transfers, for one user: *)
(*   - sendOTP (api/otp.go) queues a task;                                 *)
(*   - ProcessTaskSendVerifyEmail (worker/task_send_otp_email.go) makes a  *)
(*     secret, stores it in Redis and mails the code; the queue runs it    *)
(*     again when it fails or its worker dies;                             *)
(*   - verifyOTPMiddleware (api/middleware.go) compares the code of a      *)
(*     request with the stored secret, runs the handler, and deletes the   *)
(*     secret.                                                             *)
(* Tasks run on several workers at once, and so do requests.               *)
(*                                                                         *)
(* A code is the pair of its secret and of the interval it was made in:    *)
(* two codes are taken to be equal only when both are (the six digits may  *)
(* collide by chance).  A secret is named after the run of the task that   *)
(* made it.  Time counts from a boundary of the TOTP intervals.            *)
(***************************************************************************)
EXTENDS Integers

CONSTANTS
  Tasks,     \* tasks sendOTP may queue for the user
  Posts,     \* transfer requests of the user
  MaxRetry,  \* asynq.MaxRetry: runs after the first one
  Duration,  \* APILimitDuration: TOTP interval and time to live of a secret
  MaxTime,   \* bound on the clock, for TLC
  NoSecret   \* no secret is stored

ASSUME RetryAssumption == MaxRetry \in Nat
ASSUME DurationAssumption == Duration \in Nat \ {0}
ASSUME MaxTimeAssumption == MaxTime \in Nat
ASSUME NoSecretAssumption == NoSecret \notin Tasks \X (0 .. MaxRetry)

VARIABLES
  now,        \* the clock
  key,        \* the value of otp:<user>, or NoSecret
  until,      \* when that key expires
  stage,      \* the next step of every task
  run,        \* how many times a task was run again
  made,       \* when the code of the task's run was made
  mails,      \* the codes that reached the user
  step,       \* the next step of every request
  code,       \* the code a request carries
  got,        \* the secret a request was given by Redis
  spent,      \* history: secrets of the requests whose DEL took effect
  lost        \* history: stored secrets that another SET or a DEL removed

tasks == <<stage, run, made>>
posts == <<step, code, got>>
history == <<spent, lost>>
redis == <<key, until, lost>>
vars == <<now, key, until, tasks, mails, posts, history>>

Secrets == Tasks \X (0 .. MaxRetry)
Interval(time) == time \div Duration
Code(secret, time) == [secret |-> secret, at |-> time]
Wrong == Code(NoSecret, 0)
Stored == {key} \ {NoSecret}

Stages == {"none", "queued", "store", "mail", "done", "archived"}
Steps == {"idle", "verify", "handler", "done", "refused"}

Init ==
  /\ now = 0
  /\ key = NoSecret
  /\ until = 0
  /\ stage = [t \in Tasks |-> "none"]
  /\ run = [t \in Tasks |-> 0]
  /\ made = [t \in Tasks |-> 0]
  /\ mails = {}
  /\ step = [p \in Posts |-> "idle"]
  /\ code = [p \in Posts |-> Wrong]
  /\ got = [p \in Posts |-> NoSecret]
  /\ spent = {}
  /\ lost = {}

-----------------------------------------------------------------------------
(* The task.                                                               *)

(* A retry makes a new secret.                                             *)
SlipSecretOf(t) == <<t, 0>>  \* a slip: the secret is part of the task's payload
SecretOf(t) == <<t, run[t]>>
CodeOf(t) == Code(SecretOf(t), made[t])

SlipMoveOn(t, to) ==        \* a slip: the secret is stored once the mail is out
  stage' = [stage EXCEPT ![t] = CASE @ = "queued" -> "mail" [] @ = "mail" -> "store" [] OTHER -> "done"]
MoveOn(t, to) == stage' = [stage EXCEPT ![t] = to]

(* asynq runs a failed task again, MaxRetry times, then archives it.       *)
SlipRetryOnceMore(t) ==     \* a slip: MaxRetry is taken for the number of runs after the next
  /\ made' = [made EXCEPT ![t] = 0]
  /\ run' = [run EXCEPT ![t] = @ + 1]
  /\ stage' = [stage EXCEPT ![t] = IF run[t] <= MaxRetry THEN "queued" ELSE "archived"]

Retry(t) ==
  /\ made' = [made EXCEPT ![t] = 0]
  /\ IF run[t] < MaxRetry
       THEN /\ stage' = [stage EXCEPT ![t] = "queued"]
            /\ run' = [run EXCEPT ![t] = @ + 1]
       ELSE /\ stage' = [stage EXCEPT ![t] = "archived"]
            /\ UNCHANGED run

SendOTP(t) ==
  /\ stage[t] = "none"
  /\ stage' = [stage EXCEPT ![t] = "queued"]
  /\ UNCHANGED <<now, redis, run, made, mails, posts, spent>>

(* util.RandomBase32Secret and totp.Now(), then GetUser, which changes      *)
(* nothing (when it fails, the task fails before its SET).                 *)
MakeCode(t) ==
  /\ stage[t] = "queued"
  /\ made' = [made EXCEPT ![t] = now]
  /\ MoveOn(t, "store")
  /\ UNCHANGED <<now, redis, run, mails, posts, spent>>

StoreSecret(t) ==
  /\ stage[t] = "store"
  /\ key' = SecretOf(t)
  /\ until' = now + Duration
  /\ lost' = lost \union Stored
  /\ MoveOn(t, "mail")
  /\ UNCHANGED <<now, run, made, mails, posts, spent>>

SendEmail(t) ==
  /\ stage[t] = "mail"
  /\ mails' = mails \union {CodeOf(t)}
  /\ MoveOn(t, "done")
  /\ made' = [made EXCEPT ![t] = 0]
  /\ UNCHANGED <<now, redis, run, posts, spent>>

(* The mail goes out, but the worker is not told or dies before it says so *)
(* to the queue.                                                           *)
MailAnswerLost(t) ==
  /\ stage[t] = "mail"
  /\ mails' = mails \union {CodeOf(t)}
  /\ Retry(t)
  /\ UNCHANGED <<now, redis, posts, spent>>

(* A call of the task fails, or its worker dies; in state "mail" this also *)
(* stands for a SET whose answer was lost.                                 *)
TaskFails(t) ==
  /\ stage[t] \in {"store", "mail"}
  /\ Retry(t)
  /\ UNCHANGED <<now, redis, mails, posts, spent>>

-----------------------------------------------------------------------------
(* The request.                                                            *)
To(p, s) == step' = [step EXCEPT ![p] = s]

(* The request is answered; its local variables go.                        *)
Leave(p, s) ==
  /\ To(p, s)
  /\ code' = [code EXCEPT ![p] = Wrong]
  /\ got' = [got EXCEPT ![p] = NoSecret]

(* A request comes in and reads the stored secret.                         *)
Get(p, c) ==
  /\ step[p] = "idle"
  /\ key # NoSecret
  /\ code' = [code EXCEPT ![p] = c]
  /\ got' = [got EXCEPT ![p] = key]
  /\ To(p, "verify")
  /\ UNCHANGED <<now, redis, tasks, mails, spent>>

(* No secret is stored, or Redis fails: "OTP has been expired", 401.       *)
GetNothing(p) ==
  /\ step[p] = "idle"
  /\ To(p, "refused")
  /\ UNCHANGED <<now, redis, tasks, mails, code, got, spent>>

(* totp.VerifyTime(req.OTP, time.Now()): the code of the current interval. *)
SlipMatches(c, secret) ==   \* a slip: the code of the interval before will do as well
  c.secret = secret /\ Interval(now) - Interval(c.at) \in {0, 1}
Matches(c, secret) == c.secret = secret /\ Interval(c.at) = Interval(now)

Verify(p) ==
  /\ step[p] = "verify"
  /\ IF Matches(code[p], got[p])
       THEN To(p, "handler") /\ UNCHANGED <<code, got>>
       ELSE Leave(p, "refused")
  /\ UNCHANGED <<now, redis, tasks, mails, spent>>

(* ctx.Next() has returned, whatever the handler did: otpStore.Del, of     *)
(* whatever is stored now.                                                 *)
Del(p) ==
  /\ step[p] = "handler"
  /\ key' = NoSecret
  /\ until' = 0
  /\ lost' = lost \union Stored
  /\ spent' = spent \union {got[p]}
  /\ Leave(p, "done")
  /\ UNCHANGED <<now, tasks, mails>>

(* The Del fails, the handler panics before it, or the server dies.        *)
NoDel(p) ==
  /\ step[p] \in {"verify", "handler"}
  /\ Leave(p, "done")
  /\ UNCHANGED <<now, redis, tasks, mails, spent>>

-----------------------------------------------------------------------------
(* Time passes; Redis drops the key when its time is up.                   *)
Tick ==
  /\ now < MaxTime
  /\ now' = now + 1
  /\ IF key # NoSecret /\ until <= now + 1
       THEN key' = NoSecret /\ until' = 0
       ELSE UNCHANGED <<key, until>>
  /\ UNCHANGED <<tasks, mails, posts, history>>

TaskRuns(t) == MakeCode(t) \/ StoreSecret(t) \/ SendEmail(t)

Next ==
  \/ Tick
  \/ \E t \in Tasks :
       \/ SendOTP(t)
       \/ TaskRuns(t)
       \/ MailAnswerLost(t)
       \/ TaskFails(t)
  \/ \E p \in Posts :
       \/ \E c \in mails \union {Wrong} : Get(p, c)
       \/ GetNothing(p)
       \/ Verify(p)
       \/ Del(p)
       \/ NoDel(p)

Spec == Init /\ [][Next]_vars

-----------------------------------------------------------------------------
(* Properties.                                                             *)
Codes == [secret : Secrets, at : 0 .. MaxTime] \union {Wrong}

TypeOK ==
  /\ now \in 0 .. MaxTime
  /\ key \in Secrets \union {NoSecret}
  /\ until \in 0 .. MaxTime + Duration
  /\ stage \in [Tasks -> Stages]
  /\ run \in [Tasks -> 0 .. MaxRetry]
  /\ made \in [Tasks -> 0 .. MaxTime]
  /\ mails \subseteq Codes
  /\ step \in [Posts -> Steps]
  /\ code \in [Posts -> Codes]
  /\ got \in [Posts -> Secrets \union {NoSecret}]
  /\ spent \subseteq Secrets
  /\ lost \subseteq Secrets

(* A code whose request has deleted its secret is of no use any more: the  *)
(* secret never comes back, neither with a retry nor with a late SET, so   *)
(* only requests that read it before the DEL may still use it.             *)
SpentStaysSpent == key \notin spent

(* While the interval it was made in lasts, a mailed code is accepted,     *)
(* unless a newer secret took its place or a request deleted it: mails go  *)
(* out after their secret is stored, and no secret expires before then.    *)
MailedCodeWorks ==
  \A c \in mails :
    Interval(c.at) = Interval(now) => c.secret = key \/ c.secret \in lost

(* "It will expire in %d seconds": no code is accepted Duration or more    *)
(* after it was made.                                                      *)
ExpiresInTime ==
  [][\A p \in Posts :
       step[p] = "verify" /\ step'[p] = "handler" => now < code[p].at + Duration]_vars

(* The same sentence of the mail the other way round: a code that is still *)
(* stored is not refused before Duration has passed since it was made.     *)
GoodUntilItExpires ==
  [][\A p \in Posts :
       step[p] = "verify" /\ step'[p] = "refused" /\ got[p] = code[p].secret
         => now >= code[p].at + Duration]_vars

(* The steps of the mail task are those of a task in the queue, the retry  *)
(* after a lost answer included: a task makes one secret for every failure *)
(* that is counted, and one more.  (A run that a shutdown puts back, which *)
(* the queue does not count, is here one that fails.)                      *)
Queue ==
  INSTANCE TaskQueue WITH
    state <- [t \in Tasks |-> IF stage[t] \in {"store", "mail"} THEN "active" ELSE stage[t]],
    failures <- run
ImplementsTaskQueue == Queue!Spec
=============================================================================
