---------------------------- MODULE RateLimiter ----------------------------
(***************************************************************************)
(* rateLimitMiddleware (api/middleware.go): the sliding-window log of one  *)
(* client and one API, kept in one sorted set of Redis, as several         *)
(* requests of that client work on it at once.  Each call of the Redis     *)
(* store is a step of its own; only the calls are atomic, the middleware   *)
(* is not.  Time is the number of milliseconds since some start, one clock *)
(* for the servers and Redis.                                              *)
(*                                                                         *)
(* The errors of three of the calls are dropped by the code, that of ZCARD *)
(* answers the request.  A server may crash at any point of a request.     *)
(* What happens between the middleware's ctx.Next and the answer does not  *)
(* touch the log.                                                          *)
(***************************************************************************)
EXTENDS Integers, FiniteSets

CONSTANTS
  Workers,      \* the goroutines that may serve the client's requests
  MaxRequests,  \* maxRequests
  Window,       \* windowSize
  MaxTime,      \* bound on the clock, for TLC
  NoTTL         \* the sorted set does not expire

ASSUME WorkersAssumption == IsFiniteSet(Workers)
ASSUME LimitAssumption == MaxRequests \in Nat /\ Window \in Nat \ {0}
ASSUME TimeAssumption == MaxTime \in Nat
ASSUME NoTTLAssumption == NoTTL \notin Int

VARIABLES
  now,      \* the clock
  log,      \* the sorted set: the score of every member
  ttl,      \* the time the sorted set expires, or NoTTL
  pc,       \* the next call of every worker
  ts,       \* currentTimestamp
  trimmed,  \* whether the ZREMRANGEBYSCORE of the request took effect
  score,    \* first time.Now() of the ZADD
  member,   \* second time.Now() of the ZADD
  added,    \* history: the time of the last ZADD of every member
  fresh     \* history: members added since the last EXPIRE that took effect

redis == <<log, ttl>>
request == <<ts, trimmed, score, member>>
history == <<added, fresh>>
vars == <<now, redis, pc, request, history>>

PC == {"idle", "trim", "count", "score", "member", "add", "expire", "rejected"}
Time == 0 .. MaxTime

(* Partial functions from times: the sorted set and its history.           *)
Scored == UNION {[D -> Time] : D \in SUBSET Time}
Only(f, S) == [x \in DOMAIN f \intersect S |-> f[x]]
Put(f, x, v) == [y \in DOMAIN f \union {x} |-> IF y = x THEN v ELSE f[y]]
Empty == [x \in {} |-> 0]

Init ==
  /\ now = 0
  /\ log = Empty
  /\ ttl = NoTTL
  /\ pc = [w \in Workers |-> "idle"]
  /\ ts = [w \in Workers |-> 0]
  /\ trimmed = [w \in Workers |-> FALSE]
  /\ score = [w \in Workers |-> 0]
  /\ member = [w \in Workers |-> 0]
  /\ added = Empty
  /\ fresh = {}

Goto(w, to) == pc' = [pc EXCEPT ![w] = to]

(* The request is over for the limiter; its local variables go.            *)
Leave(w) ==
  /\ Goto(w, "idle")
  /\ ts' = [ts EXCEPT ![w] = 0]
  /\ trimmed' = [trimmed EXCEPT ![w] = FALSE]
  /\ score' = [score EXCEPT ![w] = 0]
  /\ member' = [member EXCEPT ![w] = 0]

(* An empty sorted set is no key at all, and has no time to live.          *)
SetLog(newLog) ==
  /\ log' = newLog
  /\ ttl' = IF DOMAIN newLog = {} THEN NoTTL ELSE ttl

-----------------------------------------------------------------------------
(* currentTimestamp := time.Now().UnixMilli()                              *)
Arrive(w) ==
  /\ pc[w] = "idle"
  /\ ts' = [ts EXCEPT ![w] = now]
  /\ Goto(w, "trim")
  /\ UNCHANGED <<now, redis, trimmed, score, member, history>>

(* ZREMRANGEBYSCORE key 0 windowStart, both ends included; its error is    *)
(* dropped.                                                                *)
SlipInWindow(w) == {m \in DOMAIN log : log[m] >= ts[w] - Window}  \* a slip: keeps one end
InWindow(w) == {m \in DOMAIN log : log[m] > ts[w] - Window}

Trim(w) ==
  /\ pc[w] = "trim"
  /\ SetLog(Only(log, InWindow(w)))
  /\ trimmed' = [trimmed EXCEPT ![w] = TRUE]
  /\ Goto(w, "count")
  /\ UNCHANGED <<now, ts, score, member, history>>

TrimFails(w) ==
  /\ pc[w] = "trim"
  /\ Goto(w, "count")
  /\ UNCHANGED <<now, redis, request, history>>

(* ZCARD, and the comparison of its answer; the ZRANGE between the two     *)
(* only feeds the headers.  Over the limit, the request gets a 429.        *)
SlipOverLimit(size) == size > MaxRequests + 1  \* a slip: one more is let through
OverLimit(size) == size > MaxRequests

Count(w) ==
  /\ pc[w] = "count"
  /\ Goto(w, IF OverLimit(Cardinality(DOMAIN log)) THEN "rejected" ELSE "score")
  /\ UNCHANGED <<now, redis, request, history>>

(* ZCARD fails: 500.                                                       *)
CountFails(w) ==
  /\ pc[w] = "count"
  /\ Leave(w)
  /\ UNCHANGED <<now, redis, history>>

(* The clock is read twice, for the score and for the member of the ZADD.  *)
SlipReadScore(w) ==         \* a slip: logs the time the entry leaves the window
  /\ pc[w] = "score"
  /\ score' = [score EXCEPT ![w] = now + Window]
  /\ Goto(w, "member")
  /\ UNCHANGED <<now, redis, ts, trimmed, member, history>>

ReadScore(w) ==
  /\ pc[w] = "score"
  /\ score' = [score EXCEPT ![w] = now]
  /\ Goto(w, "member")
  /\ UNCHANGED <<now, redis, ts, trimmed, member, history>>

ReadMember(w) ==
  /\ pc[w] = "member"
  /\ member' = [member EXCEPT ![w] = now]
  /\ Goto(w, "add")
  /\ UNCHANGED <<now, redis, ts, trimmed, score, history>>

(* ZADD: a member that is there already gets the new score.                *)
Add(w) ==
  /\ pc[w] = "add"
  /\ SetLog(Put(log, member[w], score[w]))
  /\ added' = Put(added, member[w], now)
  /\ fresh' = fresh \union {member[w]}
  /\ Goto(w, "expire")
  /\ UNCHANGED <<now, request>>

AddFails(w) ==
  /\ pc[w] = "add"
  /\ Goto(w, "expire")
  /\ UNCHANGED <<now, redis, request, history>>

(* EXPIRE, which does nothing to a key that is not there.                  *)
SlipExpire(w) ==            \* a slip: EXPIRE NX, the time to live set first stays
  /\ pc[w] = "expire"
  /\ ttl' = IF DOMAIN log = {} \/ ttl # NoTTL THEN ttl ELSE now + Window
  /\ fresh' = {}
  /\ Leave(w)
  /\ UNCHANGED <<now, log, added>>

Expire(w) ==
  /\ pc[w] = "expire"
  /\ ttl' = IF DOMAIN log = {} THEN ttl ELSE now + Window
  /\ fresh' = {}
  /\ Leave(w)
  /\ UNCHANGED <<now, log, added>>

ExpireFails(w) ==
  /\ pc[w] = "expire"
  /\ Leave(w)
  /\ UNCHANGED <<now, redis, history>>

(* The 429 is sent.                                                        *)
Reject(w) ==
  /\ pc[w] = "rejected"
  /\ Leave(w)
  /\ UNCHANGED <<now, redis, history>>

Crash(w) ==
  /\ pc[w] # "idle"
  /\ Leave(w)
  /\ UNCHANGED <<now, redis, history>>

(* A millisecond passes; Redis drops the key when its time is up.          *)
Tick ==
  /\ now < MaxTime
  /\ now' = now + 1
  /\ IF ttl # NoTTL /\ ttl <= now + 1
       THEN log' = Empty /\ ttl' = NoTTL
       ELSE UNCHANGED redis
  /\ UNCHANGED <<pc, request, history>>

Work(w) ==
  \/ Arrive(w)
  \/ Trim(w)
  \/ TrimFails(w)
  \/ Count(w)
  \/ CountFails(w)
  \/ ReadScore(w)
  \/ ReadMember(w)
  \/ Add(w)
  \/ AddFails(w)
  \/ Expire(w)
  \/ ExpireFails(w)
  \/ Reject(w)
  \/ Crash(w)

Next == Tick \/ \E w \in Workers : Work(w)

Spec == Init /\ [][Next]_vars

-----------------------------------------------------------------------------
(* Properties.                                                             *)

(* Types; scores and members are times that have come.                     *)
TypeOK ==
  /\ now \in Time
  /\ log \in Scored
  /\ ttl \in Nat \union {NoTTL}
  /\ pc \in [Workers -> PC]
  /\ ts \in [Workers -> Time]
  /\ trimmed \in [Workers -> BOOLEAN]
  /\ score \in [Workers -> Time]
  /\ member \in [Workers -> Time]
  /\ added \in Scored
  /\ fresh \subseteq Time

(* Workers that were let through and may still add to the log.             *)
Admitting == {w \in Workers : pc[w] \in {"score", "member", "add"}}

(* However the calls of the workers interleave, and whichever of them      *)
(* fail, the log never holds more than MaxRequests entries plus one per    *)
(* worker: counting and adding are not atomic, this is all it can cost.    *)
LogBounded ==
  Cardinality(DOMAIN log) + Cardinality(Admitting) <= MaxRequests + Cardinality(Workers)

(* A client is turned away only when it was busy: if its log was trimmed,  *)
(* more than MaxRequests of its requests were logged less than a window    *)
(* before the request that is turned away came in.                         *)
Recent(w) == {m \in DOMAIN added : added[m] > ts[w] - Window}
RejectedOnlyWhenBusy ==
  \A w \in Workers :
    pc[w] = "rejected" /\ trimmed[w] => Cardinality(Recent(w)) > MaxRequests

(* The time to live never cuts an entry short that an EXPIRE has followed: *)
(* such an entry is there until a window after its score.  Entries whose   *)
(* own EXPIRE is still to come, or failed, may be lost with the key.       *)
KeptForWindow ==
  \A m \in DOMAIN log \ fresh : ttl # NoTTL /\ ttl >= log[m] + Window

(* Some request has just put m into the log, with the score it had read.   *)
Overwrites(m) ==
  /\ m \in DOMAIN log'
  /\ \E w \in Workers :
       pc[w] = "add" /\ pc'[w] = "expire" /\ member[w] = m /\ log'[m] = score[w]

(* An entry that an EXPIRE has followed stays in the log, with its score,  *)
(* until a window has passed since that score: no slow trim, no failed     *)
(* call and no expiry of the key takes it away.  All that happens to it    *)
(* before is a ZADD of the same member: requests that read the clock in    *)
(* one millisecond share an entry, count as one from then on, and the one  *)
(* that is written last says how long, even if its score is the older.     *)
StaysCounted ==
  [][\A m \in DOMAIN log \ fresh :
       \/ m \in DOMAIN log' /\ log'[m] = log[m]
       \/ log[m] <= now' - Window
       \/ Overwrites(m)]_vars
=============================================================================
