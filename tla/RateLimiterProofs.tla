------------------------- MODULE RateLimiterProofs -------------------------
(***************************************************************************)
(* Proofs about RateLimiter, for any number of workers, any limit, window  *)
(* and bound on the clock.  Three facts are proved of the same inductive   *)
(* invariant: the size of the log is bounded in spite of the race between  *)
(* counting and adding, nobody is turned away without having been busy,    *)
(* and the time to live of the key spares what is still in its window; so  *)
(* that an entry once counted stays until its window has passed, unless a  *)
(* request of the same millisecond takes it over.                          *)
(***************************************************************************)
EXTENDS RateLimiter, FiniteSetTheorems, TLAPS

(* Nothing carries a time that has not come; what is in the log was put    *)
(* there, not before its score.                                            *)
TimeInv ==
  /\ \A w \in Workers : ts[w] <= now /\ score[w] <= now
  /\ \A m \in DOMAIN log :
       log[m] <= now /\ m \in DOMAIN added /\ log[m] <= added[m]

(* Once a request has trimmed the log, all that is in it was put there     *)
(* less than a window before the request came in, or after.                *)
TrimInv ==
  \A w \in Workers :
    /\ pc[w] \in {"idle", "trim"} => ~trimmed[w]
    /\ pc[w] = "count" /\ trimmed[w] => DOMAIN log \subseteq Recent(w)

IInv ==
  /\ TypeOK
  /\ TimeInv
  /\ TrimInv
  /\ LogBounded
  /\ RejectedOnlyWhenBusy
  /\ KeptForWindow

-----------------------------------------------------------------------------
USE DEF redis, request, history, vars

(* Partial functions on Time: what Put and Only make of them.              *)
LEMMA ScoredFacts ==
  ASSUME NEW f \in Scored
  PROVE  /\ DOMAIN f \subseteq Time
         /\ f \in [DOMAIN f -> Time]
         /\ IsFiniteSet(DOMAIN f)
         /\ Cardinality(DOMAIN f) \in Nat
<1>1. DOMAIN f \subseteq Time /\ f \in [DOMAIN f -> Time]
  BY DEF Scored
<1>2. IsFiniteSet(Time)
  BY FS_Interval, TimeAssumption DEF Time
<1> QED
  BY <1>1, <1>2, FS_Subset, FS_CardinalityType

LEMMA PutFacts ==
  ASSUME NEW f \in Scored, NEW x \in Time, NEW v \in Time
  PROVE  Put(f, x, v) \in Scored
<1> DEFINE D == DOMAIN f \union {x}
<1>1. D \in SUBSET Time /\ f \in [DOMAIN f -> Time]
  BY ScoredFacts
<1>2. Put(f, x, v) = [y \in D |-> IF y = x THEN v ELSE f[y]]
  BY DEF Put
<1>3. \A y \in D : (IF y = x THEN v ELSE f[y]) \in Time
  BY <1>1
<1>4. Put(f, x, v) \in [D -> Time]
  BY <1>2, <1>3
<1> QED
  BY <1>1, <1>4 DEF Scored

LEMMA OnlyFacts ==
  ASSUME NEW f \in Scored, NEW S
  PROVE  /\ Only(f, S) \in Scored
         /\ DOMAIN Only(f, S) = DOMAIN f \intersect S
         /\ \A y \in DOMAIN f \intersect S : Only(f, S)[y] = f[y]
<1> DEFINE D == DOMAIN f \intersect S
<1>1. D \in SUBSET Time /\ f \in [DOMAIN f -> Time]
  BY ScoredFacts
<1>2. Only(f, S) = [y \in D |-> f[y]]
  BY DEF Only
<1>3. Only(f, S) \in [D -> Time]
  BY <1>1, <1>2
<1>4. Only(f, S) \in Scored
  BY <1>1, <1>3 DEF Scored
<1> QED
  BY <1>2, <1>4

LEMMA EmptyFacts == Empty \in Scored /\ DOMAIN Empty = {}
BY DEF Empty, Scored

LEMMA TimeFacts == Time \subseteq Nat /\ 0 \in Time
BY TimeAssumption DEF Time

(* Type correctness.  Most steps move one worker to another call ...       *)
LEMMA MoveType ==
  ASSUME TypeOK, NEW w \in Workers, NEW to \in PC, Goto(w, to)
  PROVE  pc' \in [Workers -> PC]
BY DEF TypeOK, Goto

(* ... or end its request and clear its local variables.                   *)
LEMMA LeaveType ==
  ASSUME TypeOK, NEW w \in Workers, Leave(w)
  PROVE  /\ pc' \in [Workers -> PC]
         /\ ts' \in [Workers -> Time]
         /\ trimmed' \in [Workers -> BOOLEAN]
         /\ score' \in [Workers -> Time]
         /\ member' \in [Workers -> Time]
<1>1. "idle" \in PC
  BY DEF PC
<1>2. pc' \in [Workers -> PC]
  BY <1>1, MoveType DEF Leave
<1>3. ts' \in [Workers -> Time]
  BY TimeFacts DEF TypeOK, Leave
<1>4. trimmed' \in [Workers -> BOOLEAN]
  BY DEF TypeOK, Leave
<1>5. score' \in [Workers -> Time]
  BY TimeFacts DEF TypeOK, Leave
<1>6. member' \in [Workers -> Time]
  BY TimeFacts DEF TypeOK, Leave
<1> QED
  BY <1>2, <1>3, <1>4, <1>5, <1>6

(* Every step keeps the types.                                             *)
LEMMA TypeStep == TypeOK /\ [Next]_vars => TypeOK'
<1> SUFFICES ASSUME TypeOK, [Next]_vars PROVE TypeOK'
  OBVIOUS
<1>1. CASE UNCHANGED vars
  BY <1>1 DEF TypeOK
<1>2. CASE Tick
  <2>1. now' \in Time
    BY <1>2, TimeAssumption DEF TypeOK, Tick, Time
  <2>2. log' \in Scored /\ ttl' \in Nat \union {NoTTL}
    BY <1>2, EmptyFacts DEF TypeOK, Tick
  <2> QED
    BY <1>2, <2>1, <2>2 DEF TypeOK, Tick
<1>3. ASSUME NEW w \in Workers, Arrive(w) PROVE TypeOK'
  <2>1. pc' \in [Workers -> PC]
    BY <1>3, MoveType DEF Arrive, PC
  <2>2. ts' \in [Workers -> Time]
    BY <1>3 DEF TypeOK, Arrive
  <2> QED
    BY <1>3, <2>1, <2>2 DEF TypeOK, Arrive
<1>4. ASSUME NEW w \in Workers, Trim(w) PROVE TypeOK'
  <2>1. pc' \in [Workers -> PC]
    BY <1>4, MoveType DEF Trim, PC
  <2>2. trimmed' \in [Workers -> BOOLEAN]
    BY <1>4 DEF TypeOK, Trim
  <2>3. log' \in Scored /\ ttl' \in Nat \union {NoTTL}
    BY <1>4, OnlyFacts DEF TypeOK, Trim, SetLog
  <2> QED
    BY <1>4, <2>1, <2>2, <2>3 DEF TypeOK, Trim
<1>5. ASSUME NEW w \in Workers, TrimFails(w) PROVE TypeOK'
  <2>1. pc' \in [Workers -> PC]
    BY <1>5, MoveType DEF TrimFails, PC
  <2> QED
    BY <1>5, <2>1 DEF TypeOK, TrimFails
<1>6. ASSUME NEW w \in Workers, Count(w) PROVE TypeOK'
  <2>1. pc' \in [Workers -> PC]
    BY <1>6, MoveType DEF Count, PC
  <2> QED
    BY <1>6, <2>1 DEF TypeOK, Count
<1>7. ASSUME NEW w \in Workers, ReadScore(w) PROVE TypeOK'
  <2>1. pc' \in [Workers -> PC]
    BY <1>7, MoveType DEF ReadScore, PC
  <2>2. score' \in [Workers -> Time]
    BY <1>7 DEF TypeOK, ReadScore
  <2> QED
    BY <1>7, <2>1, <2>2 DEF TypeOK, ReadScore
<1>8. ASSUME NEW w \in Workers, ReadMember(w) PROVE TypeOK'
  <2>1. pc' \in [Workers -> PC]
    BY <1>8, MoveType DEF ReadMember, PC
  <2>2. member' \in [Workers -> Time]
    BY <1>8 DEF TypeOK, ReadMember
  <2> QED
    BY <1>8, <2>1, <2>2 DEF TypeOK, ReadMember
<1>9. ASSUME NEW w \in Workers, Add(w) PROVE TypeOK'
  <2>1. pc' \in [Workers -> PC]
    BY <1>9, MoveType DEF Add, PC
  <2>2. member[w] \in Time /\ score[w] \in Time
    BY DEF TypeOK
  <2>3. log' \in Scored /\ ttl' \in Nat \union {NoTTL}
    BY <1>9, <2>2, PutFacts DEF TypeOK, Add, SetLog
  <2>4. added' \in Scored /\ fresh' \subseteq Time
    BY <1>9, <2>2, PutFacts DEF TypeOK, Add
  <2> QED
    BY <1>9, <2>1, <2>3, <2>4 DEF TypeOK, Add
<1>10. ASSUME NEW w \in Workers, AddFails(w) PROVE TypeOK'
  <2>1. pc' \in [Workers -> PC]
    BY <1>10, MoveType DEF AddFails, PC
  <2> QED
    BY <1>10, <2>1 DEF TypeOK, AddFails
<1>11. ASSUME NEW w \in Workers, Expire(w) PROVE TypeOK'
  <2>1. ttl' \in Nat \union {NoTTL}
    BY <1>11, LimitAssumption, TimeFacts DEF TypeOK, Expire
  <2>2. fresh' \subseteq Time /\ Leave(w) /\ UNCHANGED <<now, log, added>>
    BY <1>11 DEF Expire
  <2> QED
    BY <2>1, <2>2, LeaveType DEF TypeOK
<1>12. ASSUME NEW w \in Workers, CountFails(w) \/ ExpireFails(w) \/ Reject(w) \/ Crash(w)
      PROVE  TypeOK'
  <2>1. Leave(w) /\ UNCHANGED <<now, redis, history>>
    BY <1>12 DEF CountFails, ExpireFails, Reject, Crash
  <2> QED
    BY <2>1, LeaveType DEF TypeOK
<1> QED
  BY <1>1, <1>2, <1>3, <1>4, <1>5, <1>6, <1>7, <1>8, <1>9, <1>10, <1>11, <1>12 DEF Next, Work

(* What a Trim and an Add do to the log, in terms of its elements.         *)
LEMMA TrimFacts ==
  ASSUME TypeOK, NEW w \in Workers, Trim(w)
  PROVE  /\ DOMAIN log' = InWindow(w)
         /\ InWindow(w) \subseteq DOMAIN log
         /\ \A m \in DOMAIN log' : log'[m] = log[m]
         /\ ttl' = ttl \/ DOMAIN log' = {}
         /\ UNCHANGED <<now, ts, score, member, added, fresh>>
<1>1. InWindow(w) \subseteq DOMAIN log
  BY DEF InWindow
<1>2. log \in Scored /\ log' = Only(log, InWindow(w))
  BY DEF TypeOK, Trim, SetLog
<1>3. DOMAIN log' = DOMAIN log \intersect InWindow(w)
  BY <1>2, OnlyFacts
<1>4. \A m \in DOMAIN log \intersect InWindow(w) : log'[m] = log[m]
  BY <1>2, OnlyFacts
<1>5. ttl' = ttl \/ DOMAIN log' = {}
  BY <1>2 DEF Trim, SetLog
<1>6. UNCHANGED <<now, ts, score, member, added, fresh>>
  BY DEF Trim
<1> QED
  BY <1>1, <1>3, <1>4, <1>5, <1>6

LEMMA AddFacts ==
  ASSUME TypeOK, NEW w \in Workers, Add(w)
  PROVE  /\ DOMAIN log' = DOMAIN log \union {member[w]}
         /\ \A m \in DOMAIN log : log'[m] = IF m = member[w] THEN score[w] ELSE log[m]
         /\ log'[member[w]] = score[w]
         /\ DOMAIN added' = DOMAIN added \union {member[w]}
         /\ \A m \in DOMAIN added : added'[m] = IF m = member[w] THEN now ELSE added[m]
         /\ added'[member[w]] = now
         /\ fresh' = fresh \union {member[w]}
         /\ UNCHANGED <<now, ttl, ts, trimmed, score, member>>
<1>1. member[w] \in Time /\ score[w] \in Time /\ now \in Time
  BY DEF TypeOK
<1>2. log' = Put(log, member[w], score[w]) /\ added' = Put(added, member[w], now)
  BY DEF Add, SetLog
<1>3. log \in Scored /\ added \in Scored
  BY DEF TypeOK
<1>4. /\ DOMAIN log' = DOMAIN log \union {member[w]}
      /\ \A m \in DOMAIN log : log'[m] = IF m = member[w] THEN score[w] ELSE log[m]
      /\ log'[member[w]] = score[w]
  <2>1. /\ DOMAIN Put(log, member[w], score[w]) = DOMAIN log \union {member[w]}
        /\ \A m \in DOMAIN log : Put(log, member[w], score[w])[m] = IF m = member[w] THEN score[w] ELSE log[m]
        /\ Put(log, member[w], score[w])[member[w]] = score[w]
    BY DEF Put
  <2> QED
    BY <1>2, <2>1
<1>5. /\ DOMAIN added' = DOMAIN added \union {member[w]}
      /\ \A m \in DOMAIN added : added'[m] = IF m = member[w] THEN now ELSE added[m]
      /\ added'[member[w]] = now
  <2>1. /\ DOMAIN Put(added, member[w], now) = DOMAIN added \union {member[w]}
        /\ \A m \in DOMAIN added : Put(added, member[w], now)[m] = IF m = member[w] THEN now ELSE added[m]
        /\ Put(added, member[w], now)[member[w]] = now
    BY DEF Put
  <2> QED
    BY <1>2, <2>1
<1>6. DOMAIN log' # {}
  BY <1>4
<1>7. /\ fresh' = fresh \union {member[w]}
      /\ UNCHANGED <<now, ttl, ts, trimmed, score, member>>
  BY <1>2, <1>6 DEF Add, SetLog
<1> QED
  BY <1>4, <1>5, <1>7

LEMMA Numbers ==
  ASSUME TypeOK
  PROVE  /\ now \in Nat
         /\ \A w \in Workers : ts[w] \in Nat /\ score[w] \in Nat
         /\ \A m \in DOMAIN log : log[m] \in Nat
         /\ \A m \in DOMAIN added : added[m] \in Nat
BY TimeFacts, ScoredFacts DEF TypeOK

(* Steps that touch neither the log nor what is remembered of it.          *)
Quiet(w) ==
  \/ Arrive(w) \/ TrimFails(w) \/ Count(w) \/ CountFails(w) \/ ReadScore(w)
  \/ ReadMember(w) \/ AddFails(w) \/ ExpireFails(w) \/ Reject(w) \/ Crash(w)

LEMMA QuietFacts ==
  ASSUME NEW w \in Workers, Quiet(w)
  PROVE  UNCHANGED <<now, log, ttl, added, fresh>>
BY DEF Quiet, Arrive, TrimFails, Count, CountFails, ReadScore, ReadMember, AddFails,
       ExpireFails, Reject, Crash

LEMMA StepCases ==
  ASSUME [Next]_vars
  PROVE  \/ UNCHANGED vars
         \/ Tick
         \/ \E w \in Workers : Quiet(w) \/ Trim(w) \/ Add(w) \/ Expire(w)
BY DEF Next, Work, Quiet

LEMMA TimeStep == TypeOK /\ TimeInv /\ [Next]_vars => TimeInv'
<1> SUFFICES ASSUME TypeOK, TimeInv, [Next]_vars PROVE TimeInv'
  OBVIOUS
<1> USE Numbers DEF TimeInv
<1>1. CASE UNCHANGED vars
  BY <1>1
<1>2. CASE Tick
  BY <1>2, EmptyFacts DEF Tick
<1>3. ASSUME NEW w \in Workers, Quiet(w) PROVE TimeInv'
  <2>1. UNCHANGED <<now, log, ttl, added, fresh>>
    BY <1>3, QuietFacts
  <2>2. \A v \in Workers : ts'[v] <= now /\ score'[v] <= now
    BY <1>3 DEF Quiet, TypeOK, Arrive, TrimFails, Count, CountFails, ReadScore, ReadMember,
                AddFails, ExpireFails, Reject, Crash, Leave
  <2> QED
    BY <2>1, <2>2
<1>4. ASSUME NEW w \in Workers, Trim(w) PROVE TimeInv'
  BY <1>4, TrimFacts
<1>5. ASSUME NEW w \in Workers, Add(w) PROVE TimeInv'
  <2>1. /\ DOMAIN log' = DOMAIN log \union {member[w]}
        /\ DOMAIN added' = DOMAIN added \union {member[w]}
        /\ UNCHANGED <<now, ts, score>>
    BY <1>5, AddFacts
  <2>2. ASSUME NEW m \in DOMAIN log, m # member[w]
        PROVE  log'[m] = log[m] /\ m \in DOMAIN added /\ added'[m] = added[m]
    BY <1>5, <2>2, AddFacts
  <2>3. log'[member[w]] = score[w] /\ added'[member[w]] = now
    BY <1>5, AddFacts
  <2> QED
    BY <2>1, <2>2, <2>3
<1>6. ASSUME NEW w \in Workers, Expire(w) PROVE TimeInv'
  BY <1>6 DEF Expire, Leave, TypeOK
<1> QED
  BY <1>1, <1>2, <1>3, <1>4, <1>5, <1>6, StepCases

(* Being recent does not wear off: what was added after it only is more    *)
(* recent, and ts stays while the request lasts.                           *)
LEMMA RecentKept ==
  ASSUME TypeOK, TimeInv, NEW w \in Workers, ts'[w] = ts[w],
         \/ added' = added
         \/ \E v \in Workers : Add(v)
  PROVE  Recent(w) \subseteq Recent(w)'
<1>1. CASE added' = added
  BY <1>1 DEF Recent
<1>2. ASSUME NEW v \in Workers, Add(v) PROVE Recent(w) \subseteq Recent(w)'
  <2>1. now > ts[w] - Window
    BY Numbers, LimitAssumption DEF TimeInv
  <2> QED
    BY <1>2, <2>1, AddFacts DEF Recent
<1> QED
  BY <1>1, <1>2

LEMMA TrimInvStep == TypeOK /\ TimeInv /\ TrimInv /\ [Next]_vars => TrimInv'
<1> SUFFICES ASSUME TypeOK, TimeInv, TrimInv, [Next]_vars PROVE TrimInv'
  OBVIOUS
<1>1. CASE UNCHANGED vars
  BY <1>1 DEF TrimInv, Recent
<1>2. CASE Tick
  BY <1>2, EmptyFacts DEF Tick, TrimInv, Recent
<1>3. ASSUME NEW w \in Workers, Quiet(w) PROVE TrimInv'
  <2>1. UNCHANGED <<log, added>>
    BY <1>3, QuietFacts
  <2>2. /\ \A v \in Workers \ {w} : pc'[v] = pc[v] /\ ts'[v] = ts[v] /\ trimmed'[v] = trimmed[v]
        /\ pc'[w] \in {"idle", "trim"} => ~trimmed'[w]
        /\ pc'[w] = "count" => ~trimmed'[w]
    BY <1>3 DEF Quiet, TypeOK, TrimInv, Arrive, TrimFails, Count, CountFails, ReadScore,
                ReadMember, AddFails, ExpireFails, Reject, Crash, Leave, Goto
  <2> QED
    BY <2>1, <2>2 DEF TrimInv, Recent
<1>4. ASSUME NEW w \in Workers, Trim(w) PROVE TrimInv'
  <2>1. InWindow(w) \subseteq Recent(w)
    BY Numbers, LimitAssumption DEF InWindow, Recent, TimeInv
  <2>2. \A v \in Workers \ {w} : pc'[v] = pc[v] /\ trimmed'[v] = trimmed[v]
    BY <1>4 DEF Trim, Goto, TypeOK
  <2>3. pc'[w] = "count"
    BY <1>4 DEF Trim, Goto, TypeOK
  <2>4. \A v \in Workers : Recent(v)' = Recent(v)
    BY <1>4, TrimFacts DEF Recent
  <2> QED
    BY <1>4, <2>1, <2>2, <2>3, <2>4, TrimFacts DEF TrimInv
<1>5. ASSUME NEW w \in Workers, Add(w) PROVE TrimInv'
  <2>1. \A v \in Workers \ {w} : pc'[v] = pc[v] /\ trimmed'[v] = trimmed[v]
    BY <1>5 DEF Add, Goto, TypeOK
  <2>2. pc'[w] = "expire"
    BY <1>5 DEF Add, Goto, TypeOK
  <2>3. \A v \in Workers : member[w] \in Recent(v)'
    <3>1. /\ DOMAIN added' = DOMAIN added \union {member[w]}
          /\ added'[member[w]] = now /\ ts' = ts
      BY <1>5, AddFacts
    <3>2. \A v \in Workers : now > ts[v] - Window
      BY Numbers, LimitAssumption DEF TimeInv
    <3> QED
      BY <3>1, <3>2 DEF Recent
  <2>4. \A v \in Workers : Recent(v) \subseteq Recent(v)'
    BY <1>5, AddFacts, RecentKept
  <2>5. DOMAIN log' = DOMAIN log \union {member[w]}
    BY <1>5, AddFacts
  <2> QED
    BY <2>1, <2>2, <2>3, <2>4, <2>5 DEF TrimInv
<1>6. ASSUME NEW w \in Workers, Expire(w) PROVE TrimInv'
  BY <1>6 DEF Expire, Leave, Goto, TypeOK, TrimInv, Recent
<1> QED
  BY <1>1, <1>2, <1>3, <1>4, <1>5, <1>6, StepCases

(* Counting lets a worker in only while at most MaxRequests entries are    *)
(* logged, and there are only so many workers to let in.                   *)
LEMMA SizeStep == TypeOK /\ TypeOK' /\ LogBounded /\ [Next]_vars => LogBounded'
<1> SUFFICES ASSUME TypeOK, TypeOK', LogBounded, [Next]_vars PROVE LogBounded'
  OBVIOUS
<1> DEFINE size == Cardinality(DOMAIN log)
           admitting == Cardinality(Admitting)
           workers == Cardinality(Workers)
<1>1. /\ IsFiniteSet(DOMAIN log) /\ size \in Nat
      /\ IsFiniteSet(DOMAIN log') /\ size' \in Nat
  BY ScoredFacts DEF TypeOK
<1>2. /\ IsFiniteSet(Admitting) /\ admitting \in Nat /\ admitting <= workers
      /\ IsFiniteSet(Admitting') /\ admitting' \in Nat /\ admitting' <= workers
      /\ workers \in Nat
  <2>1. Admitting \subseteq Workers /\ Admitting' \subseteq Workers
    BY DEF Admitting
  <2> QED
    BY <2>1, WorkersAssumption, FS_Subset, FS_CardinalityType
<1>3. ASSUME DOMAIN log' \subseteq DOMAIN log, Admitting' \subseteq Admitting
      PROVE  LogBounded'
  <2>1. size' <= size /\ admitting' <= admitting
    BY <1>1, <1>2, <1>3, FS_Subset
  <2> QED
    BY <1>1, <1>2, <2>1, LimitAssumption DEF LogBounded
<1>4. CASE UNCHANGED vars
  BY <1>3, <1>4 DEF Admitting
<1>5. CASE Tick
  BY <1>3, <1>5, EmptyFacts DEF Tick, Admitting
<1>6. ASSUME NEW w \in Workers, Count(w) PROVE LogBounded'
  <2>1. CASE size <= MaxRequests
    <3>1. size' = size
      BY <1>6 DEF Count
    <3> QED
      BY <1>1, <1>2, <2>1, <3>1, LimitAssumption DEF LogBounded
  <2>2. CASE ~(size <= MaxRequests)
    <3>1. pc' = [pc EXCEPT ![w] = "rejected"] /\ log' = log
      <4>1. OverLimit(Cardinality(DOMAIN log))
        BY <1>1, <2>2, LimitAssumption DEF OverLimit
      <4> QED
        BY <1>6, <4>1 DEF Count, Goto
    <3>2. Admitting' \subseteq Admitting
      BY <3>1 DEF Admitting, TypeOK
    <3> QED
      BY <1>3, <3>1, <3>2
  <2> QED
    BY <2>1, <2>2
<1>7. ASSUME NEW w \in Workers,
             \/ Arrive(w) \/ TrimFails(w) \/ CountFails(w) \/ ReadScore(w) \/ ReadMember(w)
             \/ AddFails(w) \/ ExpireFails(w) \/ Reject(w) \/ Crash(w) \/ Expire(w)
      PROVE  LogBounded'
  <2>1. log' = log
    BY <1>7 DEF Arrive, TrimFails, CountFails, ReadScore, ReadMember, AddFails,
                ExpireFails, Reject, Crash, Expire
  <2>2. \A v \in Workers \ {w} : pc'[v] = pc[v]
    BY <1>7 DEF TypeOK, Arrive, TrimFails, CountFails, ReadScore, ReadMember, AddFails,
                ExpireFails, Reject, Crash, Expire, Leave, Goto
  <2>3. w \in Admitting' => w \in Admitting
    BY <1>7 DEF TypeOK, Admitting, Arrive, TrimFails, CountFails, ReadScore, ReadMember,
                AddFails, ExpireFails, Reject, Crash, Expire, Leave, Goto
  <2>4. Admitting' \subseteq Admitting
    BY <2>2, <2>3 DEF Admitting
  <2> QED
    BY <1>3, <2>1, <2>4
<1>8. ASSUME NEW w \in Workers, Trim(w) PROVE LogBounded'
  <2>1. Admitting' \subseteq Admitting
    BY <1>8 DEF Trim, Goto, TypeOK, Admitting
  <2> QED
    BY <1>3, <1>8, <2>1, TrimFacts
<1>9. ASSUME NEW w \in Workers, Add(w) PROVE LogBounded'
  <2>1. size' <= size + 1
    <3>1. DOMAIN log' = DOMAIN log \union {member[w]}
      BY <1>9, AddFacts
    <3>2. size' = IF member[w] \in DOMAIN log THEN size ELSE size + 1
      BY <1>1, <3>1, FS_AddElement
    <3> QED
      BY <1>1, <3>2
  <2>2. w \in Admitting /\ Admitting' = Admitting \ {w}
    BY <1>9 DEF Add, Goto, TypeOK, Admitting
  <2>3. admitting' = admitting - 1
    BY <1>2, <2>2, FS_RemoveElement
  <2> QED
    BY <1>1, <1>2, <2>1, <2>3, LimitAssumption DEF LogBounded
<1> QED
  BY <1>4, <1>5, <1>6, <1>7, <1>8, <1>9, StepCases DEF Quiet

LEMMA BusyStep ==
  IInv /\ TypeOK' /\ [Next]_vars => RejectedOnlyWhenBusy'
<1> SUFFICES ASSUME IInv, TypeOK', [Next]_vars,
                    NEW v \in Workers, pc'[v] = "rejected", trimmed'[v]
             PROVE  Cardinality(Recent(v))' > MaxRequests
  BY DEF RejectedOnlyWhenBusy
<1>1. /\ IsFiniteSet(DOMAIN log) /\ Cardinality(DOMAIN log) \in Nat
      /\ IsFiniteSet(Recent(v)) /\ Cardinality(Recent(v)) \in Nat
      /\ IsFiniteSet(Recent(v)') /\ Cardinality(Recent(v)') \in Nat
  <2>1. /\ IsFiniteSet(DOMAIN log) /\ Cardinality(DOMAIN log) \in Nat
        /\ IsFiniteSet(DOMAIN added) /\ IsFiniteSet(DOMAIN added')
    BY ScoredFacts DEF IInv, TypeOK
  <2>2. Recent(v) \subseteq DOMAIN added /\ Recent(v)' \subseteq DOMAIN added'
    BY DEF Recent
  <2> QED
    BY <2>1, <2>2, FS_Subset, FS_CardinalityType
<1>2. CASE pc[v] # "rejected"
  <2>1. /\ pc[v] = "count" /\ trimmed[v] /\ Cardinality(DOMAIN log) > MaxRequests
        /\ UNCHANGED <<ts, added>>
    BY <1>2 DEF IInv, TypeOK, Next, Work, Tick, Arrive, Trim, TrimFails, Count, CountFails,
                ReadScore, ReadMember, Add, AddFails, Expire, ExpireFails, Reject, Crash,
                Leave, Goto, OverLimit
  <2>2. DOMAIN log \subseteq Recent(v)
    BY <2>1 DEF IInv, TrimInv
  <2>3. Recent(v)' = Recent(v)
    BY <2>1 DEF Recent
  <2>4. Cardinality(DOMAIN log) <= Cardinality(Recent(v))
    BY <1>1, <2>2, FS_Subset
  <2> QED
    BY <1>1, <2>1, <2>3, <2>4, LimitAssumption
<1>3. CASE pc[v] = "rejected"
  <2>1. /\ trimmed[v] /\ ts'[v] = ts[v]
        /\ added' = added \/ \E w \in Workers : Add(w)
    BY <1>3 DEF IInv, TypeOK, Next, Work, Tick, Arrive, Trim, TrimFails, Count, CountFails,
                ReadScore, ReadMember, Add, AddFails, Expire, ExpireFails, Reject, Crash,
                Leave, Goto
  <2>2. Recent(v) \subseteq Recent(v)'
    BY <2>1, RecentKept DEF IInv
  <2>3. Cardinality(Recent(v)) <= Cardinality(Recent(v)')
    BY <1>1, <2>2, FS_Subset
  <2>4. Cardinality(Recent(v)) > MaxRequests
    BY <1>3, <2>1 DEF IInv, RejectedOnlyWhenBusy
  <2> QED
    BY <1>1, <2>3, <2>4, LimitAssumption
<1> QED
  BY <1>2, <1>3

LEMMA KeepStep == IInv /\ TypeOK' /\ [Next]_vars => KeptForWindow'
<1> SUFFICES ASSUME IInv, TypeOK', [Next]_vars,
                    NEW m \in DOMAIN log', m \notin fresh'
             PROVE  ttl' # NoTTL /\ ttl' >= log'[m] + Window
  BY DEF KeptForWindow
<1>1. CASE UNCHANGED vars
  BY <1>1 DEF IInv, KeptForWindow
<1>2. CASE Tick
  BY <1>2, EmptyFacts DEF Tick, IInv, KeptForWindow
<1>3. ASSUME NEW w \in Workers, Quiet(w) PROVE ttl' # NoTTL /\ ttl' >= log'[m] + Window
  BY <1>3, QuietFacts DEF IInv, KeptForWindow
<1>4. ASSUME NEW w \in Workers, Trim(w) PROVE ttl' # NoTTL /\ ttl' >= log'[m] + Window
  BY <1>4, TrimFacts DEF IInv, KeptForWindow
<1>5. ASSUME NEW w \in Workers, Add(w) PROVE ttl' # NoTTL /\ ttl' >= log'[m] + Window
  <2>1. /\ DOMAIN log' = DOMAIN log \union {member[w]} /\ ttl' = ttl
        /\ fresh' = fresh \union {member[w]}
    BY <1>5, AddFacts DEF IInv
  <2>2. m \in DOMAIN log /\ m \notin fresh /\ m # member[w]
    BY <2>1
  <2>3. log'[m] = log[m]
    BY <1>5, <2>2, AddFacts DEF IInv
  <2> QED
    BY <2>1, <2>2, <2>3 DEF IInv, KeptForWindow
<1>6. ASSUME NEW w \in Workers, Expire(w) PROVE ttl' # NoTTL /\ ttl' >= log'[m] + Window
  <2>1. ttl' = now + Window /\ log' = log
    BY <1>6 DEF Expire
  <2>2. now \in Nat /\ log[m] \in Nat /\ log[m] <= now
    BY <2>1, Numbers DEF IInv, TimeInv
  <2> QED
    BY <2>1, <2>2, LimitAssumption, NoTTLAssumption
<1> QED
  BY <1>1, <1>2, <1>3, <1>4, <1>5, <1>6, StepCases

-----------------------------------------------------------------------------
LEMMA InitIInv == Init => IInv
<1> SUFFICES ASSUME Init PROVE IInv
  OBVIOUS
<1> USE DEF Init
<1>1. TypeOK
  BY TimeFacts, EmptyFacts DEF TypeOK, PC
<1>2. TimeInv /\ TrimInv /\ RejectedOnlyWhenBusy /\ KeptForWindow
  BY EmptyFacts DEF TimeInv, TrimInv, RejectedOnlyWhenBusy, KeptForWindow
<1>3. LogBounded
  <2>1. Admitting = {} /\ DOMAIN log = {}
    BY EmptyFacts DEF Admitting
  <2> QED
    BY <2>1, FS_EmptySet, FS_CardinalityType, WorkersAssumption, LimitAssumption DEF LogBounded
<1> QED
  BY <1>1, <1>2, <1>3 DEF IInv

(* IInv is an inductive invariant of RateLimiter.                          *)
THEOREM Invariance == Spec => []IInv
<1>1. IInv /\ [Next]_vars => IInv'
  <2> SUFFICES ASSUME IInv, [Next]_vars PROVE IInv'
    OBVIOUS
  <2>1. TypeOK'
    BY TypeStep DEF IInv
  <2>2. TimeInv' /\ TrimInv' /\ LogBounded'
    BY <2>1, TimeStep, TrimInvStep, SizeStep DEF IInv
  <2> QED
    BY <2>1, <2>2, BusyStep, KeepStep DEF IInv
<1> QED
  BY InitIInv, <1>1, PTL DEF Spec

(* Every variable keeps its type.                                          *)
THEOREM TypeCorrect == Spec => []TypeOK
BY Invariance, PTL DEF IInv

(* The race between counting and adding costs at most one entry per worker *)
(* over the limit, for any number of workers.                              *)
THEOREM RaceIsBounded == Spec => []LogBounded
BY Invariance, PTL DEF IInv

(* A request is turned away, its log trimmed, only after more than         *)
(* MaxRequests were logged in the window before it.                        *)
THEOREM RejectionsAreJustified == Spec => []RejectedOnlyWhenBusy
BY Invariance, PTL DEF IInv

(* The key's time to live does not cut short what an EXPIRE has followed.  *)
THEOREM TTLSparesTheWindow == Spec => []KeptForWindow
BY Invariance, PTL DEF IInv

(* An entry leaves the log, or its score changes, only by age or by a ZADD *)
(* of the same member: a trim measures age from a time that has come, and  *)
(* the key outlives it (ZREMRANGEBYSCORE, ZADD and EXPIRE of               *)
(* rateLimitMiddleware).                                                   *)
THEOREM CountedForTheWindow == Spec => StaysCounted
<1> DEFINE Kept(m) == m \in DOMAIN log' /\ log'[m] = log[m]
           Aged(m) == log[m] <= now' - Window
           Stays ==
             \A m \in DOMAIN log \ fresh :
               \/ m \in DOMAIN log' /\ log'[m] = log[m]
               \/ log[m] <= now' - Window
               \/ Overwrites(m)
<1>1. ASSUME IInv, [Next]_vars, NEW m \in DOMAIN log, m \notin fresh
      PROVE  Kept(m) \/ Aged(m) \/ Overwrites(m)
  <2>1. now \in Nat /\ log[m] \in Nat
    BY <1>1, Numbers DEF IInv
  <2>2. CASE UNCHANGED vars
    BY <2>2
  <2>3. CASE Tick
    <3>1. now' = now + 1 /\ (log' = log \/ ttl <= now')
      BY <2>3 DEF Tick
    <3>2. ttl \in Nat /\ ttl >= log[m] + Window
      BY <1>1 DEF IInv, TypeOK, KeptForWindow
    <3> QED
      BY <2>1, <3>1, <3>2, LimitAssumption
  <2>4. ASSUME NEW w \in Workers, Quiet(w) \/ Expire(w) PROVE Kept(m)
    BY <2>4, QuietFacts DEF Expire
  <2>5. ASSUME NEW w \in Workers, Add(w) PROVE Kept(m) \/ Overwrites(m)
    <3>1. CASE m # member[w]
      BY <1>1, <2>5, <3>1, AddFacts DEF IInv
    <3>2. CASE m = member[w]
      <4>1. m \in DOMAIN log' /\ log'[m] = score[w]
        BY <1>1, <2>5, <3>2, AddFacts DEF IInv
      <4>2. pc[w] = "add" /\ pc'[w] = "expire"
        BY <1>1, <2>5 DEF Add, Goto, IInv, TypeOK
      <4> QED
        BY <3>2, <4>1, <4>2 DEF Overwrites
    <3> QED
      BY <3>1, <3>2
  <2>6. ASSUME NEW w \in Workers, Trim(w) PROVE Kept(m) \/ Aged(m)
    <3>1. DOMAIN log' = InWindow(w) /\ now' = now
      BY <1>1, <2>6, TrimFacts DEF IInv
    <3>2. \A x \in DOMAIN log' : log'[x] = log[x]
      BY <1>1, <2>6, TrimFacts DEF IInv
    <3>3. ts[w] \in Nat /\ ts[w] <= now
      BY <1>1, Numbers DEF IInv, TimeInv
    <3> QED
      BY <1>1, <2>1, <3>1, <3>2, <3>3, LimitAssumption DEF InWindow
  <2> QED
    BY <1>1, <2>2, <2>3, <2>4, <2>5, <2>6, StepCases
<1>2. IInv /\ [Next]_vars => Stays
  BY <1>1
<1>3. IInv /\ [Next]_vars => [Stays]_vars
  BY <1>2
<1> HIDE DEF Stays
<1>4. Spec => [][Stays]_vars
  BY <1>3, Invariance, PTL DEF Spec
<1> QED
  BY <1>4 DEF Stays, StaysCounted
=============================================================================
