--------------------------- MODULE LifecycleProofs ---------------------------
(***************************************************************************)
(* Proofs about Lifecycle, for any processes, tasks, migrations, number of *)
(* retries and amount of trouble.                                          *)
(***************************************************************************)
EXTENDS Lifecycle, TLAPS

(* Which goroutines there are, and what they have done.                    *)
MainInv ==
  \A s \in Servers :
    /\ main[s] \notin {"workers", "waiting"} => worker[s] = "off"
    /\ main[s] # "waiting" => serve[s] = "off" /\ shut[s] = "off"
    /\ main[s] = "waiting" => serve[s] # "off" /\ shut[s] # "off"
    /\ main[s] \in {"workers", "waiting"} => worker[s] # "off"
    /\ worker[s] \in {"stopping", "stopped"} => cancelled[s]
    /\ serve[s] = "accepting" => shut[s] = "wait"

(* One process migrates at a time, and none goes on before all is done.    *)
SchemaInv ==
  \A s \in Servers :
    /\ main[s] \in {"migrated", "workers", "waiting"} => Migrated
    /\ main[s] \in {"migrating", "marking"} => migrator = s /\ dirty

(* What has been waited for is gone.                                       *)
DrainInv ==
  \A s \in Servers :
    /\ shut[s] = "done" => InFlight(s) = {}
    /\ worker[s] = "stopped" => Held(s) \subseteq expiring

(* A request is answered once, its task is queued by it, and a task that   *)
(* somebody took, or whose lease is to expire, is active.                  *)
AnswerInv ==
  \A t \in Tasks :
    /\ answer[t] = "none" => queue[t] = "none"
    /\ at[t] # NoServer => answer[t] = "none"
    /\ holder[t] # NoServer \/ t \in expiring => queue[t] = "active"

(* No handler is ahead of the tries that were counted; and while a process *)
(* that goes on is at the last of them, that try is not to be had from the *)
(* queue, and nobody else has taken it.                                    *)
RunInv ==
  \A s \in Servers, t \in Tasks, try \in 0..MaxRetry :
    <<s, t, try>> \in running =>
      /\ try <= retried[t]
      /\ try = retried[t] /\ ~cancelled[s] =>
           queue[t] \notin {"none", "queued"} /\ (queue[t] = "active" => holder[t] = s)

(* OneRunPerTry, component by component.                                   *)
TryInv ==
  \A t \in Tasks, try \in 0..MaxRetry, p, q \in Servers :
    <<p, t, try>> \in running /\ <<q, t, try>> \in running /\ ~cancelled[p] /\ ~cancelled[q]
      => p = q

IInv ==
  /\ TypeOK
  /\ MainInv
  /\ SchemaInv
  /\ DrainInv
  /\ AnswerInv
  /\ RunInv
  /\ TryInv

(* A process may end at any time.                                          *)
LEMMA DieStep ==
  ASSUME IInv, NEW s \in Servers, Die(s), trouble' \in 0..MaxTrouble
  PROVE  IInv'
<1>0. NoServer \notin Servers
  BY LifecycleAssumption
<1>t. /\ main' \in [Servers -> {"off", "boot", "migrating", "marking", "migrated", "workers", "waiting"}]
      /\ cancelled' \in [Servers -> BOOLEAN]
      /\ serve' \in [Servers -> {"off", "start", "accepting", "closed", "failed"}]
      /\ shut' \in [Servers -> {"off", "wait", "draining", "done"}]
      /\ worker' \in [Servers -> {"off", "running", "stopping", "stopped"}]
  BY DEF IInv, TypeOK, Die, Goto
<1>f. \A q \in Servers :
        /\ main'[q] = IF q = s THEN "off" ELSE main[q]
        /\ cancelled'[q] = IF q = s THEN FALSE ELSE cancelled[q]
        /\ serve'[q] = IF q = s THEN "off" ELSE serve[q]
        /\ shut'[q] = IF q = s THEN "off" ELSE shut[q]
        /\ worker'[q] = IF q = s THEN "off" ELSE worker[q]
  BY DEF IInv, TypeOK, Die, Goto
<1>h. \A t \in Tasks :
        /\ at'[t] = IF at[t] = s THEN NoServer ELSE at[t]
        /\ answer'[t] = IF at[t] = s THEN "cut" ELSE answer[t]
        /\ holder'[t] = IF holder[t] = s THEN NoServer ELSE holder[t]
        /\ t \in expiring' <=> t \in expiring \/ holder[t] = s
  BY DEF Die, Held
<1>1. TypeOK'
  <2>1. /\ at' \in [Tasks -> Servers \union {NoServer}]
        /\ answer' \in [Tasks -> {"none", "ok", "error", "cut"}]
        /\ holder' \in [Tasks -> Servers \union {NoServer}]
    BY DEF IInv, TypeOK, Die
  <2>2. /\ running' \subseteq Servers \X Tasks \X (0..MaxRetry)
        /\ migrator' \in Servers \union {NoServer}
        /\ expiring' \subseteq Tasks
    BY DEF IInv, TypeOK, Die, Held
  <2> QED
    BY <1>t, <2>1, <2>2 DEF IInv, TypeOK, Die, crawl
<1>2. MainInv'
  BY <1>f DEF IInv, MainInv
<1>3. SchemaInv'
  BY <1>0, <1>f DEF IInv, SchemaInv, Migrated, Die
<1>4. DrainInv'
  <2>1. \A q \in Servers : q # s => InFlight(q)' = InFlight(q) /\ Held(q)' = Held(q)
    BY <1>0, <1>h DEF InFlight, Held
  <2>2. expiring \subseteq expiring'
    BY DEF Die
  <2> QED
    BY <1>f, <2>1, <2>2 DEF IInv, DrainInv
<1>5. AnswerInv'
  <2>1. queue' = queue
    BY DEF Die
  <2> QED
    BY <1>0, <1>h, <2>1 DEF IInv, AnswerInv
<1>6. RunInv' /\ TryInv'
  BY <1>f, <1>h DEF IInv, RunInv, TryInv, Die
<1> QED
  BY <1>1, <1>2, <1>3, <1>4, <1>5, <1>6 DEF IInv

(* A process starts.                                                       *)
LEMMA StartStep == ASSUME IInv, NEW s \in Servers, Start(s) PROVE IInv'
<1> USE LifecycleAssumption DEF process, schema, requests, tasks, crawl, Start, Goto
<1>1. TypeOK'
  BY DEF IInv, TypeOK
<1>2. MainInv'
  BY DEF IInv, TypeOK, MainInv
<1>3. SchemaInv'
  BY DEF IInv, TypeOK, SchemaInv, Migrated
<1>4. DrainInv'
  BY DEF IInv, TypeOK, MainInv, DrainInv, InFlight, Held
<1>5. AnswerInv'
  BY DEF IInv, TypeOK, AnswerInv
<1>6. RunInv' /\ TryInv'
  BY DEF IInv, TypeOK, MainInv, AnswerInv, RunInv, TryInv
<1> QED
  BY <1>1, <1>2, <1>3, <1>4, <1>5, <1>6 DEF IInv

(* A migration runs.                                                       *)
LEMMA RunMigrationStep == ASSUME IInv, NEW s \in Servers, RunMigration(s) PROVE IInv'
<1> USE LifecycleAssumption DEF process, schema, requests, tasks, crawl, RunMigration, Goto
<1>1. TypeOK'
  BY DEF IInv, TypeOK
<1>2. MainInv'
  BY DEF IInv, TypeOK, MainInv
<1>3. SchemaInv'
  BY DEF IInv, TypeOK, SchemaInv, Migrated
<1>4. DrainInv'
  BY DEF IInv, TypeOK, MainInv, DrainInv, InFlight, Held
<1>5. AnswerInv'
  BY DEF IInv, TypeOK, AnswerInv
<1>6. RunInv' /\ TryInv'
  BY DEF IInv, TypeOK, MainInv, AnswerInv, RunInv, TryInv
<1> QED
  BY <1>1, <1>2, <1>3, <1>4, <1>5, <1>6 DEF IInv

(* A migration is done.                                                    *)
LEMMA MarkMigrationStep == ASSUME IInv, NEW s \in Servers, MarkMigration(s) PROVE IInv'
<1> USE LifecycleAssumption DEF process, schema, requests, tasks, crawl, MarkMigration, Goto
<1>1. TypeOK'
  BY DEF IInv, TypeOK
<1>2. MainInv'
  BY DEF IInv, TypeOK, MainInv
<1>3. SchemaInv'
  BY DEF IInv, TypeOK, SchemaInv, Migrated
<1>4. DrainInv'
  BY DEF IInv, TypeOK, MainInv, DrainInv, InFlight, Held
<1>5. AnswerInv'
  BY DEF IInv, TypeOK, AnswerInv
<1>6. RunInv' /\ TryInv'
  BY DEF IInv, TypeOK, MainInv, AnswerInv, RunInv, TryInv
<1> QED
  BY <1>1, <1>2, <1>3, <1>4, <1>5, <1>6 DEF IInv

(* The workers start.                                                      *)
LEMMA StartProcessorStep == ASSUME IInv, NEW s \in Servers, StartProcessor(s) PROVE IInv'
<1> USE LifecycleAssumption DEF process, schema, requests, tasks, crawl, StartProcessor, Goto
<1>1. TypeOK'
  BY DEF IInv, TypeOK
<1>2. MainInv'
  BY DEF IInv, TypeOK, MainInv
<1>3. SchemaInv'
  BY DEF IInv, TypeOK, SchemaInv, Migrated
<1>4. DrainInv'
  BY DEF IInv, TypeOK, MainInv, DrainInv, InFlight, Held
<1>5. AnswerInv'
  BY DEF IInv, TypeOK, AnswerInv
<1>6. RunInv' /\ TryInv'
  BY DEF IInv, TypeOK, MainInv, AnswerInv, RunInv, TryInv
<1> QED
  BY <1>1, <1>2, <1>3, <1>4, <1>5, <1>6 DEF IInv

(* The HTTP server starts.                                                 *)
LEMMA StartServerStep == ASSUME IInv, NEW s \in Servers, StartServer(s) PROVE IInv'
<1> USE LifecycleAssumption DEF process, schema, requests, tasks, crawl, StartServer, Goto
<1>1. TypeOK'
  BY DEF IInv, TypeOK
<1>2. MainInv'
  BY DEF IInv, TypeOK, MainInv
<1>3. SchemaInv'
  BY DEF IInv, TypeOK, SchemaInv, Migrated
<1>4. DrainInv'
  BY DEF IInv, TypeOK, MainInv, DrainInv, InFlight, Held
<1>5. AnswerInv'
  BY DEF IInv, TypeOK, AnswerInv
<1>6. RunInv' /\ TryInv'
  BY DEF IInv, TypeOK, MainInv, AnswerInv, RunInv, TryInv
<1> QED
  BY <1>1, <1>2, <1>3, <1>4, <1>5, <1>6 DEF IInv

(* It listens, unless it was shut down before.                             *)
LEMMA ListenAndServeStep == ASSUME IInv, NEW s \in Servers, ListenAndServe(s) PROVE IInv'
<1> USE LifecycleAssumption DEF process, schema, requests, tasks, crawl, ListenAndServe
<1>1. TypeOK'
  BY DEF IInv, TypeOK
<1>2. MainInv'
  BY DEF IInv, TypeOK, MainInv
<1>3. SchemaInv'
  BY DEF IInv, TypeOK, SchemaInv, Migrated
<1>4. DrainInv'
  BY DEF IInv, TypeOK, MainInv, DrainInv, InFlight, Held
<1>5. AnswerInv'
  BY DEF IInv, TypeOK, AnswerInv
<1>6. RunInv' /\ TryInv'
  BY DEF IInv, TypeOK, MainInv, AnswerInv, RunInv, TryInv
<1> QED
  BY <1>1, <1>2, <1>3, <1>4, <1>5, <1>6 DEF IInv

(* It cannot listen, and the group is cancelled.                           *)
LEMMA ServeFailsStep == ASSUME IInv, NEW s \in Servers, ServeFails(s) PROVE IInv'
<1> USE LifecycleAssumption DEF process, schema, requests, tasks, crawl, ServeFails, Trouble
<1>1. TypeOK'
  BY DEF IInv, TypeOK
<1>2. MainInv'
  BY DEF IInv, TypeOK, MainInv
<1>3. SchemaInv'
  BY DEF IInv, TypeOK, SchemaInv, Migrated
<1>4. DrainInv'
  BY DEF IInv, TypeOK, MainInv, DrainInv, InFlight, Held
<1>5. AnswerInv'
  BY DEF IInv, TypeOK, AnswerInv
<1>6. RunInv' /\ TryInv'
  BY DEF IInv, TypeOK, MainInv, AnswerInv, RunInv, TryInv
<1> QED
  BY <1>1, <1>2, <1>3, <1>4, <1>5, <1>6 DEF IInv

(* The listener closes.                                                    *)
LEMMA ShutdownServerStep == ASSUME IInv, NEW s \in Servers, ShutdownServer(s) PROVE IInv'
<1> USE LifecycleAssumption DEF process, schema, requests, tasks, crawl, ShutdownServer
<1>1. TypeOK'
  BY DEF IInv, TypeOK
<1>2. MainInv'
  BY DEF IInv, TypeOK, MainInv
<1>3. SchemaInv'
  BY DEF IInv, TypeOK, SchemaInv, Migrated
<1>4. DrainInv'
  BY DEF IInv, TypeOK, MainInv, DrainInv, InFlight, Held
<1>5. AnswerInv'
  BY DEF IInv, TypeOK, AnswerInv
<1>6. RunInv' /\ TryInv'
  BY DEF IInv, TypeOK, MainInv, AnswerInv, RunInv, TryInv
<1> QED
  BY <1>1, <1>2, <1>3, <1>4, <1>5, <1>6 DEF IInv

(* No request is in flight any more.                                       *)
LEMMA DrainedStep == ASSUME IInv, NEW s \in Servers, Drained(s) PROVE IInv'
<1> USE LifecycleAssumption DEF process, schema, requests, tasks, crawl, Drained
<1>1. TypeOK'
  BY DEF IInv, TypeOK
<1>2. MainInv'
  BY DEF IInv, TypeOK, MainInv
<1>3. SchemaInv'
  BY DEF IInv, TypeOK, SchemaInv, Migrated
<1>4. DrainInv'
  BY DEF IInv, TypeOK, MainInv, DrainInv, InFlight, Held
<1>5. AnswerInv'
  BY DEF IInv, TypeOK, AnswerInv
<1>6. RunInv' /\ TryInv'
  BY DEF IInv, TypeOK, MainInv, AnswerInv, RunInv, TryInv
<1> QED
  BY <1>1, <1>2, <1>3, <1>4, <1>5, <1>6 DEF IInv

(* No task is taken any more.                                              *)
LEMMA ShutdownWorkersStep == ASSUME IInv, NEW s \in Servers, ShutdownWorkers(s) PROVE IInv'
<1> USE LifecycleAssumption DEF process, schema, requests, tasks, crawl, ShutdownWorkers
<1>1. TypeOK'
  BY DEF IInv, TypeOK
<1>2. MainInv'
  BY DEF IInv, TypeOK, MainInv
<1>3. SchemaInv'
  BY DEF IInv, TypeOK, SchemaInv, Migrated
<1>4. DrainInv'
  BY DEF IInv, TypeOK, MainInv, DrainInv, InFlight, Held
<1>5. AnswerInv'
  BY DEF IInv, TypeOK, AnswerInv
<1>6. RunInv' /\ TryInv'
  BY DEF IInv, TypeOK, MainInv, AnswerInv, RunInv, TryInv
<1> QED
  BY <1>1, <1>2, <1>3, <1>4, <1>5, <1>6 DEF IInv

(* No task is held any more.                                               *)
LEMMA WorkersStoppedStep == ASSUME IInv, NEW s \in Servers, WorkersStopped(s) PROVE IInv'
<1> USE LifecycleAssumption DEF process, schema, requests, tasks, crawl, WorkersStopped
<1>1. TypeOK'
  BY DEF IInv, TypeOK
<1>2. MainInv'
  BY DEF IInv, TypeOK, MainInv
<1>3. SchemaInv'
  BY DEF IInv, TypeOK, SchemaInv, Migrated
<1>4. DrainInv'
  BY DEF IInv, TypeOK, MainInv, DrainInv, InFlight, Held
<1>5. AnswerInv'
  BY DEF IInv, TypeOK, AnswerInv
<1>6. RunInv' /\ TryInv'
  BY DEF IInv, TypeOK, MainInv, AnswerInv, RunInv, TryInv
<1> QED
  BY <1>1, <1>2, <1>3, <1>4, <1>5, <1>6 DEF IInv

(* A process is told to stop.                                              *)
LEMMA SignalStep == ASSUME IInv, NEW s \in Servers, Signal(s) PROVE IInv'
<1> USE LifecycleAssumption DEF process, schema, requests, tasks, crawl, Signal, Trouble
<1>1. TypeOK'
  BY DEF IInv, TypeOK
<1>2. MainInv'
  BY DEF IInv, TypeOK, MainInv
<1>3. SchemaInv'
  BY DEF IInv, TypeOK, SchemaInv, Migrated
<1>4. DrainInv'
  BY DEF IInv, TypeOK, MainInv, DrainInv, InFlight, Held
<1>5. AnswerInv'
  BY DEF IInv, TypeOK, AnswerInv
<1>6. RunInv' /\ TryInv'
  BY DEF IInv, TypeOK, MainInv, AnswerInv, RunInv, TryInv
<1> QED
  BY <1>1, <1>2, <1>3, <1>4, <1>5, <1>6 DEF IInv

(* A request comes in.                                                     *)
LEMMA AcceptStep == ASSUME IInv, NEW s \in Servers, NEW t \in Tasks, Accept(s, t) PROVE IInv'
<1> USE LifecycleAssumption DEF process, schema, requests, tasks, crawl, Accept
<1>1. TypeOK'
  BY DEF IInv, TypeOK
<1>2. MainInv'
  BY DEF IInv, TypeOK, MainInv
<1>3. SchemaInv'
  BY DEF IInv, TypeOK, SchemaInv, Migrated
<1>4. DrainInv'
  BY DEF IInv, TypeOK, MainInv, DrainInv, InFlight, Held
<1>5. AnswerInv'
  BY DEF IInv, TypeOK, AnswerInv
<1>6. RunInv' /\ TryInv'
  BY DEF IInv, TypeOK, MainInv, AnswerInv, RunInv, TryInv
<1> QED
  BY <1>1, <1>2, <1>3, <1>4, <1>5, <1>6 DEF IInv

(* Its task is queued, and it is answered.                                 *)
LEMMA EnqueueStep == ASSUME IInv, NEW t \in Tasks, Enqueue(t) PROVE IInv'
<1> USE LifecycleAssumption DEF process, schema, requests, tasks, crawl, Enqueue
<1>1. TypeOK'
  BY DEF IInv, TypeOK
<1>2. MainInv'
  BY DEF IInv, TypeOK, MainInv
<1>3. SchemaInv'
  BY DEF IInv, TypeOK, SchemaInv, Migrated
<1>4. DrainInv'
  BY DEF IInv, TypeOK, MainInv, DrainInv, InFlight, Held
<1>5. AnswerInv'
  BY DEF IInv, TypeOK, AnswerInv
<1>6. RunInv' /\ TryInv'
  BY DEF IInv, TypeOK, MainInv, AnswerInv, RunInv, TryInv
<1> QED
  BY <1>1, <1>2, <1>3, <1>4, <1>5, <1>6 DEF IInv

(* A task that takes too long is put back.                                 *)
LEMMA RequeueStep == ASSUME IInv, NEW s \in Servers, NEW t \in Tasks, Requeue(s, t) PROVE IInv'
<1> USE LifecycleAssumption DEF process, schema, requests, tasks, crawl, Requeue, Owns, LeftToExpire, Trouble
<1>1. TypeOK'
  BY DEF IInv, TypeOK
<1>2. MainInv'
  BY DEF IInv, TypeOK, MainInv
<1>3. SchemaInv'
  BY DEF IInv, TypeOK, SchemaInv, Migrated
<1>4. DrainInv'
  BY DEF IInv, TypeOK, MainInv, DrainInv, InFlight, Held
<1>5. AnswerInv'
  BY DEF IInv, TypeOK, AnswerInv
<1>6. RunInv' /\ TryInv'
  BY DEF IInv, TypeOK, MainInv, AnswerInv, RunInv, TryInv
<1> QED
  BY <1>1, <1>2, <1>3, <1>4, <1>5, <1>6 DEF IInv

(* A task is taken.                                                        *)
LEMMA TakeStep == ASSUME IInv, NEW s \in Servers, NEW t \in Tasks, Take(s, t) PROVE IInv'
<1> USE LifecycleAssumption DEF process, schema, requests, tasks, crawl, Take
<1>1. TypeOK'
  BY DEF IInv, TypeOK
<1>2. MainInv'
  BY DEF IInv, TypeOK, MainInv
<1>3. SchemaInv'
  BY DEF IInv, TypeOK, SchemaInv, Migrated
<1>4. DrainInv'
  BY DEF IInv, TypeOK, MainInv, DrainInv, InFlight, Held
<1>5. AnswerInv'
  BY DEF IInv, TypeOK, AnswerInv
<1>6. RunInv' /\ TryInv'
  BY DEF IInv, TypeOK, MainInv, AnswerInv, RunInv, TryInv
<1> QED
  BY <1>1, <1>2, <1>3, <1>4, <1>5, <1>6 DEF IInv

(* A handler returns.                                                      *)
LEMMA FinishStep == ASSUME IInv, NEW s \in Servers, NEW t \in Tasks, Finish(s, t) PROVE IInv'
<1> USE LifecycleAssumption DEF process, schema, requests, tasks, crawl, Finish, Owns, Report, Retry, LeftToExpire, Trouble
<1>1. TypeOK'
  BY DEF IInv, TypeOK
<1>2. MainInv'
  BY DEF IInv, TypeOK, MainInv
<1>3. SchemaInv'
  BY DEF IInv, TypeOK, SchemaInv, Migrated
<1>4. DrainInv'
  BY DEF IInv, TypeOK, MainInv, DrainInv, InFlight, Held
<1>5. AnswerInv'
  BY DEF IInv, TypeOK, AnswerInv
<1>6. RunInv' /\ TryInv'
  BY DEF IInv, TypeOK, MainInv, AnswerInv, RunInv, TryInv
<1> QED
  BY <1>1, <1>2, <1>3, <1>4, <1>5, <1>6 DEF IInv

(* The time of a try is up.                                                *)
LEMMA TimesOutStep == ASSUME IInv, NEW s \in Servers, NEW t \in Tasks, TimesOut(s, t) PROVE IInv'
<1> USE LifecycleAssumption DEF process, schema, requests, tasks, crawl, TimesOut, Owns, Retry
<1>1. TypeOK'
  BY DEF IInv, TypeOK
<1>2. MainInv'
  BY DEF IInv, TypeOK, MainInv
<1>3. SchemaInv'
  BY DEF IInv, TypeOK, SchemaInv, Migrated
<1>4. DrainInv'
  BY DEF IInv, TypeOK, MainInv, DrainInv, InFlight, Held
<1>5. AnswerInv'
  BY DEF IInv, TypeOK, AnswerInv
<1>6. RunInv' /\ TryInv'
  BY DEF IInv, TypeOK, MainInv, AnswerInv, RunInv, TryInv
<1> QED
  BY <1>1, <1>2, <1>3, <1>4, <1>5, <1>6 DEF IInv

(* A lease is not extended any more.                                       *)
LEMMA LeaseLostStep == ASSUME IInv, NEW s \in Servers, NEW t \in Tasks, LeaseLost(s, t) PROVE IInv'
<1> USE LifecycleAssumption DEF process, schema, requests, tasks, crawl, LeaseLost, Owns, LeftToExpire, Trouble
<1>1. TypeOK'
  BY DEF IInv, TypeOK
<1>2. MainInv'
  BY DEF IInv, TypeOK, MainInv
<1>3. SchemaInv'
  BY DEF IInv, TypeOK, SchemaInv, Migrated
<1>4. DrainInv'
  BY DEF IInv, TypeOK, MainInv, DrainInv, InFlight, Held
<1>5. AnswerInv'
  BY DEF IInv, TypeOK, AnswerInv
<1>6. RunInv' /\ TryInv'
  BY DEF IInv, TypeOK, MainInv, AnswerInv, RunInv, TryInv
<1> QED
  BY <1>1, <1>2, <1>3, <1>4, <1>5, <1>6 DEF IInv

(* A lease has expired.                                                    *)
LEMMA RecoverStep == ASSUME IInv, NEW s \in Servers, NEW t \in Tasks, Recover(s, t) PROVE IInv'
<1> USE LifecycleAssumption DEF process, schema, requests, tasks, crawl, Recover, Retry
<1>1. TypeOK'
  BY DEF IInv, TypeOK
<1>2. MainInv'
  BY DEF IInv, TypeOK, MainInv
<1>3. SchemaInv'
  BY DEF IInv, TypeOK, SchemaInv, Migrated
<1>4. DrainInv'
  BY DEF IInv, TypeOK, MainInv, DrainInv, InFlight, Held
<1>5. AnswerInv'
  BY DEF IInv, TypeOK, AnswerInv
<1>6. RunInv' /\ TryInv'
  BY DEF IInv, TypeOK, MainInv, AnswerInv, RunInv, TryInv
<1> QED
  BY <1>1, <1>2, <1>3, <1>4, <1>5, <1>6 DEF IInv

(* The lock is taken and a migration begun, or there is none left; a mark  *)
(* that was left behind ends the process.                                  *)
LEMMA MigrateStep == ASSUME IInv, NEW s \in Servers, Migrate(s) PROVE IInv'
<1>1. CASE Die(s)
  <2>1. trouble' \in 0..MaxTrouble
    BY DEF IInv, TypeOK, Migrate
  <2> QED
    BY <1>1, <2>1, DieStep
<1>2. CASE ~Die(s)
  <2> USE LifecycleAssumption DEF process, schema, requests, tasks, crawl, Goto
  <2>0. /\ main[s] = "boot" /\ migrator \in {NoServer, s}
        /\ \/ /\ Migrated /\ migrator' = NoServer /\ main' = [main EXCEPT ![s] = "migrated"]
              /\ UNCHANGED <<version, dirty>>
           \/ /\ version < LastVersion /\ ~dirty
              /\ version' = version + 1 /\ dirty' = TRUE /\ migrator' = s
              /\ main' = [main EXCEPT ![s] = "migrating"]
        /\ UNCHANGED <<cancelled, serve, shut, worker, requests, tasks, crawl, trouble>>
    BY <1>2 DEF Migrate
  <2>1. TypeOK'
    <3>1. version' \in 0..LastVersion
      BY <2>0 DEF IInv, TypeOK
    <3>2. dirty' \in BOOLEAN
      BY <2>0 DEF IInv, TypeOK
    <3>3. main' \in [Servers -> {"off", "boot", "migrating", "marking", "migrated", "workers", "waiting"}]
      BY <2>0 DEF IInv, TypeOK
    <3>4. migrator' \in Servers \union {NoServer}
      BY <2>0 DEF IInv, TypeOK
    <3> QED
      BY <2>0, <3>1, <3>2, <3>3, <3>4 DEF IInv, TypeOK
  <2>2. MainInv'
    BY <2>0 DEF IInv, TypeOK, MainInv
  <2>3. SchemaInv'
    BY <2>0 DEF IInv, TypeOK, SchemaInv, Migrated
  <2>4. DrainInv'
    BY <2>0 DEF IInv, DrainInv, InFlight, Held
  <2>5. AnswerInv'
    BY <2>0 DEF IInv, AnswerInv
  <2>6. RunInv' /\ TryInv'
    BY <2>0 DEF IInv, RunInv, TryInv
  <2> QED
    BY <2>1, <2>2, <2>3, <2>4, <2>5, <2>6 DEF IInv
<1> QED
  BY <1>1, <1>2

(* Nothing that depends on the rates is in the invariant.                  *)
LEMMA CrawlStep ==
  ASSUME IInv, rates' \in {"none", "empty", "partial", "filled"}, crawler' \in {"idle", "emptied"},
         trouble' \in 0..MaxTrouble, UNCHANGED <<process, schema, requests, tasks>>
  PROVE  IInv'
<1> USE DEF process, schema, requests, tasks
<1>1. TypeOK'
  BY DEF IInv, TypeOK
<1>2. MainInv' /\ SchemaInv' /\ DrainInv'
  BY DEF IInv, MainInv, SchemaInv, Migrated, DrainInv, InFlight, Held
<1>3. AnswerInv' /\ RunInv' /\ TryInv'
  BY DEF IInv, AnswerInv, RunInv, TryInv
<1> QED
  BY <1>1, <1>2, <1>3 DEF IInv

-----------------------------------------------------------------------------
(* The invariant holds in the initial state.                               *)
LEMMA Initially == Init => IInv
<1> SUFFICES ASSUME Init PROVE IInv
  OBVIOUS
<1> USE LifecycleAssumption DEF Init
<1>1. TypeOK
  <2>1. version \in 0..LastVersion /\ trouble \in 0..MaxTrouble
    OBVIOUS
  <2>2. retried \in [Tasks -> 0..MaxRetry]
    OBVIOUS
  <2>3. dirty \in BOOLEAN /\ cancelled \in [Servers -> BOOLEAN]
    OBVIOUS
  <2> QED
    BY <2>1, <2>2, <2>3 DEF TypeOK
<1>2. MainInv /\ SchemaInv /\ DrainInv
  BY DEF MainInv, SchemaInv, DrainInv
<1>3. AnswerInv /\ RunInv /\ TryInv
  BY DEF AnswerInv, RunInv, TryInv
<1> QED
  BY <1>1, <1>2, <1>3 DEF IInv

(* Every step keeps it.                                                    *)
LEMMA NextStep == IInv /\ [Next]_vars => IInv'
<1> SUFFICES ASSUME IInv, [Next]_vars PROVE IInv'
  OBVIOUS
<1>t. trouble \in 0..MaxTrouble /\ (Trouble => trouble' \in 0..MaxTrouble)
  BY LifecycleAssumption DEF IInv, TypeOK, Trouble
<1>1. ASSUME NEW s \in Servers, Run(s) PROVE IInv'
  <2>1. CASE Exit(s)
    BY <1>t, <2>1, DieStep DEF Exit
  <2> QED
    BY <1>1, <2>1, StartStep, MigrateStep, RunMigrationStep, MarkMigrationStep, StartProcessorStep,
       StartServerStep, ListenAndServeStep DEF Run
<1>2. ASSUME NEW s \in Servers, StopServer(s) \/ StopWorkers(s) PROVE IInv'
  BY <1>2, ShutdownServerStep, DrainedStep, ShutdownWorkersStep, WorkersStoppedStep
     DEF StopServer, StopWorkers
<1>3. ASSUME NEW s \in Servers, GoesWrong(s) PROVE IInv'
  <2>1. CASE Fatal(s) \/ Kill(s)
    BY <1>t, <2>1, DieStep DEF Fatal, Kill
  <2> QED
    BY <1>3, <2>1, ServeFailsStep, SignalStep DEF GoesWrong
<1>4. ASSUME NEW s \in Servers, NEW t \in Tasks,
             \/ Accept(s, t) \/ Requeue(s, t) \/ Take(s, t) \/ Finish(s, t)
             \/ TimesOut(s, t) \/ LeaseLost(s, t) \/ Recover(s, t)
      PROVE  IInv'
  BY <1>4, AcceptStep, RequeueStep, TakeStep, FinishStep, TimesOutStep, LeaseLostStep, RecoverStep
<1>5. ASSUME NEW t \in Tasks, Enqueue(t) PROVE IInv'
  BY <1>5, EnqueueStep
<1>6. CASE Truncate \/ Insert \/ CrawlFails
  <2>1. /\ rates' \in {"none", "empty", "partial", "filled"} /\ crawler' \in {"idle", "emptied"}
        /\ trouble' \in 0..MaxTrouble /\ UNCHANGED <<process, schema, requests, tasks>>
    BY <1>t, <1>6 DEF Truncate, Insert, CrawlFails
  <2> QED
    BY <2>1, CrawlStep
<1>7. CASE UNCHANGED vars
  <2>1. /\ rates' \in {"none", "empty", "partial", "filled"} /\ crawler' \in {"idle", "emptied"}
        /\ trouble' \in 0..MaxTrouble /\ UNCHANGED <<process, schema, requests, tasks>>
    BY <1>t, <1>7 DEF vars, crawl, IInv, TypeOK
  <2> QED
    BY <2>1, CrawlStep
<1> QED
  BY <1>1, <1>2, <1>3, <1>4, <1>5, <1>6, <1>7 DEF Next

(* The inductive invariant: goroutines and main, lock and schema, tasks    *)
(* and who took them, handlers and the tries that were counted (main.go,   *)
(* processor.go).                                                          *)
THEOREM Invariance == Spec => []IInv
<1> QED
  BY Initially, NextStep, PTL DEF Spec

(* The variables of Lifecycle have their types.                            *)
THEOREM TypeCorrect == Spec => []TypeOK
<1>1. IInv => TypeOK
  BY DEF IInv
<1> QED
  BY <1>1, Invariance, PTL

(* No process serves or works before the schema is complete (runDBMigration*)
(* in main.go), whoever else migrates, dies or finds a mark.               *)
THEOREM SchemaIsWhole == Spec => []WholeSchema
<1>1. IInv => WholeSchema
  BY DEF IInv, MainInv, SchemaInv, WholeSchema, TypeOK
<1> QED
  BY <1>1, Invariance, PTL

(* A process that serves also works (runTaskProcessor before runGinServer).*)
THEOREM ServersWork == Spec => []WorksWhileServing
<1>1. IInv => WorksWhileServing
  BY DEF IInv, MainInv, WorksWhileServing, TypeOK
<1> QED
  BY <1>1, Invariance, PTL

(* Handlers of one task overlap for as many tries as were counted, unless  *)
(* a process that was told to stop has a part in it (Requeue).             *)
THEOREM OverlapsAreCounted == Spec => []OneRunPerTry
<1>1. IInv => OneRunPerTry
  <2> SUFFICES ASSUME IInv, NEW x \in running, NEW y \in running, x[2] = y[2], x # y,
                      ~cancelled[x[1]], ~cancelled[y[1]], x[3] = y[3]
               PROVE  FALSE
    BY DEF OneRunPerTry
  <2>1. /\ x = <<x[1], x[2], x[3]>> /\ y = <<y[1], y[2], y[3]>>
        /\ x[1] \in Servers /\ y[1] \in Servers /\ x[2] \in Tasks /\ x[3] \in 0..MaxRetry
    BY DEF IInv, TypeOK
  <2>2. x[1] = y[1]
    BY <2>1 DEF IInv, TryInv
  <2> QED
    BY <2>1, <2>2
<1> QED
  BY <1>1, Invariance, PTL

(* A process that ends by itself cuts off no request and has no task of    *)
(* its own left but those whose lease is to expire (the error group of     *)
(* main.go waits for both shutdowns).                                      *)
THEOREM ExitsAreClean == Spec => ExitsClean
<1>1. IInv /\ [Next]_vars =>
        \A s \in Servers :
          main[s] = "waiting" /\ main'[s] = "off" /\ trouble' = trouble
            => InFlight(s) = {} /\ Held(s) \subseteq expiring
  <2> SUFFICES ASSUME IInv, [Next]_vars, NEW s \in Servers,
                      main[s] = "waiting", main'[s] = "off", trouble' = trouble
               PROVE  InFlight(s) = {} /\ Held(s) \subseteq expiring
    OBVIOUS
  <2>t. main \in [Servers -> {"off", "boot", "migrating", "marking", "migrated", "workers", "waiting"}]
        /\ trouble \in Nat
    BY LifecycleAssumption DEF IInv, TypeOK
  <2>1. ~Trouble
    BY <2>t DEF Trouble
  <2>2. CASE Exit(s)
    BY <2>2 DEF IInv, DrainInv, Exit
  <2>3. ASSUME NEW q \in Servers, Run(q), ~Exit(s) PROVE FALSE
    <3>1. CASE q = s
      BY <2>t, <2>3, <3>1 DEF Run, Start, Migrate, RunMigration, MarkMigration, StartProcessor,
         StartServer, ListenAndServe, Goto
    <3>2. CASE q # s
      BY <2>t, <2>3, <3>2 DEF Run, Start, Migrate, RunMigration, MarkMigration, StartProcessor,
         StartServer, ListenAndServe, Exit, Die, Goto
    <3> QED
      BY <3>1, <3>2
  <2>4. ASSUME NEW q \in Servers, StopServer(q) \/ StopWorkers(q) PROVE UNCHANGED main
    BY <2>4 DEF StopServer, StopWorkers, ShutdownServer, Drained, ShutdownWorkers, WorkersStopped
  <2>5. ASSUME NEW q \in Servers, GoesWrong(q) PROVE FALSE
    BY <2>1, <2>5 DEF GoesWrong, Fatal, ServeFails, Signal, Kill
  <2>6. ASSUME NEW q \in Servers, NEW t \in Tasks,
               \/ Accept(q, t) \/ Requeue(q, t) \/ Take(q, t) \/ Finish(q, t)
               \/ TimesOut(q, t) \/ LeaseLost(q, t) \/ Recover(q, t)
        PROVE  UNCHANGED main
    BY <2>6 DEF Accept, Requeue, Take, Finish, TimesOut, LeaseLost, Recover, process
  <2>7. ASSUME NEW t \in Tasks, Enqueue(t) PROVE UNCHANGED main
    BY <2>7 DEF Enqueue, process
  <2>8. CASE Truncate \/ Insert \/ CrawlFails \/ UNCHANGED vars
    BY <2>8 DEF Truncate, Insert, CrawlFails, vars, process
  <2> QED
    BY <2>2, <2>3, <2>4, <2>5, <2>6, <2>7, <2>8 DEF Next
<1> QED
  BY <1>1, Invariance, PTL DEF Spec, ExitsClean

(* The processes together implement the queue: what becomes of a task does *)
(* not show who took it, died with it, lost its lease or came back to it   *)
(* (Take, Requeue, Finish, TimesOut, LeaseLost and Recover stand for       *)
(* processor.go and asynq).                                                *)
THEOREM ProcessesImplementQueue == Spec => ImplementsTaskQueue
<1>1. Init => Queue!Init
  BY DEF Init, Queue!Init
<1>2. IInv /\ [Next]_vars => [Queue!Next]_(Queue!vars)
  <2> SUFFICES ASSUME IInv, Next PROVE Queue!Next \/ UNCHANGED <<queue, retried>>
    BY DEF vars, tasks, Queue!vars
  <2>1. ASSUME NEW t \in Tasks, queue[t] = "active", Retry(t) PROVE Queue!Fail(t)
    BY <2>1 DEF Retry, Queue!Fail, Queue!Move
  <2>2. ASSUME NEW t \in Tasks, Enqueue(t) PROVE Queue!Add(t) \/ UNCHANGED <<queue, retried>>
    BY <2>2 DEF Enqueue, IInv, AnswerInv, Queue!Add, Queue!Move
  <2>3. ASSUME NEW s \in Servers, NEW t \in Tasks, Take(s, t) PROVE Queue!Take(t)
    BY <2>3 DEF Take, Queue!Take, Queue!Move
  <2>4. ASSUME NEW s \in Servers, NEW t \in Tasks, Owns(s, t) PROVE queue[t] = "active"
    BY <2>4, LifecycleAssumption DEF IInv, AnswerInv, Owns
  <2>5. ASSUME NEW s \in Servers, NEW t \in Tasks, Requeue(s, t)
        PROVE  Queue!PutBack(t) \/ UNCHANGED <<queue, retried>>
    BY <2>4, <2>5 DEF Requeue, LeftToExpire, Queue!PutBack, Queue!Move
  <2>6. ASSUME NEW s \in Servers, NEW t \in Tasks, Finish(s, t)
        PROVE  Queue!Complete(t) \/ Queue!Fail(t) \/ UNCHANGED <<queue, retried>>
    <3>1. UNCHANGED <<queue, retried>> \/ (queue[t] = "active" /\ Report(t))
      BY <2>4, <2>6 DEF Finish
    <3> QED
      BY <2>1, <3>1 DEF Report, LeftToExpire, Queue!Complete, Queue!Move
  <2>11. ASSUME NEW s \in Servers, NEW t \in Tasks, TimesOut(s, t) \/ Recover(s, t)
         PROVE  Queue!Fail(t)
    <3>1. queue[t] = "active" /\ Retry(t)
      BY <2>4, <2>11 DEF TimesOut, Recover, IInv, AnswerInv
    <3> QED
      BY <2>1, <3>1
  <2>12. ASSUME NEW s \in Servers, NEW t \in Tasks, LeaseLost(s, t)
         PROVE  UNCHANGED <<queue, retried>>
    BY <2>12 DEF LeaseLost, LeftToExpire
  <2>7. ASSUME NEW s \in Servers, Run(s) PROVE UNCHANGED <<queue, retried>>
    BY <2>7 DEF Run, Start, Migrate, RunMigration, MarkMigration, StartProcessor, StartServer,
                ListenAndServe, Exit, Die, tasks
  <2>8. ASSUME NEW s \in Servers, StopServer(s) \/ StopWorkers(s) \/ GoesWrong(s)
        PROVE  UNCHANGED <<queue, retried>>
    BY <2>8 DEF StopServer, ShutdownServer, Drained, StopWorkers, ShutdownWorkers,
                WorkersStopped, GoesWrong, Fatal, ServeFails, Signal, Kill, Die, tasks
  <2>9. ASSUME NEW s \in Servers, NEW t \in Tasks, Accept(s, t) PROVE UNCHANGED <<queue, retried>>
    BY <2>9 DEF Accept, tasks
  <2>10. CASE Truncate \/ Insert \/ CrawlFails
    BY <2>10 DEF Truncate, Insert, CrawlFails, tasks
  <2> QED
    BY <2>2, <2>3, <2>5, <2>6, <2>7, <2>8, <2>9, <2>10, <2>11, <2>12 DEF Next, Queue!Next
<1> QED
  BY Invariance, <1>1, <1>2, PTL DEF Spec, ImplementsTaskQueue, Queue!Spec
=============================================================================
