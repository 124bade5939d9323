----------------------------- MODULE Lifecycle -----------------------------
(***************************************************************************)
(* The life of a server process (main.go) among others of its kind: it     *)
(* migrates the database, runs the workers of the task queue               *)
(* (worker/processor.go), serves requests, and shuts both down on a signal *)
(* or when it cannot listen; it may be killed at any point, and is started *)
(* again.  With it, what outlives it: the version of the schema, the queue *)
(* of the tasks that sendOTP adds (what a run of a task does is the        *)
(* subject of OTP), and the table of rates that the daily crawl fills      *)
(* (crawl/crawl.py; whom it meets while it does is told in CreateTransfer).*)
(*                                                                         *)
(* External, and modelled from how main.go uses them: golang-migrate (an   *)
(* advisory lock, and a mark "dirty" around every migration), net/http     *)
(* (Shutdown closes the listener and waits for the connections in use,     *)
(* without a deadline), errgroup, and asynq: a task is leased to the       *)
(* process that takes it, which extends the lease while a run goes on.     *)
(* The run fails when its time is up, and Shutdown puts it back after some *)
(* seconds, with the handler still at work.  A lease that nobody extends   *)
(* (the process is gone, its heartbeat fell behind, or a call that was to  *)
(* end the lease failed) expires, and the task is run again.               *)
(***************************************************************************)
EXTENDS Integers, FiniteSets

CONSTANTS
  Servers,
  Tasks,              \* tasks, each queued by a request of its own
  MaxRetry,           \* asynq.MaxRetry
  LastVersion,        \* the number of files *.up.sql
  CurrenciesVersion,  \* the one that makes table currencies
  MaxTrouble,         \* bound of signals, kills and failures of other kinds
  NoServer

ASSUME LifecycleAssumption ==
  /\ MaxRetry \in Nat /\ MaxTrouble \in Nat
  /\ LastVersion \in Nat \ {0} /\ CurrenciesVersion \in 1..LastVersion
  /\ NoServer \notin Servers

VARIABLES
  main,       \* how far main() has come
  cancelled,  \* ctx is done
  serve,      \* the goroutine that calls ListenAndServe
  shut,       \* the goroutine that shuts the HTTP server down
  worker,     \* the workers, and the goroutine that shuts them down
  version, dirty, migrator,  \* the schema, and who holds the lock on it
  at,         \* the server that handles the request for a task
  answer,     \* the answer to that request
  queue,      \* the task in the queue
  holder,     \* the process that took an active task
  expiring,   \* active tasks whose lease nobody extends
  retried,    \* how many runs of a task failed
  running,    \* <<server, task, retried>>: handlers that run, and for which try
  rates,      \* the table currencies
  crawler,    \* the next step of the crawl
  trouble     \* how much has gone wrong

process == <<main, cancelled, serve, shut, worker>>
schema == <<version, dirty, migrator>>
requests == <<at, answer>>
tasks == <<queue, holder, expiring, retried, running>>
crawl == <<rates, crawler>>
vars == <<process, schema, requests, tasks, crawl, trouble>>

InFlight(s) == {t \in Tasks : at[t] = s}
Held(s) == {t \in Tasks : holder[t] = s}
Owns(s, t) == holder[t] = s /\ t \notin expiring
Migrated == version = LastVersion /\ ~dirty

Init ==
  /\ main = [s \in Servers |-> "off"]
  /\ cancelled = [s \in Servers |-> FALSE]
  /\ serve = [s \in Servers |-> "off"]
  /\ shut = [s \in Servers |-> "off"]
  /\ worker = [s \in Servers |-> "off"]
  /\ version = 0
  /\ dirty = FALSE
  /\ migrator = NoServer
  /\ at = [t \in Tasks |-> NoServer]
  /\ answer = [t \in Tasks |-> "none"]
  /\ queue = [t \in Tasks |-> "none"]
  /\ holder = [t \in Tasks |-> NoServer]
  /\ expiring = {}
  /\ retried = [t \in Tasks |-> 0]
  /\ running = {}
  /\ rates = "none"
  /\ crawler = "idle"
  /\ trouble = 0

-----------------------------------------------------------------------------
Goto(s, to) == main' = [main EXCEPT ![s] = to]

Trouble == trouble < MaxTrouble /\ trouble' = trouble + 1

(* Something fails, and nobody extends the lease of a task any more.       *)
LeftToExpire(t) ==
  /\ expiring' = expiring \union {t}
  /\ Trouble
  /\ UNCHANGED <<queue, holder, retried>>

(* The process ends, whatever it was doing.                                *)
Die(s) ==
  /\ Goto(s, "off")
  /\ cancelled' = [cancelled EXCEPT ![s] = FALSE]
  /\ serve' = [serve EXCEPT ![s] = "off"]
  /\ shut' = [shut EXCEPT ![s] = "off"]
  /\ worker' = [worker EXCEPT ![s] = "off"]
  /\ migrator' = IF migrator = s THEN NoServer ELSE migrator
  /\ at' = [t \in Tasks |-> IF at[t] = s THEN NoServer ELSE at[t]]
  /\ answer' = [t \in Tasks |-> IF at[t] = s THEN "cut" ELSE answer[t]]
  /\ holder' = [t \in Tasks |-> IF holder[t] = s THEN NoServer ELSE holder[t]]
  /\ expiring' = expiring \union Held(s)
  /\ running' = {x \in running : x[1] # s}
  /\ UNCHANGED <<version, dirty, queue, retried, crawl>>

(* The deployment starts it (again).                                       *)
Start(s) ==
  /\ main[s] = "off"
  /\ Goto(s, "boot")
  /\ UNCHANGED <<cancelled, serve, shut, worker, schema, requests, tasks, crawl, trouble>>

(* LoadConfig, pgxpool.New, migrate.New, a migration, Start or NewServer   *)
(* fails: log.Fatal.  By the last one the workers are at work already.     *)
Fatal(s) ==
  /\ main[s] \in {"boot", "migrating", "marking", "migrated", "workers"}
  /\ Die(s)
  /\ Trouble

(* migration.Up(): one migration after the other, under the lock, each     *)
(* marked as dirty first.  A mark that somebody left behind is fatal.      *)
SlipMigrate(s) ==           \* a slip: the error of Up is logged, not fatal
  /\ main[s] = "boot"
  /\ migrator \in {NoServer, s}
  /\ migrator' = NoServer
  /\ Goto(s, "migrated")
  /\ UNCHANGED <<cancelled, serve, shut, worker, version, dirty, requests, tasks, crawl, trouble>>

Migrate(s) ==
  /\ main[s] = "boot"
  /\ migrator \in {NoServer, s}
  /\ \/ dirty /\ Die(s)
     \/ /\ Migrated
        /\ migrator' = NoServer
        /\ Goto(s, "migrated")
        /\ UNCHANGED <<cancelled, serve, shut, worker, version, dirty, requests, tasks, crawl>>
     \/ /\ version < LastVersion /\ ~dirty
        /\ version' = version + 1 /\ dirty' = TRUE /\ migrator' = s
        /\ Goto(s, "migrating")
        /\ UNCHANGED <<cancelled, serve, shut, worker, requests, tasks, crawl>>
  /\ UNCHANGED trouble

RunMigration(s) ==
  /\ main[s] = "migrating"
  /\ rates' = IF version = CurrenciesVersion THEN "empty" ELSE rates
  /\ Goto(s, "marking")
  /\ UNCHANGED <<cancelled, serve, shut, worker, schema, requests, tasks, crawler, trouble>>

MarkMigration(s) ==
  /\ main[s] = "marking"
  /\ dirty' = FALSE
  /\ Goto(s, "boot")
  /\ UNCHANGED <<cancelled, serve, shut, worker, version, migrator, requests, tasks, crawl, trouble>>

(* runTaskProcessor: the workers start, and a goroutine waits for ctx.     *)
StartProcessor(s) ==
  /\ main[s] = "migrated"
  /\ worker' = [worker EXCEPT ![s] = "running"]
  /\ Goto(s, "workers")
  /\ UNCHANGED <<cancelled, serve, shut, schema, requests, tasks, crawl, trouble>>

(* runGinServer starts its two goroutines, and main waits for all three.   *)
StartServer(s) ==
  /\ main[s] = "workers"
  /\ serve' = [serve EXCEPT ![s] = "start"]
  /\ shut' = [shut EXCEPT ![s] = "wait"]
  /\ Goto(s, "waiting")
  /\ UNCHANGED <<cancelled, worker, schema, requests, tasks, crawl, trouble>>

(* ListenAndServe: ErrServerClosed if Shutdown was called before it.       *)
ListenAndServe(s) ==
  /\ serve[s] = "start"
  /\ serve' = [serve EXCEPT ![s] = IF shut[s] = "wait" THEN "accepting" ELSE "closed"]
  /\ UNCHANGED <<main, cancelled, shut, worker, schema, requests, tasks, crawl, trouble>>

(* Any other error of it, at once or of a later Accept, is the error of    *)
(* the group, which cancels ctx.                                           *)
SlipServeFails(s) ==        \* a slip: return nil
  /\ serve[s] \in {"start", "accepting"} /\ shut[s] = "wait"
  /\ serve' = [serve EXCEPT ![s] = "failed"]
  /\ Trouble
  /\ UNCHANGED <<main, cancelled, shut, worker, schema, requests, tasks, crawl>>

ServeFails(s) ==
  /\ serve[s] \in {"start", "accepting"} /\ shut[s] = "wait"
  /\ serve' = [serve EXCEPT ![s] = "failed"]
  /\ cancelled' = [cancelled EXCEPT ![s] = TRUE]
  /\ Trouble
  /\ UNCHANGED <<main, shut, worker, schema, requests, tasks, crawl>>

(* httpServer.Shutdown: the listener closes, ListenAndServe returns ...    *)
ShutdownServer(s) ==
  /\ shut[s] = "wait" /\ cancelled[s]
  /\ shut' = [shut EXCEPT ![s] = "draining"]
  /\ serve' = [serve EXCEPT ![s] = IF @ = "accepting" THEN "closed" ELSE @]
  /\ UNCHANGED <<main, cancelled, worker, schema, requests, tasks, crawl, trouble>>

(* ... and the connections in use are waited for, as long as it takes: the *)
(* context of Shutdown has no deadline, and server.New sets no timeouts.   *)
Drained(s) ==
  /\ shut[s] = "draining" /\ InFlight(s) = {}
  /\ shut' = [shut EXCEPT ![s] = "done"]
  /\ UNCHANGED <<main, cancelled, serve, worker, schema, requests, tasks, crawl, trouble>>

(* taskProcessor.Shutdown: no more tasks are taken ...                     *)
SlipShutdownWorkers(s) ==   \* a slip: no <-ctx.Done()
  /\ worker[s] = "running"
  /\ worker' = [worker EXCEPT ![s] = "stopping"]
  /\ UNCHANGED <<main, cancelled, serve, shut, schema, requests, tasks, crawl, trouble>>

ShutdownWorkers(s) ==
  /\ worker[s] = "running" /\ cancelled[s]
  /\ worker' = [worker EXCEPT ![s] = "stopping"]
  /\ UNCHANGED <<main, cancelled, serve, shut, schema, requests, tasks, crawl, trouble>>

(* ... those that run for too long are put back (or the call fails, and    *)
(* the lease expires) while their handlers go on ...                       *)
Requeue(s, t) ==
  /\ worker[s] = "stopping" /\ Owns(s, t)
  /\ \/ /\ queue' = [queue EXCEPT ![t] = "queued"]
        /\ holder' = [holder EXCEPT ![t] = NoServer]
        /\ UNCHANGED <<expiring, retried, trouble>>
     \/ LeftToExpire(t)
  /\ UNCHANGED <<process, schema, requests, running, crawl>>

(* ... and it returns when no task is worked on for the queue.             *)
WorkersStopped(s) ==
  /\ worker[s] = "stopping" /\ Held(s) \subseteq expiring
  /\ worker' = [worker EXCEPT ![s] = "stopped"]
  /\ UNCHANGED <<main, cancelled, serve, shut, schema, requests, tasks, crawl, trouble>>

(* waitGroup.Wait(); main returns, or it is log.Fatal for an error.        *)
SlipExit(s) ==              \* a slip: main waits for ListenAndServe and the workers only
  /\ main[s] = "waiting"
  /\ serve[s] \in {"closed", "failed"} /\ worker[s] = "stopped"
  /\ Die(s)
  /\ UNCHANGED trouble

SlipExitAtWork(s) ==        \* a slip: main waits for the HTTP server only
  /\ main[s] = "waiting"
  /\ serve[s] \in {"closed", "failed"} /\ shut[s] = "done"
  /\ Die(s)
  /\ UNCHANGED trouble

Exit(s) ==
  /\ main[s] = "waiting"
  /\ serve[s] \in {"closed", "failed"} /\ shut[s] = "done" /\ worker[s] = "stopped"
  /\ Die(s)
  /\ UNCHANGED trouble

(* SIGINT or SIGTERM, which NotifyContext catches; a second one has no     *)
(* effect.                                                                 *)
Signal(s) ==
  /\ main[s] # "off" /\ ~cancelled[s]
  /\ cancelled' = [cancelled EXCEPT ![s] = TRUE]
  /\ Trouble
  /\ UNCHANGED <<main, serve, shut, worker, schema, requests, tasks, crawl>>

(* SIGKILL, a signal before NotifyContext, or the machine fails.           *)
Kill(s) ==
  /\ main[s] # "off"
  /\ Die(s)
  /\ Trouble

-----------------------------------------------------------------------------
(* A request for a code, and its task.  Its client may send half of it and *)
(* stall: then it stays in flight.                                         *)
Accept(s, t) ==
  /\ serve[s] = "accepting"
  /\ answer[t] = "none" /\ at[t] = NoServer
  /\ at' = [at EXCEPT ![t] = s]
  /\ UNCHANGED <<process, schema, answer, tasks, crawl, trouble>>

(* It is read and answered: DistributeTaskSendVerifyEmail, whose error may *)
(* hide a queued task, or an error before.                                 *)
Enqueue(t) ==
  /\ at[t] # NoServer
  /\ at' = [at EXCEPT ![t] = NoServer]
  /\ \/ queue' = [queue EXCEPT ![t] = "queued"] /\ answer' = [answer EXCEPT ![t] = "ok"]
     \/ queue' = [queue EXCEPT ![t] = "queued"] /\ answer' = [answer EXCEPT ![t] = "error"]
     \/ UNCHANGED queue /\ answer' = [answer EXCEPT ![t] = "error"]
  /\ UNCHANGED <<process, schema, holder, expiring, retried, running, crawl, trouble>>

(* A worker takes the task and calls ProcessTaskSendVerifyEmail.           *)
Take(s, t) ==
  /\ worker[s] = "running" /\ queue[t] = "queued"
  /\ queue' = [queue EXCEPT ![t] = "active"]
  /\ holder' = [holder EXCEPT ![t] = s]
  /\ running' = running \union {<<s, t, retried[t]>>}
  /\ UNCHANGED <<process, schema, requests, expiring, retried, crawl, trouble>>


SlipRetryOnceMore(t) ==     \* a slip: MaxRetry is taken for the number of runs after the next
  /\ holder' = [holder EXCEPT ![t] = NoServer]
  /\ expiring' = expiring \ {t}
  /\ retried' = [retried EXCEPT ![t] = @ + 1]
  /\ queue' = [queue EXCEPT ![t] = IF retried[t] <= MaxRetry THEN "queued" ELSE "archived"]

Retry(t) ==
  /\ holder' = [holder EXCEPT ![t] = NoServer]
  /\ expiring' = expiring \ {t}
  /\ \/ /\ retried[t] < MaxRetry
        /\ queue' = [queue EXCEPT ![t] = "queued"]
        /\ retried' = [retried EXCEPT ![t] = @ + 1]
     \/ /\ retried[t] = MaxRetry
        /\ queue' = [queue EXCEPT ![t] = "archived"]
        /\ UNCHANGED retried

(* The queue is told how a try ended, or the call fails.                   *)
Report(t) ==
  \/ Retry(t) /\ UNCHANGED trouble
  \/ LeftToExpire(t)
  \/ /\ queue' = [queue EXCEPT ![t] = "done"]
     /\ holder' = [holder EXCEPT ![t] = NoServer]
     /\ UNCHANGED <<expiring, retried, trouble>>

(* The handler of a try returns, whether or not the task is still leased   *)
(* for this try.                                                           *)
Finish(s, t) ==
  /\ \E try \in 0..MaxRetry :
       /\ <<s, t, try>> \in running
       /\ running' = running \ {<<s, t, try>>}
       /\ IF Owns(s, t) /\ try = retried[t]
            THEN Report(t)
            ELSE UNCHANGED <<queue, holder, expiring, retried, trouble>>
  /\ UNCHANGED <<process, schema, requests, crawl>>

(* The default timeout, since sendOTP sets none: the try has failed, but   *)
(* its handler, which may hang in SMTP, goes on.                           *)
TimesOut(s, t) ==
  /\ Owns(s, t)
  /\ Retry(t)
  /\ UNCHANGED <<process, schema, requests, running, crawl, trouble>>

(* The heartbeat falls behind, or the queue is not told of the timeout; in *)
(* either case the handler goes on.                                        *)
LeaseLost(s, t) ==
  /\ Owns(s, t)
  /\ LeftToExpire(t)
  /\ UNCHANGED <<process, schema, requests, running, crawl>>

(* A lease has expired; any process that has workers sees it.              *)
Recover(s, t) ==
  /\ worker[s] \in {"running", "stopping"} /\ t \in expiring
  /\ Retry(t)
  /\ UNCHANGED <<process, schema, requests, running, crawl, trouble>>

-----------------------------------------------------------------------------
(* The daily crawl.  Before the migration it fails: its own CREATE TABLE   *)
(* has a DEFAULT that PostgreSQL refuses.                                  *)
Truncate ==
  /\ crawler = "idle" /\ rates # "none"
  /\ rates' = "empty"
  /\ crawler' = "emptied"
  /\ UNCHANGED <<process, schema, requests, tasks, trouble>>

SlipInsert ==               \* a slip: the last conn.commit() is missing
  /\ crawler = "emptied"
  /\ crawler' = "idle"
  /\ UNCHANGED <<process, schema, requests, tasks, rates, trouble>>

Insert ==
  /\ crawler = "emptied"
  /\ rates' = "filled"
  /\ crawler' = "idle"
  /\ UNCHANGED <<process, schema, requests, tasks, trouble>>

(* The page lacks a currency: wait-for-data.sh fails, and the job with it; *)
(* or the crawl ends between its two commits.  Either way it is run again, *)
(* at the latest the next midnight.                                        *)
CrawlFails ==
  /\ crawler = "emptied"
  /\ rates' \in {"empty", "partial"}
  /\ crawler' = "idle"
  /\ Trouble
  /\ UNCHANGED <<process, schema, requests, tasks>>

-----------------------------------------------------------------------------
Run(s) ==
  \/ Start(s)
  \/ Migrate(s)
  \/ RunMigration(s)
  \/ MarkMigration(s)
  \/ StartProcessor(s)
  \/ StartServer(s)
  \/ ListenAndServe(s)
  \/ Exit(s)

StopServer(s) ==
  \/ ShutdownServer(s)
  \/ Drained(s)

StopWorkers(s) ==
  \/ ShutdownWorkers(s)
  \/ WorkersStopped(s)

GoesWrong(s) ==
  \/ Fatal(s)
  \/ ServeFails(s)
  \/ Signal(s)
  \/ Kill(s)

Next ==
  \/ \E s \in Servers : Run(s) \/ StopServer(s) \/ StopWorkers(s) \/ GoesWrong(s)
  \/ \E s \in Servers, t \in Tasks :
       \/ Accept(s, t)
       \/ Requeue(s, t)
       \/ Take(s, t)
       \/ Finish(s, t)
       \/ TimesOut(s, t)
       \/ LeaseLost(s, t)
       \/ Recover(s, t)
  \/ \E t \in Tasks : Enqueue(t)
  \/ Truncate
  \/ Insert
  \/ CrawlFails

Spec == Init /\ [][Next]_vars

(* A process that can go on does, the deployment starts what is off, runs  *)
(* of tasks time out, the queue is polled and midnight comes.  Nothing is  *)
(* assumed of clients, who may stall for ever in the middle of a request,  *)
(* of the handlers of tasks, of signals and of failures.                   *)
Fairness ==
  /\ \A s \in Servers : WF_vars(Run(s) \/ StopServer(s) \/ StopWorkers(s))
  /\ \A t \in Tasks :
       /\ WF_vars(\E s \in Servers : TimesOut(s, t))
       /\ WF_vars(\E s \in Servers : Take(s, t))
       /\ WF_vars(\E s \in Servers : Recover(s, t))
  /\ WF_vars(Truncate \/ Insert)

FairSpec == Spec /\ Fairness

-----------------------------------------------------------------------------
(* Properties.                                                             *)
TypeOK ==
  /\ main \in [Servers -> {"off", "boot", "migrating", "marking", "migrated", "workers", "waiting"}]
  /\ cancelled \in [Servers -> BOOLEAN]
  /\ serve \in [Servers -> {"off", "start", "accepting", "closed", "failed"}]
  /\ shut \in [Servers -> {"off", "wait", "draining", "done"}]
  /\ worker \in [Servers -> {"off", "running", "stopping", "stopped"}]
  /\ version \in 0..LastVersion
  /\ dirty \in BOOLEAN
  /\ migrator \in Servers \union {NoServer}
  /\ at \in [Tasks -> Servers \union {NoServer}]
  /\ answer \in [Tasks -> {"none", "ok", "error", "cut"}]
  /\ queue \in [Tasks -> {"none", "queued", "active", "done", "archived"}]
  /\ holder \in [Tasks -> Servers \union {NoServer}]
  /\ expiring \subseteq Tasks
  /\ retried \in [Tasks -> 0..MaxRetry]
  /\ running \subseteq Servers \X Tasks \X (0..MaxRetry)
  /\ rates \in {"none", "empty", "partial", "filled"}
  /\ crawler \in {"idle", "emptied"}
  /\ trouble \in 0..MaxTrouble

(* No process serves or works on a schema that is not complete, whoever    *)
(* migrates it, and whatever became of the one that did.                   *)
WholeSchema ==
  \A s \in Servers : serve[s] # "off" \/ worker[s] # "off" => Migrated

(* A process that accepts requests for codes also works on the queue,      *)
(* until it is told to stop.                                               *)
WorksWhileServing ==
  \A s \in Servers : serve[s] = "accepting" /\ ~cancelled[s] => worker[s] = "running"

(* Handlers of one task may overlap: its time was up, its lease was lost   *)
(* or a shutdown put it back, and nothing stops the handler.  But unless a *)
(* process that was told to stop has a part in it, the overlap was paid    *)
(* for with a try, so that at most MaxRetry + 1 of them go on.             *)
OneRunPerTry ==
  \A x, y \in running :
    x[2] = y[2] /\ x # y => cancelled[x[1]] \/ cancelled[y[1]] \/ x[3] # y[3]

(* A process that ends by itself cuts off no request, and has no task of   *)
(* its own left: each that it took is settled or back in the queue, or     *)
(* else its lease was lost or the call that was to end it failed.  Only    *)
(* those are left to Recover, which counts a try that may have succeeded.  *)
ExitsClean ==
  [][\A s \in Servers :
       main[s] = "waiting" /\ main'[s] = "off" /\ trouble' = trouble
         => InFlight(s) = {} /\ Held(s) \subseteq expiring]_vars

(* A process that was told to stop, or that does not serve any more, ends  *)
(* (and makes room for the next), whatever hangs in its workers.  The only *)
(* one who can keep it is a client that stalls for ever: Shutdown has no   *)
(* deadline, and the connection no timeout.                                *)
EndsWhenDone ==
  \A s \in Servers :
    \/ <>[](InFlight(s) # {})
    \/ (cancelled[s] \/ serve[s] \in {"closed", "failed"} ~> main[s] = "off")


(* Once there is a table of rates it gets filled, whatever a crawl left    *)
(* behind.                                                                 *)
RatesReturn == rates # "none" ~> rates = "filled"

(* Leases, lost answers, shutdowns and kills do not show in the queue: no  *)
(* task is queued twice or settled twice, none is archived before it       *)
(* failed MaxRetry + 1 times, or tried again after, and a run that a       *)
(* shutdown put back is not counted against it.                            *)
Queue == INSTANCE TaskQueue WITH state <- queue, failures <- retried
ImplementsTaskQueue == Queue!Spec
=============================================================================
