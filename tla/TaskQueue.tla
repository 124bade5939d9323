----------------------------- MODULE TaskQueue ------------------------------
(***************************************************************************)
(* What the task queue promises sendOTP and the mail task, with no worker, *)
(* lease or connection in sight (worker/distributor.go and                 *)
(* worker/processor.go, over asynq): a task waits, is leased to a worker,  *)
(* and settles once and for all; a run that failed counts, and after       *)
(* MaxRetry of them one more failure archives the task.  Lifecycle and     *)
(* OTP, which look at the same tasks from the side of the processes and    *)
(* from that of the codes, both implement it.                              *)
(*                                                                         *)
(* The weak spot is the queue's: a run that a shutdown interrupts is not   *)
(* counted, so the number of runs is not bounded, only that of failures.   *)
(***************************************************************************)
EXTENDS Naturals

CONSTANTS
  Tasks,
  MaxRetry   \* asynq.MaxRetry

VARIABLES
  state,     \* the state of every task in the queue, "none" before it is there
  failures   \* how many of its failed runs were counted

vars == <<state, failures>>

Init ==
  /\ state = [t \in Tasks |-> "none"]
  /\ failures = [t \in Tasks |-> 0]

Move(t, from, to) ==
  /\ state[t] = from
  /\ state' = [state EXCEPT ![t] = to]

Add(t) == Move(t, "none", "queued") /\ UNCHANGED failures

Take(t) == Move(t, "queued", "active") /\ UNCHANGED failures

PutBack(t) == Move(t, "active", "queued") /\ UNCHANGED failures

Complete(t) == Move(t, "active", "done") /\ UNCHANGED failures

Fail(t) ==
  \/ /\ failures[t] < MaxRetry
     /\ Move(t, "active", "queued")
     /\ failures' = [failures EXCEPT ![t] = @ + 1]
  \/ /\ failures[t] = MaxRetry
     /\ Move(t, "active", "archived")
     /\ UNCHANGED failures

Next == \E t \in Tasks : Add(t) \/ Take(t) \/ PutBack(t) \/ Complete(t) \/ Fail(t)

Spec == Init /\ [][Next]_vars
=============================================================================
