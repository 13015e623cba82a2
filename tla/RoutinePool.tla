---------------------------- MODULE RoutinePool ----------------------------
(***************************************************************************)
(* The pool of goroutines that process messages                            *)
(* (component/routinepool/routinepool.go).                                 *)
(*                                                                         *)
(* A routine that has nothing to do puts its own channel taskChan in the   *)
(* queue idleTaskChan and receives from it.  DispatchTask takes a channel  *)
(* from the queue, or gives up after five seconds, and sends the task      *)
(* through it.  A taskChan has no buffer: its send and its receive are one *)
(* step.  A routine stands for its taskChan, and a call of DispatchTask    *)
(* for its task.  A task that panics ends the process and is left out.     *)
(***************************************************************************)
EXTENDS Naturals, Sequences, FiniteSets

CONSTANTS
  Routines,  \* the goroutines of the pool
  Calls      \* one element per call of DispatchTask

Nobody == "nobody"

\* What stands for no task and no routine is neither.
ASSUME PoolAssumption == IsFiniteSet(Routines) /\ Nobody \notin Calls

size == Cardinality(Routines)

VARIABLES
  idleTaskChan,
  at,      \* control of each routine
  call,    \* control of each call of DispatchTask
  taskChan, \* the variable taskChan of each call: the routine it has taken
  task,    \* what each routine runs
  runs     \* how often each task has been run

poolVars == <<idleTaskChan, at, call, taskChan, task, runs>>

PoolTypeOK ==
  /\ idleTaskChan \in Seq(Routines)
  /\ at \in [Routines -> {"offer", "receive", "run"}]
  /\ call \in [Calls -> {"idle", "select", "send", "sent", "failed"}]
  /\ taskChan \in [Calls -> Routines \cup {Nobody}]
  /\ task \in [Routines -> Calls \cup {Nobody}]
  /\ runs \in [Calls -> Nat]

\* Start has started the routines.
PoolInit ==
  /\ idleTaskChan = <<>>
  /\ at = [r \in Routines |-> "offer"]
  /\ call = [c \in Calls |-> "idle"]
  /\ taskChan = [c \in Calls |-> Nobody]
  /\ task = [r \in Routines |-> Nobody]
  /\ runs = [c \in Calls |-> 0]

-----------------------------------------------------------------------------
(* A routine.                                                              *)

Offers(r, next) ==
  /\ at[r] = "offer"
  /\ Len(idleTaskChan) < size
  /\ idleTaskChan' = Append(idleTaskChan, r)
  /\ at' = [at EXCEPT ![r] = next]
  /\ UNCHANGED <<call, taskChan, task, runs>>
Offer(r) == Offers(r, "receive")

Finish(r) ==
  /\ at[r] = "run"
  /\ at' = [at EXCEPT ![r] = "offer"]
  /\ task' = [task EXCEPT ![r] = Nobody]
  /\ UNCHANGED <<idleTaskChan, call, taskChan, runs>>

-----------------------------------------------------------------------------
(* DispatchTask.                                                           *)

Begin(c) ==
  /\ call[c] = "idle"
  /\ call' = [call EXCEPT ![c] = "select"]
  /\ UNCHANGED <<idleTaskChan, at, taskChan, task, runs>>

TakesIdle(c, rest) ==
  /\ call[c] = "select"
  /\ idleTaskChan # <<>>
  /\ idleTaskChan' = rest
  /\ taskChan' = [taskChan EXCEPT ![c] = Head(idleTaskChan)]
  /\ call' = [call EXCEPT ![c] = "send"]
  /\ UNCHANGED <<at, task, runs>>
TakeIdleKeeps(c) == TakesIdle(c, idleTaskChan)                     \* faulty
TakeIdle(c) == TakesIdle(c, Tail(idleTaskChan))

\* The five seconds are over, whether or not a routine becomes idle meanwhile.
TimesOut(c, stages) ==
  /\ call[c] \in stages
  /\ call' = [call EXCEPT ![c] = "failed"]
  /\ UNCHANGED <<idleTaskChan, at, taskChan, task, runs>>
TimeOutLate(c) == TimesOut(c, {"select", "send", "sent"})          \* faulty
TimeOutNever(c) == TimesOut(c, {})                                 \* faulty
TimeOut(c) == TimesOut(c, {"select"})

\* The routine receives the task and calls it.
HandOver(c) ==
  LET r == taskChan[c] IN
  /\ call[c] = "send"
  /\ at[r] = "receive"
  /\ call' = [call EXCEPT ![c] = "sent"]
  /\ at' = [at EXCEPT ![r] = "run"]
  /\ task' = [task EXCEPT ![r] = c]
  /\ runs' = [runs EXCEPT ![c] = @ + 1]
  /\ UNCHANGED <<idleTaskChan, taskChan>>

-----------------------------------------------------------------------------
Routine(r) == Offer(r) \/ Finish(r)
DispatchTask(c) == Begin(c) \/ TakeIdle(c) \/ TimeOut(c) \/ HandOver(c)

PoolNext == \/ \E r \in Routines : Routine(r)
        \/ \E c \in Calls : DispatchTask(c)

PoolSpec == PoolInit /\ [][PoolNext]_poolVars

\* Goroutines run, time passes, and (Finish) tasks return.
PoolFairness ==
  /\ \A r \in Routines : WF_poolVars(Offer(r)) /\ WF_poolVars(Finish(r))
  /\ \A c \in Calls : WF_poolVars(TimeOut(c)) /\ WF_poolVars(HandOver(c))

FairPoolSpec == PoolSpec /\ PoolFairness

-----------------------------------------------------------------------------
(* Properties.                                                             *)

Queued(r) == \E i \in DOMAIN idleTaskChan : idleTaskChan[i] = r
Holds(c, r) == call[c] = "send" /\ taskChan[c] = r

\* A routine is idle only once in the queue, and is given to one call at a time:
\* two tasks are never sent to one routine, one of them to wait for ever.
OneTaker ==
  /\ \A i, j \in DOMAIN idleTaskChan :
       idleTaskChan[i] = idleTaskChan[j] => i = j
  /\ \A r \in Routines : \A c \in Calls : Holds(c, r) =>
       /\ ~Queued(r)
       /\ \A d \in Calls : Holds(d, r) => d = c

\* Only the select of DispatchTask ever waits: whoever sends a task finds its
\* routine receiving, and a routine that offers itself finds room in the queue.
OnlySelectWaits ==
  /\ \A c \in Calls : call[c] = "send" => at[taskChan[c]] = "receive"
  /\ \A r \in Routines : at[r] = "offer" => Len(idleTaskChan) < size

\* A task runs exactly once if DispatchTask returns nil and never if it returns an
\* error, however late the error comes.
RunsOnce == \A c \in Calls : runs[c] = (IF call[c] = "sent" THEN 1 ELSE 0)

\* A call that has a routine still waits for it to receive the task.
AbstractCall ==
  [c \in Calls |-> IF call[c] \in {"select", "send"} THEN "waiting" ELSE call[c]]

Promise == INSTANCE TaskPool WITH call <- AbstractCall

\* The pool is what TaskPool says: only a free routine takes a task, in the step in
\* which the call succeeds; a call that is refused is refused for good, and its task
\* is never run, even if a routine becomes idle when the five seconds end.
HandsOver == Promise!Spec

\* Every call returns, and every routine becomes idle again, even if more tasks
\* than routines are dispatched at a time.
CallsReturn ==
  /\ \A c \in Calls : call[c] = "select" ~> call[c] \in {"sent", "failed"}
  /\ \A r \in Routines : at[r] = "run" ~> Queued(r)
=============================================================================
