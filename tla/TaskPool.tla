------------------------------ MODULE TaskPool ------------------------------
(***************************************************************************)
(* What the pool of goroutines (component/routinepool) promises to those   *)
(* who dispatch tasks, without its channels.                               *)
(*                                                                         *)
(* A dispatched task waits.  A free routine takes it and runs it, alone    *)
(* and to its end, and the call succeeds in the step that starts the task; *)
(* or the call is refused, and the task never runs.                        *)
(***************************************************************************)
EXTENDS Naturals

CONSTANTS Routines, Calls

VARIABLES
  call,  \* the fate of every call: "idle", "waiting", "sent" or "failed"
  task,  \* what each routine runs
  runs   \* how often each task has been started

poolVars == <<call, task, runs>>

Nobody == "nobody"

Init ==
  /\ call = [c \in Calls |-> "idle"]
  /\ task = [r \in Routines |-> Nobody]
  /\ runs = [c \in Calls |-> 0]

Ask(c) ==
  /\ call[c] = "idle"
  /\ call' = [call EXCEPT ![c] = "waiting"]
  /\ UNCHANGED <<task, runs>>

Take(c, r) ==
  /\ call[c] = "waiting"
  /\ task[r] = Nobody
  /\ call' = [call EXCEPT ![c] = "sent"]
  /\ task' = [task EXCEPT ![r] = c]
  /\ runs' = [runs EXCEPT ![c] = @ + 1]

Refuse(c) ==
  /\ call[c] = "waiting"
  /\ call' = [call EXCEPT ![c] = "failed"]
  /\ UNCHANGED <<task, runs>>

Complete(r) ==
  /\ task[r] # Nobody
  /\ task' = [task EXCEPT ![r] = Nobody]
  /\ UNCHANGED <<call, runs>>

Next ==
  \/ \E c \in Calls : Ask(c) \/ Refuse(c) \/ \E r \in Routines : Take(c, r)
  \/ \E r \in Routines : Complete(r)

Spec == Init /\ [][Next]_poolVars
=============================================================================
