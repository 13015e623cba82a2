----------------------------- MODULE WebService ----------------------------
(***************************************************************************)
(* A web service over its nodes (framework/base/webservice.go, with the    *)
(* dispatch of framework/base/service.go): OnNewWebMsg checks a message    *)
(* and dispatches it, to the main loop through TaskChan or to a routine of *)
(* the pool; the task that handles it answers with W2C.                    *)
(***************************************************************************)
EXTENDS WebNode

CONSTANTS Runners,   \* the routines of the pool
          Loop,      \* the main loop, the runner when dispatch is single-threaded
          TaskLimit  \* capacity of TaskChan: 10000

ASSUME WebServiceAssumption == TaskLimit \in Nat \ {0} /\ Loop \in Runners

VARIABLES
  single,   \* ProcessMsgSingleOrMultiple
  taskChan, \* requests that wait for the main loop
  task,     \* task[r]: the request that r handles
  reply,    \* reply[r]: where r is in W2C
  owed      \* owed[n]: replies accepted before the draining of n began

serviceVars == <<single, taskChan, task, reply, owed>>
vars == <<nodeVars, serviceVars>>

Requests == [node : Nodes, number : Payloads]

TypeOK ==
  /\ NodeTypeOK
  /\ single \in BOOLEAN
  /\ taskChan \in Seq(Requests) /\ Len(taskChan) <= TaskLimit
  /\ task \in [Runners -> SUBSET Requests]
  /\ reply \in [Runners -> {"idle", "get", "check", "push"}]
  /\ owed \in [Nodes -> SUBSET Payloads]

Init ==
  /\ NodeInit
  /\ single \in BOOLEAN
  /\ taskChan = <<>>
  /\ task = [r \in Runners |-> {}]
  /\ reply = [r \in Runners |-> "idle"]
  /\ owed = [n \in Nodes |-> {}]

-----------------------------------------------------------------------------
(* OnNewWebMsg and ProcessMsg, in the goroutine recv of the node.          *)

\* Too short, too long, or without the magic number.
Malformed(n) == Refuse(n) /\ UNCHANGED serviceVars
\* It cannot be decoded, or lacks a header.
Undecodable(n) == Handled(n, "handle", FALSE) /\ UNCHANGED serviceVars
\* It will be dispatched, and nothing else: the node may have to wait for that.
Decoded(n) == Accept(n) /\ UNCHANGED serviceVars

Request(n) == [node |-> n, number |-> asked[n]]

\* Waits while TaskChan is full.
ProcessMsgWithSingleThread(n) ==
  /\ single
  /\ Len(taskChan) < TaskLimit
  /\ Handled(n, "dispatch", TRUE)
  /\ taskChan' = Append(taskChan, Request(n))
  /\ UNCHANGED <<single, task, reply, owed>>

\* An idle routine takes the task; or the five seconds are over, even if a routine
\* becomes idle meanwhile (RoutinePool).
ProcessMsgMultiThread(n) ==
  /\ ~single
  /\ \/ \E r \in Runners :
          /\ reply[r] = "idle"
          /\ Handled(n, "dispatch", TRUE)
          /\ task' = [task EXCEPT ![r] = {Request(n)}]
          /\ reply' = [reply EXCEPT ![r] = "get"]
     \/ /\ Handled(n, "dispatch", FALSE)
        /\ UNCHANGED <<task, reply>>
  /\ UNCHANGED <<single, taskChan, owed>>

OnNewWebMsg(n) ==
  \/ Malformed(n) \/ Undecodable(n) \/ Decoded(n)
  \/ ProcessMsgWithSingleThread(n) \/ ProcessMsgMultiThread(n)

-----------------------------------------------------------------------------
(* The tasks.                                                              *)

TakeTask ==
  /\ single
  /\ reply[Loop] = "idle"
  /\ taskChan # <<>>
  /\ task' = [task EXCEPT ![Loop] = {Head(taskChan)}]
  /\ reply' = [reply EXCEPT ![Loop] = "get"]
  /\ taskChan' = Tail(taskChan)
  /\ UNCHANGED <<single, owed, nodeVars>>

MoveReply(r, from, to) ==
  /\ reply[r] = from
  /\ reply' = [reply EXCEPT ![r] = to]
  /\ task' = [task EXCEPT ![r] = IF to = "idle" THEN {} ELSE @]
  /\ UNCHANGED <<single, taskChan>>

\* W2C: GetNode finds the node only if it is in the map and not closing.
GetNode(r) ==
  /\ \E q \in task[r] :
       MoveReply(r, "get", IF q.node \in nodes /\ ~IsClose(q.node) THEN "check" ELSE "idle")
  /\ UNCHANGED <<owed, nodeVars>>
\* Send tests the flags again.
SendChecks(r) ==
  /\ \E q \in task[r] : MoveReply(r, "check", IF IsClose(q.node) THEN "idle" ELSE "push")
  /\ UNCHANGED <<owed, nodeVars>>
\* Send has put the reply into sendChan.
SendPuts(r) ==
  /\ MoveReply(r, "push", "idle")
  /\ \E q \in task[r] :
       /\ told[q.node] = 0
       /\ Len(sendChan[q.node]) < SendLimit
       /\ sendChan' = [sendChan EXCEPT ![q.node] = Append(@, q.number)]
       /\ owed' = IF IsClose(q.node) THEN owed
                  ELSE [owed EXCEPT ![q.node] = @ \union {q.number}]
  /\ UNCHANGED <<newNodeChan, delNodeChan, flagVars, taskVars, sideVars>>
\* Send fails: ten seconds without room, or the channel is closed (recovered).
SendGivesUp(r) ==
  /\ MoveReply(r, "push", "idle")
  /\ \E q \in task[r] : told[q.node] > 0 \/ Len(sendChan[q.node]) = SendLimit
  /\ UNCHANGED <<owed, nodeVars>>

RunTask(r) == GetNode(r) \/ SendChecks(r) \/ SendPuts(r) \/ SendGivesUp(r)

Next ==
  \/ NodeNext /\ UNCHANGED serviceVars
  \/ \E n \in Nodes : OnNewWebMsg(n) \/ (RefuseReports(n) /\ UNCHANGED serviceVars)
  \/ TakeTask
  \/ \E r \in Runners : RunTask(r)

Spec == Init /\ [][Next]_vars

\* The goroutines run; a write ends, because the client reads or leaves.
Fairness ==
  /\ WF_vars(StartNode /\ UNCHANGED serviceVars)
  /\ WF_vars(AnnounceNode /\ UNCHANGED serviceVars)
  /\ WF_vars((TakeReport \/ EndNode) /\ UNCHANGED serviceVars)
  /\ \A n \in Nodes :
       /\ WF_vars((Recv(n) \/ RefuseReports(n)) /\ UNCHANGED serviceVars)
       /\ WF_vars(OnNewWebMsg(n))
       /\ WF_vars(Send(n) /\ UNCHANGED serviceVars)
  /\ \A c \in Closers : WF_vars(CloseReports(c) /\ UNCHANGED serviceVars)
  /\ WF_vars(TakeTask)
  /\ \A r \in Runners : WF_vars(RunTask(r))
FairSpec == Spec /\ Fairness

-----------------------------------------------------------------------------
\* webserver.go:289: recv, send and Close may all report a node, but the service
\* is told of its end once, and the node is not found any more.
ToldOnce == \A n \in Nodes : told[n] <= 1 /\ (told[n] = 1 => n \notin nodes)

\* webserver.go:119: a node that the service closes once, whose client stays and
\* sends nothing meanwhile, gets everything that was accepted for it before the
\* draining began.
ClosersOf(n) == {c \in Closers : closing[c] = {n}}
DrainedByClose ==
  [][\A n \in Nodes :
          /\ told'[n] > told[n]
          /\ client[n] = "here" /\ reader[n] = "read"
          /\ \E c \in Closers : ClosersOf(n) = {c}
       => \A p \in owed[n] : \E i \in DOMAIN delivered[n] : delivered[n][i] = p]_vars

\* webserver.go:277: a node whose client has left, or that was closed, is forgotten,
\* and its goroutines end: no report of it is lost.
NodesAreForgotten ==
  \A n \in Nodes :
    (client[n] = "left" \/ n \in closedbyServer) ~>
      (told[n] = 1 /\ reader[n] = "gone" /\ writer[n] = "gone")
=============================================================================
