------------------------------ MODULE WebNode ------------------------------
(***************************************************************************)
(* The web socket nodes (component/webserver/webserver.go).  Each node has *)
(* a goroutine that reads and one that writes; its end is reported through *)
(* delNodeChan by either of them and by the callers of Close, and carried  *)
(* out by the goroutine listenDelNode: the first report after a Close only *)
(* starts the draining of sendChan, the next one closes.                   *)
(* The reading goroutine stops in "handle" for the service (WebService),   *)
(* which goes on to "dispatch" with Accept and ends with Handled.          *)
(***************************************************************************)
EXTENDS Integers, Sequences, FiniteSets

CONSTANTS
  Nodes,     \* the nodes, one per web socket; a node stands for its id
  Closers,   \* goroutines of the service that call Close once
  DelLimit,  \* capacity of delNodeChan: 128
  SendLimit, \* capacity of sendChan: 1024
  MaxIn,     \* bound on the messages of a client
  Payloads   \* what a node is sent

\* A reply carries the number of its request.
ASSUME WebNodeAssumption ==
  /\ DelLimit \in Nat \ {0} /\ SendLimit \in Nat \ {0}
  /\ MaxIn \in Nat /\ 1..MaxIn \subseteq Payloads

VARIABLES
  newNodeChan, \* nodes of HttpHandleFunc, at most one
  delNodeChan, \* nodes that were reported
  nodes,       \* WebNetMgr.nodes: the nodes that GetNode may find
  closed, isAboutToClose, closedbyServer, \* the nodes with the flag
  sendChan,    \* of each node
  reader,      \* reader[n]: where recv of n is
  writer,      \* writer[n]: where send of n is
  writing,     \* what send of n has taken from sendChan
  starting,    \* listenNewNode: the node it has started but not announced
  ending,      \* listenDelNode: the node that it closes
  closer,      \* closer[c]: where a caller of Close is
  closing,     \* closing[c]: the node it closes
  asked,       \* asked[n]: how many messages of the client recv has read
  client,      \* client[n]: "away", "here" or "left"
  announced,   \* nodes with which OnWebNetNewNode was called
  told,        \* how often OnWebNetDelNode was called with a node
  delivered    \* what was written to the web socket

flagVars == <<closed, isAboutToClose, closedbyServer>>
chanVars == <<newNodeChan, delNodeChan, sendChan>>
taskVars == <<reader, writer, writing, starting, ending, closer, closing>>
sideVars == <<asked, nodes, client, announced, told, delivered>>
nodeVars == <<chanVars, flagVars, taskVars, sideVars>>

NodeTypeOK ==
  /\ newNodeChan \in Seq(Nodes) /\ Len(newNodeChan) <= 1
  /\ delNodeChan \in Seq(Nodes) /\ Len(delNodeChan) <= DelLimit
  /\ nodes \subseteq Nodes /\ closed \subseteq Nodes
  /\ isAboutToClose \subseteq Nodes /\ closedbyServer \subseteq Nodes
  /\ sendChan \in [Nodes -> Seq(Payloads)]
  /\ reader \in [Nodes -> {"none", "top", "read", "message", "failed", "handle",
                         "dispatch", "refuse", "report", "gone"}]
  /\ writer \in [Nodes -> {"none", "top", "select", "write", "report", "gone"}]
  /\ writing \in [Nodes -> SUBSET Payloads]
  /\ starting \subseteq Nodes /\ ending \subseteq Nodes
  /\ closer \in [Closers -> {"idle", "report", "done"}]
  /\ closing \in [Closers -> SUBSET Nodes]
  /\ asked \in [Nodes -> 0..MaxIn]
  /\ client \in [Nodes -> {"away", "here", "left"}]
  /\ announced \subseteq Nodes
  /\ told \in [Nodes -> Nat]
  /\ delivered \in [Nodes -> Seq(Payloads)]

NodeInit ==
  /\ newNodeChan = <<>> /\ delNodeChan = <<>>
  /\ nodes = {} /\ closed = {} /\ isAboutToClose = {} /\ closedbyServer = {}
  /\ sendChan = [n \in Nodes |-> <<>>]
  /\ reader = [n \in Nodes |-> "none"]
  /\ writer = [n \in Nodes |-> "none"]
  /\ writing = [n \in Nodes |-> {}]
  /\ starting = {} /\ ending = {}
  /\ closer = [c \in Closers |-> "idle"]
  /\ closing = [c \in Closers |-> {}]
  /\ asked = [n \in Nodes |-> 0]
  /\ client = [n \in Nodes |-> "away"]
  /\ announced = {}
  /\ told = [n \in Nodes |-> 0]
  /\ delivered = [n \in Nodes |-> <<>>]

IsClose(n) == n \in closed \/ n \in isAboutToClose
Reports(n) == Len(delNodeChan) < DelLimit /\ delNodeChan' = Append(delNodeChan, n)

-----------------------------------------------------------------------------
(* A client connects and leaves.                                           *)

HttpHandleFunc(n) ==
  /\ client[n] = "away"
  /\ Len(newNodeChan) < 1
  /\ client' = [client EXCEPT ![n] = "here"]
  /\ newNodeChan' = Append(newNodeChan, n)
  /\ UNCHANGED <<delNodeChan, sendChan, flagVars, taskVars, asked, nodes, announced, told, delivered>>

Leave(n) ==
  /\ client[n] = "here"
  /\ client' = [client EXCEPT ![n] = "left"]
  /\ UNCHANGED <<chanVars, flagVars, taskVars, asked, nodes, announced, told, delivered>>

-----------------------------------------------------------------------------
(* listenNewNode: the goroutines run before the service is told.           *)

StartNode ==
  /\ starting = {}
  /\ newNodeChan # <<>>
  /\ LET n == Head(newNodeChan)
     IN  /\ nodes' = nodes \union {n}
         /\ reader' = [reader EXCEPT ![n] = "top"]
         /\ writer' = [writer EXCEPT ![n] = "top"]
         /\ starting' = {n}
  /\ newNodeChan' = Tail(newNodeChan)
  /\ UNCHANGED <<delNodeChan, sendChan, flagVars, writing, ending, closer, closing,
                 asked, client, announced, told, delivered>>

AnnounceNode ==
  /\ starting # {}
  /\ announced' = announced \union starting
  /\ starting' = {}
  /\ UNCHANGED <<chanVars, flagVars, reader, writer, writing, ending, closer, closing,
                 asked, nodes, client, told, delivered>>

-----------------------------------------------------------------------------
(* recv.                                                                   *)

MoveReader(n, from, to) ==
  /\ reader[n] = from
  /\ reader' = [reader EXCEPT ![n] = to]
ReaderOnly ==
  UNCHANGED <<chanVars, flagVars, writer, writing, starting, ending, closer, closing, sideVars>>

\* The flags are tested before and after ReadMessage.
Past(n, from, next) ==
  /\ MoveReader(n, from, IF n \in closed THEN "gone"
                         ELSE IF n \in isAboutToClose THEN "report" ELSE next)
  /\ ReaderOnly
RecvTests(n) == Past(n, "top", "read")
\* A client that is here may send; the socket fails when the client has left
\* or the node has been closed.
ReadOk(n) ==
  /\ client[n] = "here" /\ asked[n] < MaxIn
  /\ MoveReader(n, "read", "message")
  /\ asked' = [asked EXCEPT ![n] = @ + 1]
  /\ UNCHANGED <<chanVars, flagVars, writer, writing, starting, ending, closer, closing,
                 nodes, client, announced, told, delivered>>
ReadFails(n) ==
  /\ client[n] = "left" \/ told[n] > 0
  /\ MoveReader(n, "read", "failed")
  /\ ReaderOnly
RecvTestsAgainOnly(n) == Past(n, "message", "handle") \/ Past(n, "failed", "gone")  \* faulty
RecvTestsAgain(n) == Past(n, "message", "handle") \/ Past(n, "failed", "report")
\* The callback goes on with a message that is good.
Accept(n) == MoveReader(n, "handle", "dispatch") /\ ReaderOnly
\* The callback has returned, ok or with an error.
Handled(n, from, ok) ==
  /\ MoveReader(n, from, IF ok THEN "top" ELSE "report")
  /\ ReaderOnly
\* The callback closes the node itself, and then returns an error.
Refuse(n) ==
  /\ MoveReader(n, "handle", "refuse")
  /\ closedbyServer' = closedbyServer \union {n}
  /\ UNCHANGED <<chanVars, closed, isAboutToClose, writer, writing, starting, ending,
                 closer, closing, sideVars>>
RefuseReports(n) ==
  /\ MoveReader(n, "refuse", "report")
  /\ Reports(n)
  /\ UNCHANGED <<newNodeChan, sendChan, flagVars, writer, writing, starting, ending,
                 closer, closing, sideVars>>
RecvReports(n) ==
  /\ MoveReader(n, "report", "gone")
  /\ Reports(n)
  /\ UNCHANGED <<newNodeChan, sendChan, flagVars, writer, writing, starting, ending,
                 closer, closing, sideVars>>

Recv(n) == RecvTests(n) \/ ReadFails(n) \/ RecvTestsAgain(n) \/ RecvReports(n)

-----------------------------------------------------------------------------
(* send.                                                                   *)

MoveWriter(n, from, to) ==
  /\ writer[n] = from
  /\ writer' = [writer EXCEPT ![n] = to]

SendTestsUpTo(n, pending) ==
  /\ MoveWriter(n, "top", IF n \in closed THEN "gone"
                          ELSE IF n \in isAboutToClose /\ Len(sendChan[n]) <= pending THEN "report"
                          ELSE "select")
  /\ UNCHANGED <<chanVars, flagVars, reader, writing, starting, ending, closer, closing, sideVars>>
SendTestsOnly(n) == SendTestsUpTo(n, SendLimit)                     \* faulty
SendTests(n) == SendTestsUpTo(n, 0)

\* Takes a message, or goes back to the top: after five seconds, or because the
\* channel is closed (the break at 133 only leaves the select).
SendTakes(n) ==
  /\ sendChan[n] # <<>>
  /\ MoveWriter(n, "select", "write")
  /\ writing' = [writing EXCEPT ![n] = {Head(sendChan[n])}]
  /\ sendChan' = [sendChan EXCEPT ![n] = Tail(@)]
  /\ UNCHANGED <<newNodeChan, delNodeChan, flagVars, reader, starting, ending, closer, closing, sideVars>>
SendTurns(n) ==
  /\ sendChan[n] = <<>>
  /\ MoveWriter(n, "select", "top")
  /\ UNCHANGED <<chanVars, flagVars, reader, writing, starting, ending, closer, closing, sideVars>>

\* A write that fails is only logged.
SendWrites(n) ==
  /\ MoveWriter(n, "write", "top")
  /\ writing' = [writing EXCEPT ![n] = {}]
  /\ delivered' = IF client[n] = "here" /\ told[n] = 0
                  THEN [delivered EXCEPT ![n] = @ \o <<CHOOSE m \in writing[n] : TRUE>>]
                  ELSE delivered
  /\ UNCHANGED <<chanVars, flagVars, reader, starting, ending, closer, closing,
                 asked, nodes, client, announced, told>>

SendReports(n) ==
  /\ MoveWriter(n, "report", "gone")
  /\ Reports(n)
  /\ UNCHANGED <<newNodeChan, sendChan, flagVars, reader, writing, starting, ending,
                 closer, closing, sideVars>>

Send(n) == SendTests(n) \/ SendTakes(n) \/ SendTurns(n) \/ SendWrites(n) \/ SendReports(n)

-----------------------------------------------------------------------------
(* Close and listenDelNode.                                                *)

\* The owner closes a node that it was told of.
Close(c, n) ==
  /\ closer[c] = "idle"
  /\ n \in announced
  /\ closedbyServer' = closedbyServer \union {n}
  /\ closer' = [closer EXCEPT ![c] = "report"]
  /\ closing' = [closing EXCEPT ![c] = {n}]
  /\ UNCHANGED <<chanVars, closed, isAboutToClose, reader, writer, writing, starting, ending, sideVars>>
CloseReports(c) ==
  /\ closer[c] = "report"
  /\ \E n \in closing[c] : Reports(n)
  /\ closer' = [closer EXCEPT ![c] = "done"]
  /\ UNCHANGED <<newNodeChan, sendChan, flagVars, reader, writer, writing, starting, ending,
                 closing, sideVars>>

\* realClose of a node that is known: the first report after a Close starts the
\* draining, any other one marks the node as closed.
TakeReportOf(known) ==
  /\ ending = {}
  /\ delNodeChan # <<>>
  /\ delNodeChan' = Tail(delNodeChan)
  /\ LET n == Head(delNodeChan)
         drains == n \in closedbyServer /\ n \notin isAboutToClose
     IN  /\ isAboutToClose' = IF n \in known /\ drains THEN isAboutToClose \union {n}
                              ELSE isAboutToClose
         /\ closed' = IF n \in known /\ ~drains THEN closed \union {n} ELSE closed
         /\ ending' = IF n \in known /\ ~drains THEN {n} ELSE {}
  /\ UNCHANGED <<newNodeChan, sendChan, closedbyServer, reader, writer, writing, starting,
                 closer, closing, sideVars>>
TakeReportOfAny == TakeReportOf(Nodes)                              \* faulty
TakeReport == TakeReportOf(nodes)

\* Under the lock of the map: forget, close the channel and the socket, tell.
EndNode ==
  /\ ending # {}
  /\ nodes' = nodes \ ending
  /\ told' = [n \in Nodes |-> IF n \in ending THEN told[n] + 1 ELSE told[n]]
  /\ ending' = {}
  /\ UNCHANGED <<chanVars, flagVars, reader, writer, writing, starting, closer, closing,
                 asked, client, announced, delivered>>

NodeNext ==
  \/ StartNode \/ AnnounceNode \/ TakeReport \/ EndNode
  \/ \E n \in Nodes : HttpHandleFunc(n) \/ Leave(n) \/ ReadOk(n) \/ Recv(n) \/ Send(n)
                      \/ \E c \in Closers : Close(c, n)
  \/ \E c \in Closers : CloseReports(c)
=============================================================================
