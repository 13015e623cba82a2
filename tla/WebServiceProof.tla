--------------------------- MODULE WebServiceProof --------------------------
(***************************************************************************)
(* Proofs about the web nodes and the service over them (WebService).      *)
(***************************************************************************)
EXTENDS WebService, TLAPS

(***************************************************************************)
(* The end of a node, told once.  A node passes from its client to         *)
(* newNodeChan, to the map and out of it, once; only a node of the map is ended, and it *)
(* leaves the map in the step that tells the service.                      *)
(***************************************************************************)
Arriving(n) == newNodeChan # <<>> /\ Head(newNodeChan) = n

Places ==
  /\ newNodeChan = <<>> \/ \E n \in Nodes : newNodeChan = <<n>>
  /\ client \in [Nodes -> {"away", "here", "left"}]
  /\ told \in [Nodes -> Nat]
  /\ nodes \subseteq Nodes /\ ending \subseteq nodes

EndsOnce ==
  \A n \in Nodes :
    /\ n \in nodes \/ Arriving(n) => client[n] # "away"
    /\ Arriving(n) => n \notin nodes
    /\ client[n] = "away" \/ Arriving(n) \/ n \in nodes => told[n] = 0
    /\ told[n] <= 1

Inductive == Places /\ EndsOnce

\* The first states.
LEMMA InductiveInit == Init => Inductive
BY DEF Init, NodeInit, Inductive, Places, EndsOnce, Arriving

\* What the invariant speaks of.
nodePlaces == <<newNodeChan, nodes, ending, client, told>>

\* Most steps change none of it.
LEMMA OthersKeepPlaces ==
  ASSUME [Next]_vars
  PROVE  \/ UNCHANGED nodePlaces
         \/ StartNode \/ TakeReport \/ EndNode
         \/ \E n \in Nodes : HttpHandleFunc(n) \/ Leave(n)
<1> USE DEF nodePlaces, chanVars, flagVars, taskVars, sideVars, nodeVars, MoveReader, MoveWriter
<1>1. CASE AnnounceNode
  BY <1>1 DEF AnnounceNode
<1>2. ASSUME NEW n \in Nodes, ReadOk(n) \/ RefuseReports(n)
      PROVE  UNCHANGED nodePlaces
  BY <1>2 DEF ReadOk, RefuseReports
<1>3. ASSUME NEW n \in Nodes, Recv(n)
      PROVE  UNCHANGED nodePlaces
  BY <1>3 DEF Recv, RecvTests, ReadFails, RecvTestsAgain, RecvReports, Past, ReaderOnly
<1>4. ASSUME NEW n \in Nodes, Send(n)
      PROVE  UNCHANGED nodePlaces
  BY <1>4 DEF Send, SendTests, SendTestsUpTo, SendTakes, SendTurns, SendWrites, SendReports
<1>5. ASSUME NEW c \in Closers, CloseReports(c) \/ \E n \in Nodes : Close(c, n)
      PROVE  UNCHANGED nodePlaces
  BY <1>5 DEF Close, CloseReports
<1>6. ASSUME NEW n \in Nodes, OnNewWebMsg(n)
      PROVE  UNCHANGED nodePlaces
  BY <1>6 DEF OnNewWebMsg, Malformed, Undecodable, Decoded, Accept, ProcessMsgWithSingleThread,
              ProcessMsgMultiThread, Handled, Refuse, ReaderOnly
<1>7. ASSUME NEW r \in Runners, RunTask(r)
      PROVE  UNCHANGED nodePlaces
  BY <1>7 DEF RunTask, GetNode, SendChecks, SendPuts, SendGivesUp
<1>8. CASE TakeTask
  BY <1>8 DEF TakeTask
<1>9. CASE UNCHANGED vars
  BY <1>9 DEF vars
<1> HIDE DEF nodePlaces
<1> QED
  BY <1>1, <1>2, <1>3, <1>4, <1>5, <1>6, <1>7, <1>8, <1>9 DEF Next, NodeNext

\* Every step keeps the invariant.
LEMMA InductiveStep == Inductive /\ [Next]_vars => Inductive'
<1> SUFFICES ASSUME Inductive, [Next]_vars PROVE Inductive'
  OBVIOUS
<1> USE DEF Inductive, Places, EndsOnce, Arriving
<1>1. ASSUME NEW n \in Nodes, HttpHandleFunc(n) PROVE Inductive'
  <2>1. newNodeChan = <<>>
    BY <1>1 DEF HttpHandleFunc
  <2>2. newNodeChan' = <<n>>
    BY <1>1, <2>1 DEF HttpHandleFunc
  <2>3. /\ client[n] = "away" /\ client' = [client EXCEPT ![n] = "here"]
        /\ UNCHANGED <<nodes, ending, told>>
    BY <1>1 DEF HttpHandleFunc, taskVars
  <2> QED
    BY <2>1, <2>2, <2>3
<1>2. ASSUME NEW n \in Nodes, Leave(n) PROVE Inductive'
  BY <1>2 DEF Leave, chanVars, taskVars
<1>3. CASE StartNode
  <2>1. PICK n \in Nodes : newNodeChan = <<n>>
    BY <1>3 DEF StartNode
  <2>2. newNodeChan' = <<>> /\ nodes' = nodes \union {n}
    BY <1>3, <2>1 DEF StartNode
  <2>3. UNCHANGED <<ending, client, told>>
    BY <1>3 DEF StartNode
  <2> QED
    BY <2>1, <2>2, <2>3
<1>4. CASE TakeReport
  <2>1. UNCHANGED <<newNodeChan, nodes, client, told>>
    BY <1>4 DEF TakeReport, TakeReportOf, sideVars
  <2>2. ending' \subseteq nodes
    BY <1>4 DEF TakeReport, TakeReportOf
  <2> QED
    BY <2>1, <2>2
<1>5. CASE EndNode
  <2>1. UNCHANGED <<newNodeChan, client>> /\ ending' = {} /\ nodes' = nodes \ ending
    BY <1>5 DEF EndNode, chanVars
  <2>2. told' = [n \in Nodes |-> IF n \in ending THEN told[n] + 1 ELSE told[n]]
    BY <1>5 DEF EndNode
  <2> QED
    BY <2>1, <2>2
<1>6. CASE UNCHANGED nodePlaces
  BY <1>6 DEF nodePlaces
<1> QED
  BY <1>1, <1>2, <1>3, <1>4, <1>5, <1>6, OthersKeepPlaces

\* The service is told once of the end of a node, which is not found any more, for
\* every number of nodes, callers of Close and capacities (webserver.go 277-286).
THEOREM ToldOnceCorrect == Spec => []ToldOnce
<1>1. Inductive => ToldOnce
  BY DEF Inductive, Places, EndsOnce, ToldOnce
<1> QED
  BY <1>1, InductiveInit, InductiveStep, PTL DEF Spec

(***************************************************************************)
(* Type correctness.                                                       *)
(***************************************************************************)

\* A request is numbered when it is read.
Numbered == \A n \in Nodes : reader[n] \in {"message", "handle", "dispatch"} => asked[n] \in 1..MaxIn
\* A node's goroutines have not been started before, and send holds what it writes.
Unstarted(n) == client[n] = "away" \/ Arriving(n) => reader[n] = "none" /\ writer[n] = "none"
Holds(n) == IF writer[n] = "write" THEN \E p \in Payloads : writing[n] = {p} ELSE writing[n] = {}
Started == \A n \in Nodes : Unstarted(n) /\ Holds(n)

Typed == TypeOK /\ Numbered /\ Started

LEMMA TypedInit == Init => Typed
<1> SUFFICES ASSUME Init PROVE Typed
  OBVIOUS
<1> USE WebNodeAssumption, WebServiceAssumption
        DEF WebNodeAssumption, WebServiceAssumption, Init, NodeInit
<1>1. NodeTypeOK /\ Numbered
  BY DEF NodeTypeOK, Numbered
<1>2. Started
  BY DEF Started, Unstarted, Holds
<1>3. QED
  BY <1>1, <1>2 DEF Typed, TypeOK

\* Reports about n, and what is at the head of the channels.
LEMMA ReportsType ==
  ASSUME NodeTypeOK, NEW n \in Nodes, Reports(n)
  PROVE  delNodeChan' \in Seq(Nodes) /\ Len(delNodeChan') <= DelLimit
<1>1. delNodeChan \in Seq(Nodes) /\ Len(delNodeChan) < DelLimit
  BY DEF NodeTypeOK, Reports
<1>2. delNodeChan' = Append(delNodeChan, n)
  BY DEF Reports
<1>3. Len(delNodeChan) \in Nat /\ DelLimit \in Nat
  BY <1>1, WebNodeAssumption DEF WebNodeAssumption
<1>4. QED
  BY <1>1, <1>2, <1>3

\* The steps of the nodes alone.
LEMMA NodeStep ==
  ASSUME Typed, NodeNext \/ \E n \in Nodes : RefuseReports(n)
  PROVE  NodeTypeOK' /\ Numbered'
<1> USE DEF Typed, TypeOK, chanVars, flagVars, taskVars, sideVars
<1>1. ASSUME NEW n \in Nodes, HttpHandleFunc(n) PROVE NodeTypeOK' /\ Numbered'
  <2>1. newNodeChan' \in Seq(Nodes) /\ Len(newNodeChan') <= 1
    BY <1>1 DEF HttpHandleFunc, NodeTypeOK
  <2>2. QED
    BY <1>1, <2>1 DEF HttpHandleFunc, NodeTypeOK, Numbered
<1>2. ASSUME NEW n \in Nodes, Leave(n) PROVE NodeTypeOK' /\ Numbered'
  BY <1>2 DEF Leave, NodeTypeOK, Numbered
<1>3. CASE StartNode
  <2>1. Head(newNodeChan) \in Nodes
    BY <1>3 DEF StartNode, NodeTypeOK
  <2>2. newNodeChan' \in Seq(Nodes) /\ Len(newNodeChan') <= 1
    BY <1>3 DEF StartNode, NodeTypeOK
  <2>3. QED
    BY <1>3, <2>1, <2>2 DEF StartNode, NodeTypeOK, Numbered
<1>4. CASE AnnounceNode
  BY <1>4 DEF AnnounceNode, NodeTypeOK, Numbered
<1>5. CASE TakeReport
  <2>1. Head(delNodeChan) \in Nodes
    BY <1>5 DEF TakeReport, TakeReportOf, NodeTypeOK
  <2>2. delNodeChan' \in Seq(Nodes) /\ Len(delNodeChan') <= DelLimit
    BY <1>5, WebNodeAssumption DEF TakeReport, TakeReportOf, NodeTypeOK, WebNodeAssumption
  <2>3. /\ isAboutToClose' \subseteq Nodes /\ closed' \subseteq Nodes /\ ending' \subseteq Nodes
    BY <1>5, <2>1 DEF TakeReport, TakeReportOf, NodeTypeOK
  <2>4. UNCHANGED <<newNodeChan, sendChan, closedbyServer, reader, writer, writing, starting,
                    closer, closing, asked, nodes, client, announced, told, delivered>>
    BY <1>5 DEF TakeReport, TakeReportOf
  <2>5. QED
    BY <2>2, <2>3, <2>4 DEF NodeTypeOK, Numbered
<1>6. CASE EndNode
  <2>1. told' \in [Nodes -> Nat]
    BY <1>6 DEF EndNode, NodeTypeOK
  <2>2. QED
    BY <1>6, <2>1 DEF EndNode, NodeTypeOK, Numbered
<1>7. ASSUME NEW n \in Nodes, ReadOk(n) PROVE NodeTypeOK' /\ Numbered'
  <2>1. asked[n] \in 0..MaxIn /\ MaxIn \in Nat
    BY WebNodeAssumption DEF NodeTypeOK, WebNodeAssumption
  <2>2. asked[n] + 1 \in 0..MaxIn /\ asked[n] + 1 \in 1..MaxIn
    BY <1>7, <2>1 DEF ReadOk
  <2>3. asked' \in [Nodes -> 0..MaxIn] /\ asked'[n] \in 1..MaxIn
    BY <1>7, <2>2 DEF ReadOk, NodeTypeOK
  <2>4. QED
    BY <1>7, <2>3 DEF ReadOk, MoveReader, NodeTypeOK, Numbered
<1>8. ASSUME NEW n \in Nodes, Recv(n) PROVE NodeTypeOK' /\ Numbered'
  <2>1. CASE RecvTests(n) \/ ReadFails(n) \/ RecvTestsAgain(n)
    <3>1. PICK to \in {"read", "failed", "handle", "report", "gone"} :
            /\ reader' = [reader EXCEPT ![n] = to]
            /\ to = "handle" => reader[n] = "message"
      <4>1. CASE RecvTests(n)
        BY <4>1 DEF RecvTests, Past, MoveReader
      <4>2. CASE ReadFails(n)
        BY <4>2 DEF ReadFails, MoveReader
      <4>3. CASE RecvTestsAgain(n)
        BY <4>3 DEF RecvTestsAgain, Past, MoveReader
      <4>4. QED
        BY <2>1, <4>1, <4>2, <4>3
    <3>2. ReaderOnly
      BY <2>1 DEF RecvTests, ReadFails, RecvTestsAgain, Past
    <3>3. UNCHANGED <<chanVars, flagVars, writer, writing, starting, ending, closer, closing, sideVars>>
      BY <3>2 DEF ReaderOnly
    <3>4. Numbered'
      BY <3>1, <3>3 DEF NodeTypeOK, Numbered
    <3>5. NodeTypeOK'
      BY <3>1, <3>3 DEF NodeTypeOK
    <3>6. QED
      BY <3>4, <3>5
  <2>2. CASE RecvReports(n)
    <3>1. delNodeChan' \in Seq(Nodes) /\ Len(delNodeChan') <= DelLimit
      BY <2>2, ReportsType DEF RecvReports
    <3>2. QED
      BY <2>2, <3>1 DEF RecvReports, MoveReader, NodeTypeOK, Numbered
  <2>3. QED
    BY <1>8, <2>1, <2>2 DEF Recv
<1>9. ASSUME NEW n \in Nodes, Send(n) PROVE NodeTypeOK' /\ Numbered'
  <2>1. CASE SendTests(n) \/ SendTurns(n)
    <3>1. writer' \in [Nodes -> {"none", "top", "select", "write", "report", "gone"}]
      <4>1. PICK to \in {"top", "select", "report", "gone"} : writer' = [writer EXCEPT ![n] = to]
        BY <2>1, Zenon DEF SendTests, SendTestsUpTo, SendTurns, MoveWriter
      <4>2. QED
        BY <4>1 DEF NodeTypeOK
    <3>2. UNCHANGED <<chanVars, flagVars, reader, writing, starting, ending, closer, closing, sideVars>>
      BY <2>1 DEF SendTests, SendTestsUpTo, SendTurns
    <3>3. QED
      BY <3>1, <3>2 DEF NodeTypeOK, Numbered
  <2>2. CASE SendTakes(n)
    <3>1. Head(sendChan[n]) \in Payloads /\ Tail(sendChan[n]) \in Seq(Payloads)
      <4>1. sendChan[n] \in Seq(Payloads) /\ sendChan[n] # <<>>
        BY <2>2 DEF SendTakes, NodeTypeOK
      <4>2. QED
        BY <4>1
    <3>2. /\ sendChan' \in [Nodes -> Seq(Payloads)] /\ writing' \in [Nodes -> SUBSET Payloads]
          /\ writer' \in [Nodes -> {"none", "top", "select", "write", "report", "gone"}]
      BY <2>2, <3>1 DEF SendTakes, MoveWriter, NodeTypeOK
    <3>3. QED
      BY <2>2, <3>2 DEF SendTakes, NodeTypeOK, Numbered
  <2>3. CASE SendWrites(n)
    <3>1. writing[n] # {}
      BY <2>3 DEF Started, Holds, SendWrites, MoveWriter
    <3>2. (CHOOSE m \in writing[n] : TRUE) \in Payloads
      BY <3>1 DEF NodeTypeOK
    <3>3. delivered' \in [Nodes -> Seq(Payloads)]
      BY <2>3, <3>2 DEF SendWrites, NodeTypeOK
    <3>4. QED
      BY <2>3, <3>3 DEF SendWrites, MoveWriter, NodeTypeOK, Numbered
  <2>4. CASE SendReports(n)
    <3>1. delNodeChan' \in Seq(Nodes) /\ Len(delNodeChan') <= DelLimit
      BY <2>4, ReportsType DEF SendReports
    <3>2. QED
      BY <2>4, <3>1 DEF SendReports, MoveWriter, NodeTypeOK, Numbered
  <2>5. QED
    BY <1>9, <2>1, <2>2, <2>3, <2>4 DEF Send
<1>10. ASSUME NEW c \in Closers, NEW n \in Nodes, Close(c, n) PROVE NodeTypeOK' /\ Numbered'
  BY <1>10 DEF Close, NodeTypeOK, Numbered
<1>11. ASSUME NEW c \in Closers, CloseReports(c) PROVE NodeTypeOK' /\ Numbered'
  <2>1. delNodeChan' \in Seq(Nodes) /\ Len(delNodeChan') <= DelLimit
    BY <1>11, ReportsType DEF CloseReports, NodeTypeOK
  <2>2. QED
    BY <1>11, <2>1 DEF CloseReports, NodeTypeOK, Numbered
<1>12. ASSUME NEW n \in Nodes, RefuseReports(n) PROVE NodeTypeOK' /\ Numbered'
  <2>1. delNodeChan' \in Seq(Nodes) /\ Len(delNodeChan') <= DelLimit
    BY <1>12, ReportsType DEF RefuseReports
  <2>2. QED
    BY <1>12, <2>1, SMTT(30) DEF RefuseReports, MoveReader, NodeTypeOK, Numbered
<1>13. QED
  BY <1>1, <1>2, <1>3, <1>4, <1>5, <1>6, <1>7, <1>8, <1>9, <1>10, <1>11, <1>12 DEF NodeNext

\* A goroutine of a node moves only when it has been started, and is started once.
LEMMA StartedStep ==
  ASSUME Inductive, Typed, NodeNext \/ \E n \in Nodes : RefuseReports(n)
  PROVE  Started'
<1> USE DEF Typed, TypeOK, NodeTypeOK, chanVars, flagVars, taskVars, sideVars
<1> SUFFICES ASSUME NEW m \in Nodes PROVE Unstarted(m)' /\ Holds(m)'
  BY DEF Started
<1>0. Unstarted(m) /\ Holds(m)
  BY DEF Started
<1>1. ASSUME UNCHANGED <<newNodeChan, client>>,
             reader[m] # "none" \/ reader'[m] = reader[m],
             writer[m] # "none" \/ writer'[m] = writer[m]
      PROVE  Unstarted(m)'
  BY <1>0, <1>1 DEF Unstarted, Arriving
<1>2. ASSUME UNCHANGED <<writer, writing>> PROVE Holds(m)'
  BY <1>0, <1>2 DEF Holds
<1>3. ASSUME NEW n \in Nodes, HttpHandleFunc(n) PROVE Unstarted(m)'
  <2>0. newNodeChan = <<>>
    BY <1>3 DEF HttpHandleFunc, Inductive, Places
  <2>1. client[n] = "away" /\ newNodeChan' = <<n>>
    BY <1>3, <2>0 DEF HttpHandleFunc
  <2>2. client' = [client EXCEPT ![n] = "here"] /\ UNCHANGED <<reader, writer>>
    BY <1>3 DEF HttpHandleFunc
  <2>3. QED
    BY <1>0, <2>0, <2>1, <2>2 DEF Unstarted, Arriving
<1>4. ASSUME NEW n \in Nodes, Leave(n) PROVE Unstarted(m)'
  BY <1>0, <1>4 DEF Leave, Unstarted, Arriving
<1>5. CASE StartNode
  <2>1. PICK n \in Nodes : newNodeChan = <<n>>
    BY <1>5 DEF StartNode, Inductive, Places
  <2>2. Head(newNodeChan) = n /\ Tail(newNodeChan) = <<>> /\ Arriving(n)
    BY <2>1 DEF Arriving
  <2>3. /\ newNodeChan' = <<>> /\ client' = client
        /\ reader' = [reader EXCEPT ![n] = "top"] /\ writer' = [writer EXCEPT ![n] = "top"]
        /\ writing' = writing
    BY <1>5, <2>2 DEF StartNode
  <2>4. client[n] # "away" /\ writing[n] = {}
    BY <2>2 DEF Inductive, EndsOnce, Started, Unstarted, Holds
  <2>5. Unstarted(m)'
    BY <1>0, <2>3, <2>4 DEF Unstarted, Arriving
  <2>6. Holds(m)'
    BY <1>0, <2>3, <2>4 DEF Holds
  <2>7. QED
    BY <2>5, <2>6
<1>6. CASE AnnounceNode \/ TakeReport \/ EndNode
  BY <1>1, <1>2, <1>6 DEF AnnounceNode, TakeReport, TakeReportOf, EndNode
<1>7. ASSUME NEW n \in Nodes, ReadOk(n) \/ RefuseReports(n) PROVE Unstarted(m)' /\ Holds(m)'
  <2>1. reader[n] # "none" /\ \A k \in Nodes \ {n} : reader'[k] = reader[k]
    BY <1>7, SMTT(30) DEF ReadOk, RefuseReports, MoveReader
  <2>2. UNCHANGED <<newNodeChan, client, writer, writing>>
    BY <1>7 DEF ReadOk, RefuseReports
  <2>3. QED
    BY <1>1, <1>2, <2>1, <2>2
<1>8. ASSUME NEW n \in Nodes, Recv(n) PROVE Unstarted(m)' /\ Holds(m)'
  <2>1. reader[n] # "none" /\ \A k \in Nodes \ {n} : reader'[k] = reader[k]
    BY <1>8 DEF Recv, RecvTests, ReadFails, RecvTestsAgain, RecvReports, Past, MoveReader
  <2>2. UNCHANGED <<newNodeChan, client, writer, writing>>
    BY <1>8 DEF Recv, RecvTests, ReadFails, RecvTestsAgain, RecvReports, Past, ReaderOnly
  <2>3. QED
    BY <1>1, <1>2, <2>1, <2>2
<1>9. ASSUME NEW n \in Nodes, Send(n) PROVE Unstarted(m)' /\ Holds(m)'
  <2>1. /\ writer[n] # "none" /\ \A k \in Nodes \ {n} : writer'[k] = writer[k]
        /\ UNCHANGED <<newNodeChan, client, reader>>
    <3>1. CASE SendTests(n)
      BY <3>1, Zenon DEF SendTests, SendTestsUpTo, MoveWriter
    <3>2. CASE ~SendTests(n)
      BY <1>9, <3>2 DEF Send, SendTakes, SendTurns, SendWrites, SendReports, MoveWriter
    <3>3. QED
      BY <3>1, <3>2
  <2>2. Unstarted(m)'
    BY <1>1, <2>1
  <2>3. /\ writer'[n] = "write" => \E p \in Payloads : writing'[n] = {p}
        /\ writer'[n] # "write" => writing'[n] = {}
    <3>1. CASE SendTests(n) \/ SendTurns(n) \/ SendReports(n)
      <4>1. /\ writer[n] # "write" /\ writer'[n] # "write" /\ writing' = writing
        BY <3>1 DEF SendTests, SendTestsUpTo, SendTurns, SendReports, MoveWriter
      <4>2. QED
        BY <4>1 DEF Started, Holds
    <3>2. CASE SendTakes(n)
      <4>1. writer'[n] = "write" /\ writing'[n] = {Head(sendChan[n])}
        BY <3>2 DEF SendTakes, MoveWriter
      <4>2. sendChan[n] \in Seq(Payloads) /\ sendChan[n] # <<>>
        BY <3>2 DEF SendTakes
      <4>3. Head(sendChan[n]) \in Payloads
        BY <4>2
      <4>4. QED
        BY <4>1, <4>3
    <3>3. CASE SendWrites(n)
      BY <3>3 DEF SendWrites, MoveWriter
    <3>4. QED
      BY <1>9, <3>1, <3>2, <3>3 DEF Send
  <2>4. \A k \in Nodes \ {n} : writing'[k] = writing[k]
    BY <1>9 DEF Send, SendTests, SendTestsUpTo, SendTakes, SendTurns, SendWrites, SendReports
  <2>5. Holds(m)'
    BY <1>0, <2>1, <2>3, <2>4 DEF Holds
  <2>6. QED
    BY <2>2, <2>5
<1>10. ASSUME NEW c \in Closers, (\E n \in Nodes : Close(c, n)) \/ CloseReports(c)
       PROVE  Unstarted(m)' /\ Holds(m)'
  BY <1>1, <1>2, <1>10 DEF Close, CloseReports
<1>11. ASSUME NEW n \in Nodes, HttpHandleFunc(n) \/ Leave(n) PROVE Holds(m)'
  BY <1>2, <1>11 DEF HttpHandleFunc, Leave
<1>12. QED
  BY <1>3, <1>4, <1>5, <1>6, <1>7, <1>8, <1>9, <1>10, <1>11 DEF NodeNext

\* A request that is dispatched has the number of its message.
LEMMA RequestType ==
  ASSUME Typed, NEW n \in Nodes, reader[n] \in {"handle", "dispatch"}
  PROVE  Request(n) \in Requests
BY WebNodeAssumption DEF Typed, Numbered, Request, Requests, WebNodeAssumption

\* The reader comes back from a message.
HandledFrom(n) == \E from \in {"handle", "dispatch"}, ok \in BOOLEAN : Handled(n, from, ok)

\* A step of OnNewWebMsg, but for Refuse, moves the reader alone.
LEMMA HandledStep ==
  ASSUME Typed, NEW n \in Nodes,
         Refuse(n) \/ Accept(n) \/ HandledFrom(n)
  PROVE  NodeTypeOK' /\ Numbered' /\ Started' /\ reader[n] \in {"handle", "dispatch"}
<1> USE DEF Refuse, Accept, HandledFrom, Handled, MoveReader, ReaderOnly, chanVars, flagVars, taskVars, sideVars,
            Typed, TypeOK, NodeTypeOK
<1>1. /\ reader[n] \in {"handle", "dispatch"} /\ \A k \in Nodes \ {n} : reader'[k] = reader[k]
      /\ reader' \in [Nodes -> {"none", "top", "read", "message", "failed", "handle",
                                "dispatch", "refuse", "report", "gone"}]
      /\ reader'[n] \notin {"message", "handle"}
      /\ asked' = asked
  OBVIOUS
<1>2. UNCHANGED <<newNodeChan, delNodeChan, sendChan, closed, isAboutToClose, writer, writing,
                  starting, ending, closer, closing, sideVars>>
  OBVIOUS
<1>3. closedbyServer' \subseteq Nodes
  OBVIOUS
<1>4. NodeTypeOK' /\ Numbered'
  BY <1>1, <1>2, <1>3 DEF Numbered
<1>5. Started'
  BY <1>1, <1>2 DEF Started, Unstarted, Holds, Arriving
<1>6. QED
  BY <1>1, <1>4, <1>5

\* The steps of a routine of the pool.
LEMMA TaskStep ==
  ASSUME Typed, NEW r \in Runners, RunTask(r)
  PROVE  TypeOK' /\ Numbered' /\ Started'
<1> USE DEF Typed, TypeOK, nodeVars, chanVars, flagVars, taskVars, sideVars
<1>1. /\ reply' \in [Runners -> {"idle", "get", "check", "push"}]
      /\ task' \in [Runners -> SUBSET Requests]
      /\ UNCHANGED <<single, taskChan>>
  BY DEF RunTask, GetNode, SendChecks, SendPuts, SendGivesUp, MoveReply
<1>2. CASE GetNode(r) \/ SendChecks(r) \/ SendGivesUp(r)
  <2>1. UNCHANGED <<owed, nodeVars>>
    BY <1>2 DEF GetNode, SendChecks, SendGivesUp
  <2>2. QED
    BY <1>1, <2>1 DEF NodeTypeOK, Numbered, Started, Unstarted, Holds, Arriving
<1>3. CASE SendPuts(r)
  <2>1. PICK q \in Requests :
          /\ sendChan' = [sendChan EXCEPT ![q.node] = Append(@, q.number)]
          /\ owed' = IF IsClose(q.node) THEN owed
                     ELSE [owed EXCEPT ![q.node] = @ \union {q.number}]
    BY <1>3 DEF SendPuts
  <2>2. q.node \in Nodes /\ q.number \in Payloads
    BY DEF Requests
  <2>3. sendChan' \in [Nodes -> Seq(Payloads)] /\ owed' \in [Nodes -> SUBSET Payloads]
    BY <2>1, <2>2, SMTT(30) DEF NodeTypeOK
  <2>4. UNCHANGED <<newNodeChan, delNodeChan, flagVars, taskVars, sideVars>>
    BY <1>3 DEF SendPuts
  <2>5. QED
    BY <1>1, <2>3, <2>4 DEF NodeTypeOK, Numbered, Started, Unstarted, Holds, Arriving
<1>4. QED
  BY <1>2, <1>3 DEF RunTask

LEMMA TypedStep == Inductive /\ Typed /\ [Next]_vars => Typed'
<1> SUFFICES ASSUME Inductive, Typed, [Next]_vars PROVE Typed'
  OBVIOUS
<1>1. TypeOK /\ Loop \in Runners /\ TaskLimit \in Nat
  BY WebServiceAssumption DEF Typed, WebServiceAssumption
<1>2. CASE (NodeNext \/ \E n \in Nodes : RefuseReports(n)) /\ UNCHANGED serviceVars
  BY <1>1, <1>2, NodeStep, StartedStep DEF Typed, TypeOK, serviceVars
<1>3. ASSUME NEW n \in Nodes, OnNewWebMsg(n) PROVE Typed'
  <2>1. Refuse(n) \/ Accept(n) \/ HandledFrom(n)
    BY <1>3 DEF OnNewWebMsg, HandledFrom, Malformed, Undecodable, Decoded,
                ProcessMsgWithSingleThread, ProcessMsgMultiThread
  <2>2. NodeTypeOK' /\ Numbered' /\ Started' /\ Request(n) \in Requests
    BY <2>1, HandledStep, RequestType
  <2>3. CASE Malformed(n) \/ Undecodable(n) \/ Decoded(n)
    BY <1>1, <2>2, <2>3 DEF Malformed, Undecodable, Decoded, serviceVars, Typed, TypeOK
  <2>4. CASE ProcessMsgWithSingleThread(n)
    <3>1. /\ taskChan' = Append(taskChan, Request(n)) /\ Len(taskChan) < TaskLimit
          /\ UNCHANGED <<single, task, reply, owed>>
      BY <2>4 DEF ProcessMsgWithSingleThread
    <3>2. taskChan' \in Seq(Requests) /\ Len(taskChan') <= TaskLimit
      BY <1>1, <2>2, <3>1 DEF TypeOK
    <3>3. QED
      BY <1>1, <2>2, <3>1, <3>2 DEF Typed, TypeOK
  <2>5. CASE ProcessMsgMultiThread(n)
    <3>1. /\ UNCHANGED <<single, taskChan, owed>>
          /\ task' \in [Runners -> SUBSET Requests]
          /\ reply' \in [Runners -> {"idle", "get", "check", "push"}]
      <4>1. \/ UNCHANGED <<task, reply>>
            \/ \E r \in Runners : /\ task' = [task EXCEPT ![r] = {Request(n)}]
                                  /\ reply' = [reply EXCEPT ![r] = "get"]
        BY <2>5, Zenon DEF ProcessMsgMultiThread
      <4>2. UNCHANGED <<single, taskChan, owed>>
        BY <2>5 DEF ProcessMsgMultiThread
      <4>3. QED
        BY <1>1, <2>2, <4>1, <4>2 DEF TypeOK
    <3>2. QED
      BY <1>1, <2>2, <3>1 DEF Typed, TypeOK
  <2>6. QED
    BY <1>3, <2>3, <2>4, <2>5 DEF OnNewWebMsg
<1>4. CASE TakeTask
  <2>1. taskChan \in Seq(Requests) /\ taskChan # <<>> /\ Len(taskChan) <= TaskLimit
    BY <1>1, <1>4 DEF TakeTask, TypeOK
  <2>2. /\ Head(taskChan) \in Requests /\ Tail(taskChan) \in Seq(Requests)
        /\ Len(Tail(taskChan)) <= TaskLimit
    BY <1>1, <2>1
  <2>3. /\ taskChan' = Tail(taskChan) /\ UNCHANGED <<single, owed, nodeVars>>
        /\ task' \in [Runners -> SUBSET Requests]
        /\ reply' \in [Runners -> {"idle", "get", "check", "push"}]
    BY <1>1, <1>4, <2>2 DEF TakeTask, TypeOK
  <2>4. NodeTypeOK' /\ Numbered' /\ Started'
    BY <2>3 DEF Typed, TypeOK, NodeTypeOK, Numbered, Started, Unstarted, Holds, Arriving,
                nodeVars, chanVars, flagVars, taskVars, sideVars
  <2>5. QED
    BY <1>1, <2>2, <2>3, <2>4 DEF Typed, TypeOK
<1>5. ASSUME NEW r \in Runners, RunTask(r) PROVE Typed'
  BY <1>5, TaskStep DEF Typed
<1>6. CASE UNCHANGED vars
  BY <1>6 DEF vars, Typed, TypeOK, NodeTypeOK, Numbered, Started, Unstarted, Holds, Arriving,
              serviceVars, nodeVars, chanVars, flagVars, taskVars, sideVars
<1>7. QED
  BY <1>2, <1>3, <1>4, <1>5, <1>6 DEF Next

\* For every number of nodes, callers and routines, and every capacity.
THEOREM TypeCorrect == Spec => []TypeOK
<1>1. Typed => TypeOK
  BY DEF Typed
<1>2. QED
  BY <1>1, InductiveInit, InductiveStep, TypedInit, TypedStep, PTL DEF Spec

(***************************************************************************)
(* The draining of a node.                                                 *)
(***************************************************************************)

\* What has been accepted for a node is delivered, being written or in its channel, as
\* long as its client may get it; and delivered, when send reports the node.
Listens(n) == client[n] # "left" /\ told[n] = 0
Got(n, p) == \E i \in DOMAIN delivered[n] : delivered[n][i] = p
GotAll(n) == \A p \in owed[n] : Got(n, p)
Waits(n, p) == \E i \in DOMAIN sendChan[n] : sendChan[n][i] = p
Accounted(n) == \A p \in owed[n] : Got(n, p) \/ p \in writing[n] \/ Waits(n, p)

Owing(n) == /\ Listens(n) => Accounted(n)
            /\ writer[n] = "report" => n \in isAboutToClose /\ (Listens(n) => GotAll(n))

\* Callers of Close, and what listenDelNode ends.
Callers == /\ \A c \in Closers : /\ closing[c] = {} \/ \E n \in Nodes : closing[c] = {n}
                                 /\ closer[c] = "idle" => closing[c] = {}
           /\ ending \subseteq closed

\* A node whose recv has reported nothing and that at most one caller closes: the first
\* report is that of the caller and starts the draining, the next one that of send.
Quiet(n) == /\ reader[n] \notin {"refuse", "report", "gone"}
            /\ \A c, d \in Closers : closing[c] = {n} /\ closing[d] = {n} => c = d
Closed(n) == \E c \in Closers : closing[c] = {n} /\ closer[c] = "done"
Lacks(s, n) == \A i \in DOMAIN s : s[i] # n
Single(s, n) == \A i, j \in DOMAIN s : s[i] = n /\ s[j] = n => i = j

Undrained(n) == /\ n \notin isAboutToClose /\ n \notin closed
                /\ writer[n] \notin {"report", "gone"}
                /\ Lacks(delNodeChan, n) \/ (Single(delNodeChan, n) /\ Closed(n))
Draining(n) == /\ n \in isAboutToClose /\ n \notin closed
               /\ writer[n] # "gone"
               /\ Lacks(delNodeChan, n) /\ Closed(n)
Drained(n) == /\ n \in isAboutToClose
              /\ writer[n] = "gone"
              /\ Listens(n) => GotAll(n)
Phase(n) == /\ n \in closedbyServer <=> \E c \in Closers : closing[c] = {n}
            /\ Undrained(n) \/ Draining(n) \/ Drained(n)

Drains == /\ Callers
          /\ \A n \in Nodes : Owing(n) /\ (Quiet(n) => Phase(n))

LEMMA DrainsInit == Init => Drains
<1> SUFFICES ASSUME Init PROVE Drains
  OBVIOUS
<1>1. Callers
  BY DEF Init, NodeInit, Callers
<1>2. ASSUME NEW n \in Nodes PROVE Owing(n) /\ Phase(n)
  <2>1. /\ owed[n] = {} /\ writer[n] = "none" /\ delNodeChan = <<>>
        /\ isAboutToClose = {} /\ closed = {} /\ closedbyServer = {}
        /\ \A c \in Closers : closing[c] = {}
    BY DEF Init, NodeInit
  <2>2. Lacks(delNodeChan, n)
    BY <2>1 DEF Lacks
  <2>3. QED
    BY <2>1, <2>2 DEF Owing, Accounted, Phase, Undrained
<1>3. QED
  BY <1>1, <1>2 DEF Drains

\* Reports in a channel.
LEMMA AppendOther ==
  ASSUME NEW s \in Seq(Nodes), NEW n \in Nodes, NEW m \in Nodes, n # m
  PROVE  /\ Lacks(s, m) => Lacks(Append(s, n), m)
         /\ Single(s, m) => Single(Append(s, n), m)
<1>1. /\ DOMAIN Append(s, n) = 1 .. Len(s) + 1 /\ DOMAIN s = 1 .. Len(s) /\ Len(s) \in Nat
      /\ \A i \in 1 .. Len(s) : Append(s, n)[i] = s[i]
      /\ Append(s, n)[Len(s) + 1] = n
  OBVIOUS
<1>2. \A i \in DOMAIN Append(s, n) : Append(s, n)[i] = m => i \in DOMAIN s /\ s[i] = m
  BY <1>1
<1>3. QED
  BY <1>2 DEF Lacks, Single

LEMMA AppendFirst ==
  ASSUME NEW s \in Seq(Nodes), NEW n \in Nodes, Lacks(s, n)
  PROVE  Single(Append(s, n), n)
<1>1. /\ DOMAIN Append(s, n) = 1 .. Len(s) + 1 /\ DOMAIN s = 1 .. Len(s) /\ Len(s) \in Nat
      /\ \A i \in 1 .. Len(s) : Append(s, n)[i] = s[i]
  OBVIOUS
<1>2. \A i \in DOMAIN Append(s, n) : Append(s, n)[i] = n => i = Len(s) + 1
  BY <1>1 DEF Lacks
<1>3. QED
  BY <1>2 DEF Single

LEMMA TailKeeps ==
  ASSUME NEW s \in Seq(Nodes), s # <<>>, NEW m \in Nodes
  PROVE  /\ Head(s) \in Nodes
         /\ Lacks(s, m) => Head(s) # m /\ Lacks(Tail(s), m)
         /\ Single(s, m) => Single(Tail(s), m)
         /\ Single(s, m) /\ Head(s) = m => Lacks(Tail(s), m)
<1>1. /\ Len(s) \in Nat \ {0} /\ DOMAIN s = 1 .. Len(s) /\ Head(s) = s[1] /\ Head(s) \in Nodes
      /\ DOMAIN Tail(s) = 1 .. Len(s) - 1
      /\ \A i \in 1 .. Len(s) - 1 : Tail(s)[i] = s[i + 1]
  OBVIOUS
<1>2. /\ 1 \in DOMAIN s
      /\ \A i \in DOMAIN Tail(s) : i \in Nat \ {0} /\ i + 1 \in DOMAIN s /\ Tail(s)[i] = s[i + 1]
  BY <1>1
<1>3. Lacks(s, m) => Head(s) # m /\ Lacks(Tail(s), m)
  BY <1>1, <1>2 DEF Lacks
<1>4. ASSUME Single(s, m), NEW i \in DOMAIN Tail(s), NEW j \in DOMAIN Tail(s),
             Tail(s)[i] = m, Tail(s)[j] = m
      PROVE  i = j
  <2>1. i + 1 = j + 1
    BY <1>2, <1>4 DEF Single
  <2>2. QED
    BY <1>2, <2>1
<1>5. ASSUME Single(s, m), Head(s) = m, NEW i \in DOMAIN Tail(s), Tail(s)[i] = m
      PROVE  FALSE
  <2>1. i + 1 = 1
    BY <1>1, <1>2, <1>5 DEF Single
  <2>2. QED
    BY <1>2, <2>1
<1>6. QED
  BY <1>1, <1>3, <1>4, <1>5 DEF Single, Lacks

\* What a step does to what node m is owed: nobody listens again, nothing is owed once it
\* closes, and what it got it keeps.
LEMMA Effects ==
  ASSUME Inductive, Typed, [Next]_vars, NEW m \in Nodes
  PROVE  /\ Listens(m)' => Listens(m)
         /\ m \in isAboutToClose => owed'[m] = owed[m] /\ m \in isAboutToClose'
         /\ \A p : Got(m, p) => Got(m, p)'
<1> USE DEF chanVars, flagVars, taskVars, sideVars, nodeVars, serviceVars
<1>1. Listens(m)' => Listens(m)
  <2>1. /\ client \in [Nodes -> {"away", "here", "left"}] /\ told \in [Nodes -> Nat]
        /\ ending \subseteq Nodes
    BY DEF Inductive, Places
  <2>2. ASSUME UNCHANGED nodePlaces PROVE Listens(m)' => Listens(m)
    BY <2>2 DEF nodePlaces, Listens
  <2>3. CASE StartNode \/ TakeReport
    BY <2>3 DEF StartNode, TakeReport, TakeReportOf, Listens
  <2>4. CASE EndNode
    <3>1. told'[m] \in {told[m], told[m] + 1} /\ client' = client
      BY <2>4 DEF EndNode
    <3>2. QED
      BY <2>1, <3>1 DEF Listens
  <2>5. ASSUME NEW n \in Nodes, HttpHandleFunc(n) \/ Leave(n) PROVE Listens(m)' => Listens(m)
    BY <2>1, <2>5 DEF HttpHandleFunc, Leave, Listens
  <2>6. QED
    BY <2>2, <2>3, <2>4, <2>5, OthersKeepPlaces
<1>2. m \in isAboutToClose => owed'[m] = owed[m]
  <2>1. CASE UNCHANGED owed
    BY <2>1
  <2>2. ASSUME NEW r \in Runners, SendPuts(r), m \in isAboutToClose PROVE owed'[m] = owed[m]
    <3>1. PICK q \in Requests :
            owed' = IF IsClose(q.node) THEN owed
                    ELSE [owed EXCEPT ![q.node] = @ \union {q.number}]
      BY <2>2 DEF SendPuts, Typed, TypeOK
    <3>2. CASE q.node = m
      BY <2>2, <3>1, <3>2 DEF IsClose
    <3>3. CASE q.node # m
      BY <3>1, <3>3 DEF Typed, TypeOK
    <3>4. QED
      BY <3>2, <3>3
  <2>3. UNCHANGED owed \/ \E r \in Runners : SendPuts(r)
    BY DEF Next, OnNewWebMsg, Malformed, Undecodable, Decoded, Accept, ProcessMsgWithSingleThread,
           ProcessMsgMultiThread, TakeTask, RunTask, GetNode, SendChecks, SendGivesUp, vars
  <2>4. QED
    BY <2>1, <2>2, <2>3
<1>3. m \in isAboutToClose => m \in isAboutToClose'
  <2>1. UNCHANGED isAboutToClose \/ TakeReport
    <3>1. CASE NodeNext
      BY <3>1 DEF NodeNext, HttpHandleFunc, Leave, StartNode, AnnounceNode, EndNode, ReadOk,
         Recv, RecvTests, ReadFails, RecvTestsAgain, RecvReports, Past, ReaderOnly,
         Send, SendTests, SendTestsUpTo, SendTakes, SendTurns, SendWrites, SendReports,
         Close, CloseReports
    <3>2. CASE ~NodeNext
      BY <3>2 DEF Next, OnNewWebMsg, Malformed, Undecodable, Decoded, Accept, ProcessMsgWithSingleThread,
         ProcessMsgMultiThread, Refuse, Handled, ReaderOnly, RefuseReports, TakeTask, RunTask,
         GetNode, SendChecks, SendPuts, SendGivesUp, vars
    <3>3. QED
      BY <3>1, <3>2
  <2>2. QED
    BY <2>1 DEF TakeReport, TakeReportOf
<1>4. ASSUME NEW p, Got(m, p) PROVE Got(m, p)'
  <2>1. CASE UNCHANGED delivered
    BY <1>4, <2>1 DEF Got
  <2>2. ASSUME NEW n \in Nodes, SendWrites(n) PROVE Got(m, p)'
    <3>1. delivered[m] \in Seq(Payloads)
      BY DEF Typed, TypeOK, NodeTypeOK
    <3>2. CASE delivered'[m] = delivered[m]
      BY <1>4, <3>2 DEF Got
    <3>3. CASE delivered'[m] # delivered[m]
      <4>1. PICK b : delivered'[m] = delivered[m] \o <<b>>
        BY <2>2, <3>3 DEF SendWrites, Typed, TypeOK, NodeTypeOK
      <4>2. PICK i \in DOMAIN delivered[m] : delivered[m][i] = p
        BY <1>4 DEF Got
      <4>3. i \in DOMAIN delivered'[m] /\ delivered'[m][i] = p
        BY <3>1, <4>1, <4>2
      <4>4. QED
        BY <4>3 DEF Got
    <3>4. QED
      BY <3>2, <3>3
  <2>3. UNCHANGED delivered \/ \E n \in Nodes : SendWrites(n)
    <3>1. CASE NodeNext
      BY <3>1 DEF NodeNext, HttpHandleFunc, Leave, StartNode, AnnounceNode, TakeReport,
         TakeReportOf, EndNode, ReadOk,
         Recv, RecvTests, ReadFails, RecvTestsAgain, RecvReports, Past, ReaderOnly,
         Send, SendTests, SendTestsUpTo, SendTakes, SendTurns, SendReports,
         Close, CloseReports
    <3>2. CASE ~NodeNext
      BY <3>2 DEF Next, OnNewWebMsg, Malformed, Undecodable, Decoded, Accept, ProcessMsgWithSingleThread,
         ProcessMsgMultiThread, Refuse, Handled, ReaderOnly, RefuseReports, TakeTask, RunTask,
         GetNode, SendChecks, SendPuts, SendGivesUp, vars
    <3>3. QED
      BY <3>1, <3>2
  <2>4. QED
    BY <2>1, <2>2, <2>3
<1>5. QED
  BY <1>1, <1>2, <1>3, <1>4

\* A node that has got what it is owed when it closes, has got it from then on.
LEMMA GotAllStays ==
  ASSUME Inductive, Typed, [Next]_vars, NEW m \in Nodes,
         m \in isAboutToClose, Listens(m) => GotAll(m)
  PROVE  (Listens(m) => GotAll(m))'
<1>1. /\ Listens(m)' => Listens(m)
      /\ owed'[m] = owed[m]
      /\ \A p : Got(m, p) => Got(m, p)'
  BY Effects
<1>2. GotAll(m) => GotAll(m)'
  BY <1>1 DEF GotAll
<1>3. QED
  BY <1>1, <1>2

\* A step that moves nothing of what node m waits for keeps the account.
LEMMA OwingKept ==
  ASSUME Inductive, Typed, [Next]_vars, NEW m \in Nodes, Owing(m),
         owed'[m] = owed[m], writing'[m] = writing[m], sendChan'[m] = sendChan[m],
         writer'[m] = "report" => writer[m] = "report"
  PROVE  Owing(m)'
<1>1. /\ Listens(m)' => Listens(m)
      /\ \A p : Got(m, p) => Got(m, p)'
  BY Effects
<1>2. Accounted(m) => Accounted(m)'
  BY <1>1 DEF Accounted, Waits
<1>3. writer'[m] = "report" => m \in isAboutToClose' /\ (Listens(m) => GotAll(m))'
  BY Effects, GotAllStays DEF Owing
<1>4. QED
  BY <1>1, <1>2, <1>3 DEF Owing

\* Send of node m takes, writes and reports in this order.
LEMMA OwingSend ==
  ASSUME Inductive, Typed, [Next]_vars, NEW m \in Nodes, Owing(m),
         Send(m), UNCHANGED serviceVars
  PROVE  Owing(m)'
<1> USE DEF chanVars, flagVars, taskVars, sideVars, nodeVars, serviceVars
<1>1. owed' = owed
  OBVIOUS
<1>2. /\ Listens(m)' => Listens(m)
      /\ \A p : Got(m, p) => Got(m, p)'
  BY Effects
<1>3. /\ sendChan[m] \in Seq(Payloads) /\ Holds(m) /\ Unstarted(m)
      /\ writer \in [Nodes -> {"none", "top", "select", "write", "report", "gone"}]
  BY DEF Typed, TypeOK, NodeTypeOK, Started
<1>4. CASE SendTurns(m) \/ SendReports(m)
  <2>1. \E to \in {"top", "gone"} : writer' = [writer EXCEPT ![m] = to]
    BY <1>4 DEF SendTurns, SendReports, MoveWriter
  <2>2. writer'[m] # "report" /\ UNCHANGED <<sendChan, writing>>
    BY <1>4, <2>1 DEF SendTurns, SendReports, Typed, TypeOK, NodeTypeOK
  <2>3. QED
    BY <1>1, <2>2, OwingKept
<1>5. CASE SendTests(m)
  <2>1. /\ writer[m] = "top" /\ UNCHANGED <<sendChan, isAboutToClose, writing, delivered, client, told>>
        /\ writer'[m] = "report" => m \in isAboutToClose /\ Len(sendChan[m]) <= 0
    BY <1>3, <1>5 DEF SendTests, SendTestsUpTo, MoveWriter
  <2>2. Accounted(m) => Accounted(m)'
    BY <1>1, <2>1 DEF Accounted, Got, Waits
  <2>3. ASSUME writer'[m] = "report", Accounted(m) PROVE GotAll(m)'
    <3>1. DOMAIN sendChan[m] = {}
      <4>1. Len(sendChan[m]) \in Nat /\ DOMAIN sendChan[m] = 1 .. Len(sendChan[m])
        BY <1>3
      <4>2. QED
        BY <2>1, <2>3, <4>1
    <3>2. writing[m] = {}
      BY <1>3, <2>1 DEF Holds
    <3>3. QED
      BY <1>1, <1>2, <2>3, <3>1, <3>2 DEF Accounted, Waits, GotAll
  <2>4. QED
    BY <1>2, <2>1, <2>2, <2>3 DEF Owing
<1>6. CASE SendTakes(m)
  <2>1. /\ writer'[m] = "write" /\ UNCHANGED <<delivered, client, told>> /\ sendChan[m] # <<>>
        /\ writing'[m] = {Head(sendChan[m])} /\ sendChan'[m] = Tail(sendChan[m])
        /\ writer[m] = "select"
    BY <1>3, <1>6 DEF SendTakes, MoveWriter, Typed, TypeOK, NodeTypeOK
  <2>2. ASSUME NEW p, Waits(m, p) PROVE p \in writing'[m] \/ Waits(m, p)'
    <3>1. PICK i \in DOMAIN sendChan[m] : sendChan[m][i] = p
      BY <2>2 DEF Waits
    <3>2. CASE i = 1
      BY <1>3, <2>1, <3>1, <3>2
    <3>3. CASE i # 1
      <4>1. i - 1 \in DOMAIN Tail(sendChan[m]) /\ Tail(sendChan[m])[i - 1] = p
        BY <1>3, <2>1, <3>1, <3>3
      <4>2. QED
        BY <2>1, <4>1 DEF Waits
    <3>4. QED
      BY <3>2, <3>3
  <2>3. writing[m] = {}
    BY <1>3, <2>1 DEF Holds
  <2>4. Accounted(m) => Accounted(m)'
    BY <1>1, <1>2, <2>2, <2>3 DEF Accounted
  <2>5. QED
    BY <1>2, <2>1, <2>4 DEF Owing
<1>7. CASE SendWrites(m)
  <2>1. /\ writer[m] = "write" /\ writer'[m] = "top" /\ UNCHANGED <<sendChan, client, told>>
        /\ delivered' = IF client[m] = "here" /\ told[m] = 0
                        THEN [delivered EXCEPT ![m] = @ \o <<CHOOSE b \in writing[m] : TRUE>>]
                        ELSE delivered
    BY <1>3, <1>7 DEF SendWrites, MoveWriter
  <2>2. PICK b : writing[m] = {b}
    BY <1>3, <2>1 DEF Holds
  <2>3. ASSUME Listens(m) PROVE Got(m, b)'
    <3>1. client[m] = "here" /\ told[m] = 0
      BY <1>3, <2>1, <2>3 DEF Listens, Unstarted, Typed, TypeOK, NodeTypeOK
    <3>2. delivered[m] \in Seq(Payloads) /\ delivered'[m] = delivered[m] \o <<b>>
      BY <2>1, <2>2, <3>1 DEF Typed, TypeOK, NodeTypeOK
    <3>3. /\ Len(delivered[m]) + 1 \in DOMAIN delivered'[m]
          /\ delivered'[m][Len(delivered[m]) + 1] = b
      BY <3>2
    <3>4. QED
      BY <3>3 DEF Got
  <2>4. Listens(m) /\ Accounted(m) => Accounted(m)'
    BY <1>1, <1>2, <2>1, <2>2, <2>3 DEF Accounted, Waits
  <2>5. QED
    BY <1>2, <2>1, <2>4 DEF Owing
<1>8. QED
  BY <1>4, <1>5, <1>6, <1>7 DEF Send

\* A reply that is accepted is in the channel.
LEMMA OwingPut ==
  ASSUME Inductive, Typed, [Next]_vars, NEW m \in Nodes, Owing(m),
         NEW r \in Runners, SendPuts(r)
  PROVE  Owing(m)'
<1>1. PICK q \in Requests :
        /\ sendChan' = [sendChan EXCEPT ![q.node] = Append(@, q.number)]
        /\ owed' = IF IsClose(q.node) THEN owed
                   ELSE [owed EXCEPT ![q.node] = @ \union {q.number}]
  BY DEF SendPuts, Typed, TypeOK
<1>2. UNCHANGED <<isAboutToClose, writer, writing, client, told, delivered>>
  BY DEF SendPuts, flagVars, taskVars, sideVars
<1>3. sendChan \in [Nodes -> Seq(Payloads)] /\ owed \in [Nodes -> SUBSET Payloads]
  BY DEF Typed, TypeOK, NodeTypeOK
<1>4. CASE q.node # m
  <2>1. owed'[m] = owed[m] /\ sendChan'[m] = sendChan[m]
    BY <1>1, <1>3, <1>4
  <2>2. QED
    BY <1>2, <2>1, OwingKept
<1>5. CASE q.node = m
  <2>1. /\ sendChan'[m] = Append(sendChan[m], q.number) /\ sendChan[m] \in Seq(Payloads)
        /\ owed'[m] \subseteq owed[m] \union {q.number}
        /\ m \in isAboutToClose => owed'[m] = owed[m]
    BY <1>1, <1>3, <1>5 DEF IsClose
  <2>2. Waits(m, q.number)'
    <3>1. /\ Len(sendChan[m]) + 1 \in DOMAIN sendChan'[m]
          /\ sendChan'[m][Len(sendChan[m]) + 1] = q.number
      BY <2>1
    <3>2. QED
      BY <3>1 DEF Waits
  <2>3. ASSUME NEW p, Waits(m, p) PROVE Waits(m, p)'
    <3>1. PICK i \in DOMAIN sendChan[m] : sendChan[m][i] = p
      BY <2>3 DEF Waits
    <3>2. i \in DOMAIN sendChan'[m] /\ sendChan'[m][i] = p
      BY <2>1, <3>1
    <3>3. QED
      BY <3>2 DEF Waits
  <2>4. Accounted(m) => Accounted(m)'
    BY <1>2, <2>1, <2>2, <2>3 DEF Accounted, Got
  <2>5. Listens(m)' = Listens(m)
    BY <1>2 DEF Listens
  <2>6. m \in isAboutToClose /\ (Listens(m) => GotAll(m)) => (Listens(m) => GotAll(m))'
    BY GotAllStays
  <2>7. QED
    BY <1>2, <2>4, <2>5, <2>6 DEF Owing
<1>6. QED
  BY <1>4, <1>5

LEMMA OwingStep ==
  ASSUME Inductive, Typed, [Next]_vars, NEW m \in Nodes, Owing(m)
  PROVE  Owing(m)'
<1> USE DEF chanVars, flagVars, taskVars, sideVars, nodeVars, serviceVars
<1>1. CASE StartNode /\ UNCHANGED serviceVars
  <2>1. PICK n \in Nodes : newNodeChan = <<n>>
    BY <1>1 DEF StartNode, Inductive, Places
  <2>2. Head(newNodeChan) = n
    BY <2>1
  <2>3. writer' = [writer EXCEPT ![n] = "top"]
    BY <1>1, <2>2 DEF StartNode
  <2>4. writer'[m] = "report" => writer[m] = "report"
    BY <2>3 DEF Typed, TypeOK, NodeTypeOK
  <2>5. UNCHANGED <<writing, sendChan, owed>>
    BY <1>1 DEF StartNode
  <2>6. QED
    BY <2>4, <2>5, OwingKept
<1>2. ASSUME NEW n \in Nodes, Send(n), UNCHANGED serviceVars PROVE Owing(m)'
  <2>1. CASE n = m
    BY <1>2, <2>1, OwingSend
  <2>2. CASE n # m
    <3>1. writing'[m] = writing[m] /\ sendChan'[m] = sendChan[m] /\ writer'[m] = writer[m]
      <4>1. UNCHANGED <<writing, sendChan>> \/ SendTakes(n) \/ SendWrites(n)
        BY <1>2 DEF Send, SendTests, SendTestsUpTo, SendTurns, SendReports
      <4>2. writing'[m] = writing[m] /\ sendChan'[m] = sendChan[m]
        BY <2>2, <4>1 DEF SendTakes, SendWrites, Typed, TypeOK, NodeTypeOK
      <4>3. \E from, to : MoveWriter(n, from, to)
        BY <1>2, Zenon DEF Send, SendTests, SendTestsUpTo, SendTakes, SendTurns, SendWrites, SendReports
      <4>4. writer'[m] = writer[m]
        BY <2>2, <4>3 DEF MoveWriter, Typed, TypeOK, NodeTypeOK
      <4>5. QED
        BY <4>2, <4>4
    <3>2. QED
      BY <1>2, <3>1, OwingKept
  <2>3. QED
    BY <2>1, <2>2
<1>3. ASSUME NEW r \in Runners, SendPuts(r) PROVE Owing(m)'
  BY <1>3, OwingPut
<1>4. \/ StartNode /\ UNCHANGED serviceVars
      \/ \E n \in Nodes : Send(n) /\ UNCHANGED serviceVars
      \/ \E r \in Runners : SendPuts(r)
      \/ UNCHANGED <<owed, writing, sendChan, writer>>
  <2>1. CASE (NodeNext \/ \E n \in Nodes : RefuseReports(n)) /\ UNCHANGED serviceVars
    BY <2>1 DEF NodeNext, HttpHandleFunc, Leave, AnnounceNode, TakeReport, TakeReportOf, EndNode,
       ReadOk, Recv, RecvTests, ReadFails, RecvTestsAgain, RecvReports, Past, ReaderOnly,
       RefuseReports, Close, CloseReports
  <2>2. ASSUME NEW n \in Nodes, OnNewWebMsg(n) PROVE UNCHANGED <<owed, writing, sendChan, writer>>
    BY <2>2 DEF OnNewWebMsg, Malformed, Undecodable, Decoded, Accept, ProcessMsgWithSingleThread,
       ProcessMsgMultiThread, Refuse, Handled, ReaderOnly
  <2>3. ASSUME TakeTask \/ UNCHANGED vars \/ \E r \in Runners : RunTask(r) /\ ~SendPuts(r)
        PROVE  UNCHANGED <<owed, writing, sendChan, writer>>
    BY <2>3 DEF TakeTask, RunTask, GetNode, SendChecks, SendGivesUp, vars
  <2>4. QED
    BY <2>1, <2>2, <2>3 DEF Next
<1>5. CASE UNCHANGED <<owed, writing, sendChan, writer>>
  BY <1>5, OwingKept
<1>6. QED
  BY <1>1, <1>2, <1>3, <1>4, <1>5

LEMMA CallersStep == Typed /\ Callers /\ [Next]_vars => Callers'
<1> SUFFICES ASSUME Typed, Callers, [Next]_vars PROVE Callers'
  OBVIOUS
<1> USE DEF chanVars, flagVars, taskVars, sideVars, nodeVars, serviceVars
<1>1. CASE UNCHANGED <<closing, closer, ending, closed>>
  BY <1>1 DEF Callers
<1>2. ASSUME NEW c \in Closers, NEW n \in Nodes, Close(c, n) PROVE Callers'
  BY <1>2 DEF Close, Callers, Typed, TypeOK, NodeTypeOK
<1>3. ASSUME NEW c \in Closers, CloseReports(c) PROVE Callers'
  BY <1>3 DEF CloseReports, Callers, Typed, TypeOK, NodeTypeOK
<1>4. CASE TakeReport
  <2>1. UNCHANGED <<closing, closer>> /\ ending' \subseteq closed'
    BY <1>4 DEF TakeReport, TakeReportOf
  <2>2. QED
    BY <2>1 DEF Callers
<1>5. CASE EndNode
  BY <1>5 DEF EndNode, Callers
<1>6. \/ UNCHANGED <<closing, closer, ending, closed>> \/ TakeReport \/ EndNode
      \/ \E c \in Closers : CloseReports(c) \/ \E n \in Nodes : Close(c, n)
  <2>1. CASE NodeNext \/ \E n \in Nodes : RefuseReports(n)
    BY <2>1 DEF NodeNext, HttpHandleFunc, Leave, StartNode, AnnounceNode, ReadOk,
       Recv, RecvTests, ReadFails, RecvTestsAgain, RecvReports, Past, ReaderOnly, RefuseReports,
       Send, SendTests, SendTestsUpTo, SendTakes, SendTurns, SendWrites, SendReports
  <2>2. CASE ~(NodeNext \/ \E n \in Nodes : RefuseReports(n))
    BY <2>2 DEF Next, OnNewWebMsg, Malformed, Undecodable, Decoded, Accept, ProcessMsgWithSingleThread,
       ProcessMsgMultiThread, Refuse, Handled, ReaderOnly, TakeTask, RunTask,
       GetNode, SendChecks, SendPuts, SendGivesUp, vars
  <2>3. QED
    BY <2>1, <2>2
<1>7. QED
  BY <1>1, <1>2, <1>3, <1>4, <1>5, <1>6

\* The phases of the draining of node m, step by step.
PhaseOf(m) == Quiet(m) => Phase(m)
flags == <<closed, isAboutToClose, closing, closer>>

\* A step that changes neither flags nor the reports of m, nor lets send report m.
LEMMA PhaseKept ==
  ASSUME Inductive, Typed, [Next]_vars, NEW m \in Nodes, PhaseOf(m), UNCHANGED flags,
         m \in closedbyServer' <=> m \in closedbyServer,
         Lacks(delNodeChan, m) => Lacks(delNodeChan, m)',
         Single(delNodeChan, m) => Single(delNodeChan, m)',
         reader'[m] \in {"refuse", "report", "gone"} \/ reader[m] \notin {"refuse", "report", "gone"},
         writer'[m] \in {"report", "gone"} => writer'[m] = writer[m],
         writer[m] = "gone" => writer'[m] = "gone"
  PROVE  PhaseOf(m)'
<1> SUFFICES ASSUME Quiet(m)' PROVE Phase(m)'
  BY DEF PhaseOf
<1>1. Quiet(m) /\ Phase(m)
  BY DEF Quiet, PhaseOf, flags
<1>2. Closed(m) <=> Closed(m)'
  BY DEF Closed, flags
<1>3. Undrained(m) => Undrained(m)'
  BY <1>2 DEF Undrained, flags
<1>4. Draining(m) => Draining(m)'
  BY <1>2 DEF Draining, flags
<1>5. Drained(m) => Drained(m)'
  BY GotAllStays DEF Drained, flags
<1>6. QED
  BY <1>1, <1>3, <1>4, <1>5 DEF Phase, flags

\* A report of another node.
LEMMA ReportsOther ==
  ASSUME Typed, NEW m \in Nodes, NEW n \in Nodes, n # m, Reports(n)
  PROVE  /\ Lacks(delNodeChan, m) => Lacks(delNodeChan, m)'
         /\ Single(delNodeChan, m) => Single(delNodeChan, m)'
<1>1. delNodeChan \in Seq(Nodes) /\ delNodeChan' = Append(delNodeChan, n)
  BY DEF Typed, TypeOK, NodeTypeOK, Reports
<1>2. /\ Lacks(delNodeChan, m) => Lacks(delNodeChan', m)
      /\ Single(delNodeChan, m) => Single(delNodeChan', m)
  BY <1>1, AppendOther
<1>3. QED
  BY <1>2 DEF Lacks, Single

\* Recv: its own report ends what is claimed of m.
LEMMA PhaseRecv ==
  ASSUME Inductive, Typed, [Next]_vars, NEW m \in Nodes, PhaseOf(m),
         NEW n \in Nodes,
         ReadOk(n) \/ Recv(n) \/ RefuseReports(n) \/ Refuse(n) \/ Accept(n) \/ HandledFrom(n)
  PROVE  PhaseOf(m)'
<1> USE DEF chanVars, flagVars, taskVars, sideVars, flags, Typed, TypeOK, NodeTypeOK
<1>1. CASE ReadOk(n) \/ RecvTests(n) \/ ReadFails(n) \/ RecvTestsAgain(n) \/ Accept(n)
           \/ HandledFrom(n)
  <2>1. reader[n] \notin {"refuse", "report", "gone"} /\ \A k \in Nodes \ {n} : reader'[k] = reader[k]
    BY <1>1 DEF ReadOk, RecvTests, ReadFails, RecvTestsAgain, Past, Accept, HandledFrom, Handled, MoveReader
  <2>2. UNCHANGED <<flags, closedbyServer, delNodeChan, writer>>
    BY <1>1 DEF ReadOk, RecvTests, ReadFails, RecvTestsAgain, Past, Accept, HandledFrom, Handled, ReaderOnly
  <2>3. QED
    BY <2>1, <2>2, PhaseKept DEF Lacks, Single
<1>2. CASE Refuse(n)
  <2>1. reader' = [reader EXCEPT ![n] = "refuse"] /\ closedbyServer' = closedbyServer \union {n}
    BY <1>2 DEF Refuse, MoveReader
  <2>2. CASE n = m
    BY <2>1, <2>2 DEF PhaseOf, Quiet
  <2>3. CASE n # m
    <3>1. UNCHANGED <<flags, delNodeChan, writer>>
      BY <1>2 DEF Refuse
    <3>2. reader'[m] = reader[m] /\ (m \in closedbyServer' <=> m \in closedbyServer)
      BY <2>1, <2>3
    <3>3. QED
      BY <3>1, <3>2, PhaseKept DEF Lacks, Single
  <2>4. QED
    BY <2>2, <2>3
<1>3. CASE RefuseReports(n) \/ RecvReports(n)
  <2>1. /\ \E to \in {"report", "gone"} : reader' = [reader EXCEPT ![n] = to]
        /\ UNCHANGED <<flags, closedbyServer, writer>> /\ Reports(n)
    BY <1>3 DEF RefuseReports, RecvReports, MoveReader
  <2>2. CASE n = m
    BY <2>1, <2>2 DEF PhaseOf, Quiet
  <2>3. CASE n # m
    <3>1. reader'[m] = reader[m]
      BY <2>1, <2>3
    <3>2. QED
      BY <2>1, <2>3, <3>1, PhaseKept, ReportsOther
  <2>4. QED
    BY <2>2, <2>3
<1>4. QED
  BY <1>1, <1>2, <1>3 DEF Recv

\* Send: when it reports m, everything that m was owed is delivered.
LEMMA PhaseSend ==
  ASSUME Inductive, Typed, [Next]_vars, NEW m \in Nodes, PhaseOf(m), Owing(m),
         NEW n \in Nodes, Send(n)
  PROVE  PhaseOf(m)'
<1> USE DEF chanVars, flagVars, taskVars, sideVars, flags
<1>1. UNCHANGED <<flags, closedbyServer, reader>>
  BY DEF Send, SendTests, SendTestsUpTo, SendTakes, SendTurns, SendWrites, SendReports
<1>2. writer \in [Nodes -> {"none", "top", "select", "write", "report", "gone"}]
  BY DEF Typed, TypeOK, NodeTypeOK
<1>3. PICK to : writer' = [writer EXCEPT ![n] = to]
  BY Zenon DEF Send, SendTests, SendTestsUpTo, SendTakes, SendTurns, SendWrites, SendReports, MoveWriter
<1>4. UNCHANGED delNodeChan \/ SendReports(n)
  BY DEF Send, SendTests, SendTestsUpTo, SendTakes, SendTurns, SendWrites
<1>5. CASE n # m
  <2>1. writer'[m] = writer[m]
    BY <1>2, <1>3, <1>5
  <2>2. CASE UNCHANGED delNodeChan
    BY <1>1, <2>1, <2>2, PhaseKept DEF Lacks, Single
  <2>3. CASE SendReports(n)
    <3>1. Reports(n)
      BY <2>3 DEF SendReports
    <3>2. QED
      BY <1>1, <1>5, <2>1, <3>1, PhaseKept, ReportsOther
  <2>4. QED
    BY <1>4, <2>2, <2>3
<1>6. CASE n = m /\ (SendTakes(m) \/ SendTurns(m) \/ SendWrites(m))
  <2>1. writer'[m] \notin {"report", "gone"} /\ writer[m] # "gone" /\ UNCHANGED delNodeChan
    BY <1>2, <1>6 DEF SendTakes, SendTurns, SendWrites, MoveWriter
  <2>2. QED
    BY <1>1, <2>1, PhaseKept DEF Lacks, Single
<1>7. CASE n = m /\ (SendTests(m) \/ SendReports(m))
  <2> SUFFICES ASSUME Quiet(m)' PROVE Phase(m)'
    BY DEF PhaseOf
  <2>1. Quiet(m) /\ Phase(m)
    BY <1>1 DEF Quiet, PhaseOf
  <2>2. Closed(m) <=> Closed(m)'
    BY <1>1 DEF Closed
  <2>3. CASE SendTests(m)
    <3>1. /\ writer[m] = "top" /\ UNCHANGED delNodeChan
          /\ m \notin closed => writer'[m] # "gone"
          /\ m \notin closed /\ m \notin isAboutToClose => writer'[m] # "report"
      BY <1>2, <2>3 DEF SendTests, SendTestsUpTo, MoveWriter
    <3>2. ~Drained(m)
      BY <3>1 DEF Drained
    <3>3. Undrained(m) => Undrained(m)'
      BY <1>1, <2>2, <3>1 DEF Undrained, Lacks, Single
    <3>4. Draining(m) => Draining(m)'
      BY <1>1, <2>2, <3>1 DEF Draining, Lacks
    <3>5. QED
      BY <1>1, <2>1, <3>2, <3>3, <3>4 DEF Phase
  <2>4. CASE SendReports(m)
    <3>1. writer[m] = "report" /\ writer'[m] = "gone"
      BY <1>2, <2>4 DEF SendReports, MoveWriter
    <3>2. Draining(m)
      BY <2>1, <3>1 DEF Phase, Undrained, Drained
    <3>3. (Listens(m) => GotAll(m))'
      BY <3>1, GotAllStays DEF Owing
    <3>4. QED
      BY <1>1, <2>1, <3>1, <3>2, <3>3 DEF Phase, Draining, Drained
  <2>5. QED
    BY <1>7, <2>3, <2>4
<1>8. QED
  BY <1>5, <1>6, <1>7 DEF Send

\* Close: a second caller ends what is claimed of m.
LEMMA PhaseClose ==
  ASSUME Inductive, Typed, Callers, [Next]_vars, NEW m \in Nodes, PhaseOf(m),
         NEW c \in Closers, NEW n \in Nodes, Close(c, n)
  PROVE  PhaseOf(m)'
<1> USE DEF chanVars, flagVars, taskVars, sideVars
<1> SUFFICES ASSUME Quiet(m)' PROVE Phase(m)'
  BY DEF PhaseOf
<1>1. /\ closing[c] = {} /\ closer[c] = "idle"
      /\ closing' = [closing EXCEPT ![c] = {n}] /\ closer' = [closer EXCEPT ![c] = "report"]
      /\ closedbyServer' = closedbyServer \union {n}
      /\ UNCHANGED <<delNodeChan, closed, isAboutToClose, reader, writer>>
  BY DEF Close, Callers
<1>2. /\ closing'[c] = {n} /\ closer'[c] = "report"
      /\ \A d \in Closers \ {c} : closing'[d] = closing[d] /\ closer'[d] = closer[d]
  BY <1>1 DEF Typed, TypeOK, NodeTypeOK
<1>3. Quiet(m) /\ Phase(m)
  <2>1. \A d \in Closers : closing[d] = {m} => closing'[d] = {m}
    BY <1>1, <1>2
  <2>2. Quiet(m)
    BY <1>1, <2>1 DEF Quiet
  <2>3. QED
    BY <2>2 DEF PhaseOf
<1>4. Closed(m) => Closed(m)'
  <2>1. ASSUME NEW d \in Closers, closing[d] = {m}, closer[d] = "done"
        PROVE  closing'[d] = {m} /\ closer'[d] = "done"
    BY <1>1, <1>2, <2>1
  <2>2. QED
    BY <2>1 DEF Closed
<1>5. m \in closedbyServer' <=> \E d \in Closers : closing'[d] = {m}
  BY <1>1, <1>2, <1>3 DEF Phase
<1>6. Undrained(m) => Undrained(m)'
  BY <1>1, <1>4 DEF Undrained, Lacks, Single
<1>7. Draining(m) => Draining(m)'
  BY <1>1, <1>4 DEF Draining, Lacks
<1>8. Drained(m) => Drained(m)'
  BY <1>1, GotAllStays DEF Drained
<1>9. QED
  BY <1>3, <1>5, <1>6, <1>7, <1>8 DEF Phase

\* The report of the caller of Close is the first.
LEMMA PhaseCloseReports ==
  ASSUME Inductive, Typed, Callers, [Next]_vars, NEW m \in Nodes, PhaseOf(m),
         NEW c \in Closers, CloseReports(c)
  PROVE  PhaseOf(m)'
<1> USE DEF chanVars, flagVars, taskVars, sideVars
<1> SUFFICES ASSUME Quiet(m)' PROVE Phase(m)'
  BY DEF PhaseOf
<1>1. /\ closer[c] = "report" /\ closer' = [closer EXCEPT ![c] = "done"]
      /\ UNCHANGED <<closing, closedbyServer, closed, isAboutToClose, reader, writer>>
  BY DEF CloseReports
<1>2. Quiet(m) /\ Phase(m)
  BY <1>1 DEF Quiet, PhaseOf
<1>3. PICK n \in Nodes : closing[c] = {n} /\ Reports(n)
  BY DEF CloseReports, Callers
<1>4. closer'[c] = "done" /\ \A d \in Closers \ {c} : closer'[d] = closer[d]
  BY <1>1 DEF Typed, TypeOK, NodeTypeOK
<1>5. Closed(m) => Closed(m)'
  BY <1>1, <1>4 DEF Closed
<1>6. Drained(m) => Drained(m)'
  BY <1>1, GotAllStays DEF Drained
<1>7. CASE n = m
  <2>1. ~Closed(m) /\ Closed(m)'
    BY <1>1, <1>2, <1>3, <1>4, <1>7 DEF Closed, Quiet
  <2>2. Lacks(delNodeChan, m) => Single(delNodeChan, m)'
    <3>1. delNodeChan \in Seq(Nodes) /\ delNodeChan' = Append(delNodeChan, m)
      BY <1>3, <1>7 DEF Typed, TypeOK, NodeTypeOK, Reports
    <3>2. Lacks(delNodeChan, m) => Single(delNodeChan', m)
      BY <3>1, AppendFirst
    <3>3. QED
      BY <3>2 DEF Single
  <2>3. Undrained(m) => Undrained(m)'
    BY <1>1, <2>1, <2>2 DEF Undrained
  <2>4. ~Draining(m)
    BY <2>1 DEF Draining
  <2>5. QED
    BY <1>1, <1>2, <1>6, <2>3, <2>4 DEF Phase
<1>8. CASE n # m
  <2>1. /\ Lacks(delNodeChan, m) => Lacks(delNodeChan, m)'
        /\ Single(delNodeChan, m) => Single(delNodeChan, m)'
    BY <1>3, <1>8, ReportsOther
  <2>2. Undrained(m) => Undrained(m)'
    BY <1>1, <1>5, <2>1 DEF Undrained
  <2>3. Draining(m) => Draining(m)'
    BY <1>1, <1>5, <2>1 DEF Draining
  <2>4. QED
    BY <1>1, <1>2, <1>6, <2>2, <2>3 DEF Phase
<1>9. QED
  BY <1>7, <1>8

\* listenDelNode takes the first report of m: the draining starts.
LEMMA PhaseTakeReport ==
  ASSUME Inductive, Typed, [Next]_vars, NEW m \in Nodes, PhaseOf(m), TakeReport
  PROVE  PhaseOf(m)'
<1> USE DEF chanVars, flagVars, taskVars, sideVars
<1> SUFFICES ASSUME Quiet(m)' PROVE Phase(m)'
  BY DEF PhaseOf
<1>1. /\ UNCHANGED <<closing, closer, closedbyServer, reader, writer>>
      /\ delNodeChan # <<>> /\ delNodeChan' = Tail(delNodeChan)
  BY DEF TakeReport, TakeReportOf
<1>2. Quiet(m) /\ Phase(m) /\ (Closed(m) <=> Closed(m)')
  BY <1>1 DEF Quiet, PhaseOf, Closed
<1>3. delNodeChan \in Seq(Nodes)
  BY DEF Typed, TypeOK, NodeTypeOK
<1>4. Drained(m) => Drained(m)'
  BY <1>1, Effects, GotAllStays DEF Drained
<1>5. CASE Head(delNodeChan) # m
  <2>1. /\ m \in isAboutToClose' <=> m \in isAboutToClose
        /\ m \in closed' <=> m \in closed
    BY <1>5 DEF TakeReport, TakeReportOf
  <2>2. /\ Lacks(delNodeChan, m) => Lacks(delNodeChan', m)
        /\ Single(delNodeChan, m) => Single(delNodeChan', m)
    BY <1>1, <1>3, TailKeeps
  <2>3. Undrained(m) => Undrained(m)'
    BY <1>1, <1>2, <2>1, <2>2 DEF Undrained, Lacks, Single
  <2>4. Draining(m) => Draining(m)'
    BY <1>1, <1>2, <2>1, <2>2 DEF Draining, Lacks
  <2>5. QED
    BY <1>1, <1>2, <1>4, <2>3, <2>4 DEF Phase
<1>6. CASE Head(delNodeChan) = m
  <2>1. ~Lacks(delNodeChan, m) /\ (Single(delNodeChan, m) => Lacks(delNodeChan', m))
    BY <1>1, <1>3, <1>6, TailKeeps
  <2>2. ~Draining(m)
    BY <2>1 DEF Draining
  <2>3. ASSUME Undrained(m) PROVE Undrained(m)' \/ Draining(m)'
    <3>1. Closed(m) /\ Lacks(delNodeChan', m) /\ m \in closedbyServer
      BY <1>2, <2>1, <2>3 DEF Undrained, Phase, Closed
    <3>2. m \notin isAboutToClose /\ m \notin closed /\ writer'[m] \notin {"report", "gone"}
      BY <1>1, <2>3 DEF Undrained
    <3>3. closed' = closed
      BY <1>6, <3>1, <3>2 DEF TakeReport, TakeReportOf
    <3>4. Lacks(delNodeChan, m)' /\ Closed(m)'
      BY <1>2, <3>1 DEF Lacks
    <3>5. CASE m \in isAboutToClose'
      BY <3>2, <3>3, <3>4, <3>5 DEF Draining
    <3>6. CASE m \notin isAboutToClose'
      BY <3>2, <3>3, <3>4, <3>6 DEF Undrained
    <3>7. QED
      BY <3>5, <3>6
  <2>4. QED
    BY <1>1, <1>2, <1>4, <2>2, <2>3 DEF Phase
<1>7. QED
  BY <1>5, <1>6

LEMMA PhaseStart ==
  ASSUME Inductive, Typed, [Next]_vars, NEW m \in Nodes, PhaseOf(m), StartNode
  PROVE  PhaseOf(m)'
<1> USE DEF chanVars, flagVars, taskVars, sideVars, flags
<1>1. PICK n \in Nodes : newNodeChan = <<n>>
  BY DEF StartNode, Inductive, Places
<1>2. Head(newNodeChan) = n /\ Arriving(n)
  BY <1>1 DEF Arriving
<1>3. /\ reader' = [reader EXCEPT ![n] = "top"] /\ writer' = [writer EXCEPT ![n] = "top"]
      /\ UNCHANGED <<flags, closedbyServer, delNodeChan>>
  BY <1>2 DEF StartNode
<1>4. reader[n] = "none" /\ writer[n] = "none"
  BY <1>2 DEF Typed, Started, Unstarted
<1>5. /\ reader'[m] = reader[m] \/ reader[m] = "none"
      /\ writer'[m] = writer[m] \/ (writer[m] = "none" /\ writer'[m] = "top")
  BY <1>3, <1>4 DEF Typed, TypeOK, NodeTypeOK
<1>6. QED
  BY <1>3, <1>5, PhaseKept DEF Lacks, Single

LEMMA PhaseStep ==
  ASSUME Inductive, Typed, Drains, [Next]_vars, NEW m \in Nodes
  PROVE  PhaseOf(m)'
<1> USE DEF chanVars, flagVars, taskVars, sideVars, nodeVars, flags
<1>1. PhaseOf(m) /\ Callers /\ Owing(m)
  BY DEF Drains, PhaseOf
<1>2. ASSUME UNCHANGED <<flags, closedbyServer, delNodeChan, reader, writer>> PROVE PhaseOf(m)'
  BY <1>1, <1>2, PhaseKept DEF Lacks, Single
<1>3. ASSUME NEW n \in Nodes,
             HttpHandleFunc(n) \/ Leave(n) \/ AnnounceNode \/ EndNode \/ TakeTask \/ UNCHANGED vars
      PROVE  PhaseOf(m)'
  BY <1>2, <1>3 DEF HttpHandleFunc, Leave, AnnounceNode, EndNode, TakeTask, vars
<1>4. ASSUME NEW r \in Runners, RunTask(r) PROVE PhaseOf(m)'
  BY <1>2, <1>4 DEF RunTask, GetNode, SendChecks, SendPuts, SendGivesUp
<1>5. ASSUME NEW n \in Nodes, OnNewWebMsg(n) \/ ReadOk(n) \/ Recv(n) \/ RefuseReports(n)
      PROVE  PhaseOf(m)'
  <2>1. ReadOk(n) \/ Recv(n) \/ RefuseReports(n) \/ Refuse(n) \/ Accept(n) \/ HandledFrom(n)
    BY <1>5 DEF OnNewWebMsg, HandledFrom, Malformed, Undecodable, Decoded,
                ProcessMsgWithSingleThread, ProcessMsgMultiThread
  <2>2. QED
    BY <1>1, <2>1, PhaseRecv
<1>6. ASSUME NEW n \in Nodes, Send(n) PROVE PhaseOf(m)'
  BY <1>1, <1>6, PhaseSend
<1>7. ASSUME NEW c \in Closers, CloseReports(c) \/ \E n \in Nodes : Close(c, n) PROVE PhaseOf(m)'
  BY <1>1, <1>7, PhaseClose, PhaseCloseReports
<1>8. CASE StartNode \/ TakeReport
  BY <1>1, <1>8, PhaseStart, PhaseTakeReport
<1>9. QED
  BY <1>3, <1>4, <1>5, <1>6, <1>7, <1>8 DEF Next, NodeNext

LEMMA DrainsStep == Inductive /\ Typed /\ Drains /\ [Next]_vars => Drains'
<1> SUFFICES ASSUME Inductive, Typed, Drains, [Next]_vars PROVE Drains'
  OBVIOUS
<1>1. Callers'
  BY CallersStep DEF Drains
<1>2. \A m \in Nodes : Owing(m)'
  BY OwingStep DEF Drains
<1>3. \A m \in Nodes : PhaseOf(m)'
  BY PhaseStep
<1>4. QED
  BY <1>1, <1>2, <1>3 DEF Drains, PhaseOf

\* A node is told of by EndNode, which ends a closed one: its draining is over.
LEMMA EndedIsDrained ==
  ASSUME Inductive, Typed, Drains, [Next]_vars, NEW n \in Nodes,
         told'[n] > told[n], client[n] = "here", reader[n] = "read",
         NEW c \in Closers, ClosersOf(n) = {c}
  PROVE  GotAll(n)
<1>1. told[n] \in Nat
  BY DEF Inductive, Places
<1>2. EndNode
  <2>1. told' = told \/ EndNode
    BY OthersKeepPlaces
       DEF nodePlaces, StartNode, TakeReport, TakeReportOf, HttpHandleFunc, Leave,
           sideVars, taskVars, chanVars, flagVars
  <2>2. QED
    BY <1>1, <2>1
<1>3. n \in ending
  BY <1>1, <1>2 DEF EndNode
<1>4. n \in closed /\ told[n] = 0
  BY <1>3 DEF Drains, Callers, Inductive, Places, EndsOnce
<1>5. Quiet(n)
  BY DEF Quiet, ClosersOf
<1>6. Drained(n)
  BY <1>4, <1>5 DEF Drains, Phase, Undrained, Draining
<1>7. QED
  BY <1>4, <1>6 DEF Drained, Listens

\* For every number of nodes, callers and capacities: a node that the service closes once,
\* whose client stays and sends nothing meanwhile, has got everything that was accepted for
\* it before the draining began when its socket is closed (webserver.go 119).
THEOREM DrainedByCloseCorrect == Spec => DrainedByClose
<1> DEFINE Inv == Inductive /\ Typed /\ Drains
<1>1. Init => Inv
  BY InductiveInit, TypedInit, DrainsInit
<1>2. Inv /\ [Next]_vars => Inv'
  BY InductiveStep, TypedStep, DrainsStep
<1>3. Inv /\ [Next]_vars =>
        [\A n \in Nodes :
              /\ told'[n] > told[n]
              /\ client[n] = "here" /\ reader[n] = "read"
              /\ \E c \in Closers : ClosersOf(n) = {c}
           => \A p \in owed[n] : \E i \in DOMAIN delivered[n] : delivered[n][i] = p]_vars
  BY EndedIsDrained DEF GotAll, Got
<1>4. QED
  BY <1>1, <1>2, <1>3, PTL DEF Spec, DrainedByClose
=============================================================================
