-------------------------- MODULE ClientConnsProof --------------------------
(***************************************************************************)
(* Proofs about the connections of the client component (ClientConns).     *)
(***************************************************************************)
EXTENDS ClientConns, ClientSend, FiniteSetTheorems, SequenceTheorems, TLAPS

(***************************************************************************)
(* Type correctness.                                                       *)
(***************************************************************************)

\* The addresses of a configuration, and the default one, are addresses.
LEMMA AddressType ==
  /\ \A v \in Configs : AddrsOf(v) \subseteq Addrs
  /\ Default \in Addrs
BY ClientAssumption DEF ClientAssumption, AddrsOf, Default

\* The first states are well typed.
LEMMA TypeInit == Init => TypeOK
<1> SUFFICES ASSUME Init PROVE TypeOK
  OBVIOUS
<1> USE ClientAssumption DEF ClientAssumption
<1>1. svrIdMap \subseteq Addrs
  BY AddressType DEF Init
<1>2. PICK dialled \in 0 .. MaxConns :
        /\ open = 1 .. dialled
        /\ \E to \in [open -> svrIdMap] :
             addr = [c \in Conns |-> IF c \in open THEN to[c] ELSE Default]
  BY DEF Init
<1>3. open \subseteq Conns
  BY <1>2 DEF Conns
<1>4. addr \in [Conns -> Addrs]
  BY <1>1, <1>2, <1>3, AddressType
<1>5. QED
  BY <1>1, <1>3, <1>4 DEF Init, TypeOK, NoConn, Places

\* New connections take unused identities, and lead to addresses.
LEMMA DialledType ==
  ASSUME TypeOK, NEW conns \in SUBSET Unused, NEW addrs \in SUBSET Addrs,
         NEW to \in [conns -> addrs], Dialled(to)
  PROVE  /\ job' \in [Conns -> Places]
         /\ addr' \in [Conns -> Addrs]
         /\ open' \subseteq Conns
BY DEF TypeOK, Dialled, Unused, Places

\* One step of any goroutine keeps the types.
LEMMA TypeStep == TypeOK /\ [Next]_vars => TypeOK'
<1> SUFFICES ASSUME TypeOK, [Next]_vars PROVE TypeOK'
  OBVIOUS
<1> USE ClientAssumption DEF ClientAssumption, TypeOK, channels
<1>1. ASSUME NEW v \in Configs, ReloadCfg(v) PROVE TypeOK'
  BY <1>1 DEF ReloadCfg, lists, jobs, checker
<1>2. CASE SwitchBuffer
  BY <1>2 DEF SwitchBuffer, lists, jobs, checker
<1>3. ASSUME NEW c \in Conns, Register(c) PROVE TypeOK'
  BY <1>3, AddressType, ZenonT(60) DEF Register, Release, Places, config, lists, checker
<1>4. ASSUME NEW c \in Conns, Deregister(c) PROVE TypeOK'
  BY <1>4, AddressType DEF Deregister, Release, Places, config, lists, checker
<1>5. ASSUME NEW c \in Conns, Refuse(c) PROVE TypeOK'
  BY <1>5, AddressType DEF Refuse, Release, Places, config, lists, checker
<1>6. ASSUME NEW c \in Conns, Fail(c) PROVE TypeOK'
  BY <1>6 DEF Fail, config, lists, checker
<1>7. CASE Wake
  BY <1>7 DEF Wake, config, lists, jobs
<1>8. CASE Reload
  BY <1>8, AddressType DEF Reload, Reloads, config
<1>9. CASE DialMissing
  <2>1. PICK missing \in SUBSET svrIdMap : Dials(missing)
    BY <1>9 DEF DialMissing
  <2>2. PICK failed \in SUBSET missing, conns \in SUBSET Unused :
          /\ closes + Cardinality(failed) <= MaxCloses
          /\ closes' = closes + Cardinality(failed)
          /\ \E to \in [conns -> missing \ failed] : Dialled(to)
    BY <2>1 DEF Dials
  <2>3. /\ job' \in [Conns -> Places]
        /\ addr' \in [Conns -> Addrs]
        /\ open' \subseteq Conns
    BY <2>2, DialledType
  <2>4. connMap' \in [Servers -> Conns \cup {NoConn}]
    BY <2>1 DEF Dials
  <2>5. closes' \in 0 .. MaxCloses
    <3>1. Cardinality(failed) \in Nat
      BY FS_Subset, FS_CardinalityType
    <3>2. QED
      BY <2>2, <3>1
  <2>6. QED
    BY <2>1, <2>3, <2>4, <2>5 DEF Dials, config, lists
<1>10. ASSUME NEW c \in Conns, TestsAll(c) \/ Notify(c) PROVE TypeOK'
  <2>1. CASE TestsAll(c)
    BY <2>1 DEF TestsAll, Places, config, lists, checker
  <2>2. CASE Notify(c)
    BY <2>2 DEF Notify, Places, config, lists, checker
  <2>3. QED
    BY <1>10, <2>1, <2>2
<1>11. CASE SenderLocks \/ SenderUnlocks
  BY <1>11 DEF SenderLocks, SenderUnlocks, config, lists, jobs, checker
<1>12. CASE UNCHANGED vars
  BY <1>12 DEF vars
<1>13. QED
  BY <1>1, <1>2, <1>3, <1>4, <1>5, <1>6, <1>7, <1>8, <1>9, <1>10, <1>11, <1>12
     DEF Next, Job, CheckConns

\* Every reachable state is well typed.
THEOREM TypeCorrect == Spec => []TypeOK
BY TypeInit, TypeStep, PTL DEF Spec

(***************************************************************************)
(* Entries.                                                                *)
(***************************************************************************)

\* New connections do not touch the ones that have an entry.
LEMMA DialledKeeps ==
  ASSUME TypeOK, NEW conns \in SUBSET Unused, NEW addrs \in SUBSET Addrs,
         NEW to \in [conns -> addrs], Dialled(to),
         NEW s \in Servers, connMap[s] \in Conns, connMap'[s] = connMap[s]
  PROVE  job'[connMap[s]] = job[connMap[s]] /\ addr'[connMap[s]] = addr[connMap[s]]
BY DEF TypeOK, Dialled, Unused

\* A step keeps every entry live and under the server of its connection.
LEMMA EntryStep == TypeOK /\ NoDeadEntry /\ [Next]_vars => NoDeadEntry'
<1> SUFFICES ASSUME TypeOK, NoDeadEntry, [Next]_vars,
                    NEW s \in Servers, connMap'[s] # NoConn
             PROVE  job'[connMap'[s]] \in Joined /\ IdOf[addr'[connMap'[s]]] = s
  BY DEF NoDeadEntry
<1> DEFINE Live == job'[connMap'[s]] \in Joined /\ IdOf[addr'[connMap'[s]]] = s
<1> USE ClientAssumption DEF ClientAssumption, Joined
<1>1. ASSUME UNCHANGED <<connMap, job, addr>> PROVE Live
  BY <1>1 DEF NoDeadEntry
<1>2. ASSUME NEW c \in Conns, Register(c) PROVE Live
  <2>1. CASE addr[c] \in svrIdMap
    <3>1. /\ connMap' = [connMap EXCEPT ![IdOf[addr[c]]] = c]
          /\ job' = [job EXCEPT ![c] = IF connOK = 0 THEN "test" ELSE "run"]
          /\ addr' = addr
      BY <1>2, <2>1 DEF Register
    <3>2. CASE s = IdOf[addr[c]]
      BY <3>1, <3>2 DEF TypeOK
    <3>3. CASE s # IdOf[addr[c]]
      BY <3>1, <3>3 DEF NoDeadEntry, TypeOK
    <3>4. QED
      BY <3>2, <3>3
  <2>2. CASE addr[c] \notin svrIdMap
    <3>1. connMap' = connMap /\ Release(c) /\ job[c] = "new"
      BY <1>2, <2>2 DEF Register
    <3>2. QED
      BY <3>1 DEF Release, NoDeadEntry, TypeOK
  <2>3. QED
    BY <2>1, <2>2
<1>3. ASSUME NEW c \in Conns, Deregister(c) \/ Refuse(c) PROVE Live
  <2>1. connMap' = [connMap EXCEPT ![IdOf[addr[c]]] = NoConn]
    BY <1>3 DEF Deregister, Refuse
  <2>2. Release(c)
    BY <1>3 DEF Deregister, Refuse
  <2>3. connMap'[s] = connMap[s] /\ s # IdOf[addr[c]]
    BY <2>1 DEF TypeOK
  <2>4. connMap[s] # c
    BY <2>3 DEF NoDeadEntry
  <2>5. QED
    BY <2>2, <2>3, <2>4 DEF Release, NoDeadEntry, TypeOK
<1>4. CASE Reload
  BY <1>4 DEF Reload, Reloads, NoDeadEntry, TypeOK
<1>5. CASE DialMissing
  <2>1. PICK missing \in SUBSET svrIdMap : Dials(missing)
    BY <1>5 DEF DialMissing
  <2>2. PICK failed \in SUBSET missing, conns \in SUBSET Unused :
          \E to \in [conns -> missing \ failed] : Dialled(to)
    BY <2>1 DEF Dials
  <2>3. connMap'[s] = connMap[s] /\ connMap[s] \in Conns
    BY <2>1 DEF Dials, TypeOK
  <2>4. missing \ failed \in SUBSET Addrs
    BY DEF TypeOK
  <2>5. job'[connMap[s]] = job[connMap[s]] /\ addr'[connMap[s]] = addr[connMap[s]]
    BY <2>2, <2>3, <2>4, DialledKeeps
  <2>6. QED
    BY <2>3, <2>5 DEF NoDeadEntry
<1>6. ASSUME NEW c \in Conns, TestsAll(c) \/ Notify(c) PROVE Live
  <2>1. connMap' = connMap /\ addr' = addr
    BY <1>6 DEF TestsAll, Notify
  <2>2. /\ job'[c] \in Joined
        /\ \A d \in Conns : d # c => job'[d] = job[d]
    BY <1>6 DEF TestsAll, Notify, TypeOK
  <2>3. QED
    BY <2>1, <2>2 DEF NoDeadEntry, TypeOK
<1>7. QED
  BY <1>1, <1>2, <1>3, <1>4, <1>5, <1>6
     DEF Next, Job, CheckConns, vars, ReloadCfg, SwitchBuffer, Fail, Wake, jobs,
         SenderLocks, SenderUnlocks

\* SendMsg and GetConn never find a connection whose goroutine connJob has ended,
\* or that of another server.
THEOREM NoDeadEntryCorrect == Spec => []NoDeadEntry
<1>1. Init => NoDeadEntry
  BY DEF Init, NoDeadEntry
<1>2. QED
  BY <1>1, TypeInit, TypeStep, EntryStep, PTL DEF Spec

(***************************************************************************)
(* The callers of SendMsg (ClientSend), who choose among these             *)
(* connections.                                                            *)
(***************************************************************************)

LEMMA SendFinite == Cardinality(Servers) \in Nat
BY SendAssumption, FS_CardinalityType DEF SendAssumption

\* The route table and the list belong to one configuration, except within a reload, and
\* nothing but a shorter list leaves another index that is beyond it.
InRange ==
  /\ Len(allSvrId) <= Cardinality(Servers)
  /\ routeTable = RouteOf[fresh]
  /\ ~half => allSvrId = ServersOf[fresh]
  /\ ~shrunk => /\ robinIdx < Len(allSvrId)
                /\ \A s \in Senders : send[s].stage = "hashed" => send[s].hash < Len(allSvrId)

\* A round robin that nobody disturbs has tried the last servers before robinIdx, as
\* many as it has found invalid, and the one it has just picked.
Robin(s) == send[s].stage \in {"robin", "picked", "error"} /\ ~send[s].disturbed
Picked(s) == IF send[s].stage = "picked" THEN send[s].fails + 1 ELSE send[s].fails
Behind(j, p) == \E q \in 1 .. p : j = robinIdx - q \/ j = robinIdx - q + Len(allSvrId)

Tries(s) ==
  /\ send[s].stage \in {"robin", "picked"} => send[s].fails < Len(allSvrId)
  /\ send[s].stage = "error" => send[s].fails = Len(allSvrId)
  /\ Picked(s) > 0 => robinIdx < Len(allSvrId)
  /\ \A j \in 0 .. Len(allSvrId) - 1 :
       Behind(j, Picked(s)) => allSvrId[j + 1] \in send[s].tried
TriesBehind == \A s \in Senders : Robin(s) => Tries(s)

LEMMA SendTypeInit == SendInit => SendTypeOK
<1> SUFFICES ASSUME SendInit PROVE SendTypeOK
  OBVIOUS
<1>1. /\ allSvrId \in Seq(Servers) /\ routeTable \in [Hashes -> Nat]
      /\ Len(allSvrId) \in Nat \ {0} /\ fresh \in Configs
  BY SendFinite, SendAssumption DEF SendAssumption, SendInit
<1>2. allSvrId # <<>>
  BY <1>1
<1>3. Idle \in Calls
  BY DEF Idle, Calls, Stages
<1>4. QED
  BY <1>1, <1>2, <1>3 DEF SendInit, SendTypeOK

\* The lists and the round robin.
LEMMA ListTypes ==
  ASSUME SendTypeOK
  PROVE  /\ Len(allSvrId) \in Nat \ {0} /\ robinIdx \in Nat
         /\ \A j \in 0 .. Len(allSvrId) - 1 : allSvrId[j + 1] \in Servers
<1>1. allSvrId \in Seq(Servers) /\ allSvrId # <<>> /\ robinIdx \in Nat
  BY DEF SendTypeOK
<1>2. Len(allSvrId) \in Nat \ {0}
  BY <1>1
<1>3. QED
  BY <1>1, <1>2, ElementOfSeq

LEMMA CallTypes ==
  ASSUME SendTypeOK, NEW s \in Senders
  PROVE  /\ send[s] \in Calls
         /\ send[s].stage \in Stages /\ send[s].hash \in Nat /\ send[s].fails \in Nat
         /\ send[s].tried \subseteq Servers /\ send[s].holds \subseteq Servers
         /\ send[s].disturbed \in BOOLEAN
BY DEF SendTypeOK, Calls

\* The two operators that change a call of another sender.
LEMMA DisturbedType ==
  ASSUME NEW call \in Calls
  PROVE  /\ Disturbed(call) \in Calls
         /\ Disturbed(call).stage = call.stage /\ Disturbed(call).hash = call.hash
         /\ Disturbed(call).tried = call.tried /\ Disturbed(call).fails = call.fails
         /\ Disturbed(call).disturbed <=> call.stage \in {"robin", "picked", "error"}
<1> DEFINE yes == call.stage \in {"robin", "picked", "error"}
<1>1. yes \in BOOLEAN
  OBVIOUS
<1>2. Disturbed(call) = [call EXCEPT !.disturbed = yes]
  BY Zenon DEF Disturbed
<1> HIDE DEF yes
<1>3. /\ [call EXCEPT !.disturbed = yes] \in Calls
      /\ [call EXCEPT !.disturbed = yes].stage = call.stage
      /\ [call EXCEPT !.disturbed = yes].hash = call.hash
      /\ [call EXCEPT !.disturbed = yes].tried = call.tried
      /\ [call EXCEPT !.disturbed = yes].fails = call.fails
      /\ [call EXCEPT !.disturbed = yes].disturbed = yes
  BY <1>1 DEF Calls
<1>4. QED
  BY <1>2, <1>3 DEF yes

LEMMA ReplacedType ==
  ASSUME NEW call \in Calls, NEW lost
  PROVE  LET new == [Disturbed(call) EXCEPT !.holds = @ \ lost]
         IN  /\ new \in Calls
             /\ new.stage = call.stage /\ new.hash = call.hash
             /\ new.disturbed = Disturbed(call).disturbed
BY DisturbedType DEF Calls

LEMMA MinOfTwo ==
  ASSUME NEW m \in Nat, NEW n \in Nat
  PROVE  Min({m, n}) = IF m <= n THEN m ELSE n
<1>1. ASSUME NEW x \in {m, n}, \A y \in {m, n} : x <= y
      PROVE  Min({m, n}) = x
  <2>1. \A z \in {m, n} : (\A y \in {m, n} : z <= y) => z = x
    BY <1>1
  <2>2. QED
    BY <1>1, <2>1 DEF Min
<1>2. CASE m <= n
  BY <1>1, <1>2
<1>3. CASE ~(m <= n)
  BY <1>1, <1>3
<1>4. QED
  BY <1>2, <1>3

\* What a step of SendMsg makes of the call of its sender.
LEMMA SendsMoves ==
  ASSUME SendTypeOK, NEW s \in Senders, NEW call \in Calls, Sends(s, call)
  PROVE  /\ send' \in [Senders -> Calls] /\ send'[s] = call
         /\ \A r \in Senders \ {s} : send'[r] = send[r]
         /\ UNCHANGED <<tables, valid>>
BY DEF Sends, SendTypeOK

\* The calls that sender s may go on with.
LEMMA NewCalls ==
  /\ Idle \in Calls
  /\ [Idle EXCEPT !.stage = "panic"] \in Calls
  /\ [Idle EXCEPT !.stage = "robin"] \in Calls
  /\ [Idle EXCEPT !.stage = "broadcast"] \in Calls
  /\ \A hash \in Nat : [Idle EXCEPT !.stage = "hashed", !.hash = hash] \in Calls
BY DEF Idle, Calls, Stages

\* What RobinCheck makes of the call of its sender: it returns, or it counts one more
\* connection that is invalid and says so when it has counted as many as there are servers.
LEMMA RobinCheckMoves ==
  ASSUME SendTypeOK, NEW s \in Senders, RobinCheck(s)
  PROVE  /\ send[s].stage = "picked"
         /\ UNCHANGED <<tables, valid, robinIdx, mu, shrunk, raced>>
         /\ \E call \in Calls :
              /\ Sends(s, call)
              /\ call.stage \in {"idle", "error", "robin"}
              /\ call.stage # "idle" =>
                   /\ call.tried = send[s].tried /\ call.disturbed = send[s].disturbed
                   /\ call.fails = Min({send[s].fails, Cardinality(Servers)}) + 1
                   /\ call.stage = "error" <=> call.fails = Len(allSvrId)
<1> DEFINE n == Min({send[s].fails, Cardinality(Servers)}) + 1
<1>1. n \in Nat
  <2>1. Cardinality(Servers) \in Nat
    BY SendFinite, SendAssumption DEF SendAssumption
  <2>2. send[s].fails \in Nat
    BY CallTypes
  <2>3. QED
    BY <2>1, <2>2, MinOfTwo
<1> HIDE DEF n
<1>2. send[s].stage = "picked" /\ UNCHANGED <<tables, valid, robinIdx, mu, shrunk, raced>>
  BY DEF RobinCheck, RobinChecks, Sends
<1>3. CASE send[s].holds # {}
  <2>1. Sends(s, Idle)
    BY <1>3 DEF RobinCheck, RobinChecks
  <2>2. Idle \in Calls /\ Idle.stage = "idle"
    BY NewCalls DEF Idle
  <2>3. QED
    BY <1>2, <2>1, <2>2
<1>4. CASE send[s].holds = {}
  <2>1. PICK stage \in {"error", "robin"} :
          /\ stage = "error" <=> [m \in Nat |-> m = Len(allSvrId)][n]
          /\ Sends(s, [send[s] EXCEPT !.stage = stage, !.fails = n])
    BY <1>4, Zenon DEF RobinCheck, RobinChecks, n
  <2>2. stage = "error" <=> n = Len(allSvrId)
    BY <1>1, <2>1, Zenon
  <2> DEFINE call == [send[s] EXCEPT !.stage = stage, !.fails = n]
  <2>3. /\ call \in Calls /\ call.stage = stage /\ call.fails = n
        /\ call.tried = send[s].tried /\ call.disturbed = send[s].disturbed
    BY <1>1, CallTypes DEF Calls, Stages
  <2> HIDE DEF call
  <2>4. Sends(s, call)
    BY <2>1 DEF call
  <2>5. /\ call.fails = Min({send[s].fails, Cardinality(Servers)}) + 1
        /\ call.stage = "error" <=> call.fails = Len(allSvrId)
    BY <2>2, <2>3 DEF n
  <2>6. call.stage \in {"idle", "error", "robin"}
    BY <2>1, <2>3
  <2>7. QED
    BY <1>2, <2>3, <2>4, <2>5, <2>6
<1>5. QED
  BY <1>3, <1>4

LEMMA SendTypeStep == SendTypeOK /\ [SendNext]_sendVars => SendTypeOK'
<1> SUFFICES ASSUME SendTypeOK, [SendNext]_sendVars PROVE SendTypeOK'
  OBVIOUS
<1> USE DEF tables
<1>1. ASSUME NEW i \in Servers, Connect(i) \/ Disconnect(i) \/ Fails(i) PROVE SendTypeOK'
  <2>1. CASE Connect(i) \/ Disconnect(i)
    BY <2>1 DEF Connect, Disconnect, SendTypeOK
  <2>2. CASE Fails(i)
    <3>1. \A r \in Senders : [send[r] EXCEPT !.holds = @ \ {i}] \in Calls
      BY CallTypes DEF Calls
    <3>2. send' \in [Senders -> Calls]
      BY <2>2, <3>1 DEF Fails
    <3>3. QED
      BY <2>2, <3>2 DEF Fails, SendTypeOK
  <2>3. QED
    BY <1>1, <2>1, <2>2
<1>2. ASSUME NEW v \in Configs, ReloadTable(v) PROVE SendTypeOK'
  BY <1>2, SendAssumption DEF ReloadTable, SendTypeOK, SendAssumption
<1>3. CASE ReloadServers
  <2>1. /\ allSvrId' = ServersOf[fresh] /\ valid' \subseteq valid /\ half' = FALSE
        /\ shrunk' = (shrunk \/ Len(ServersOf[fresh]) < Len(allSvrId))
        /\ UNCHANGED <<routeTable, robinIdx, mu, fresh, raced>>
    BY <1>3 DEF ReloadServers, Replaces
  <2>2. allSvrId' \in Seq(Servers) /\ allSvrId' # <<>>
    <3>1. /\ ServersOf[fresh] \in Seq(Servers) /\ Cardinality(Servers) \in Nat
          /\ Len(ServersOf[fresh]) \in 1 .. Cardinality(Servers)
      BY SendFinite, SendAssumption DEF SendAssumption, SendTypeOK
    <3>2. ServersOf[fresh] # <<>>
      BY <3>1
    <3>3. QED
      BY <2>1, <3>1, <3>2
  <2>3. send' \in [Senders -> Calls]
    BY <1>3, CallTypes, ReplacedType DEF ReloadServers, Replaces
  <2>4. QED
    BY <2>1, <2>2, <2>3 DEF SendTypeOK
<1>4. ASSUME NEW s \in Senders, \/ SendP2P(s) \/ StartBD(s) \/ EndBD(s) \/ SendTM(s)
                                \/ \E h \in Hashes : SendRT(s, h)
      PROVE  SendTypeOK'
  <2>1. /\ \E call \in Calls : Sends(s, call)
        /\ mu' \in {"free", "held", "lost"} /\ raced' \in BOOLEAN /\ UNCHANGED <<robinIdx, shrunk>>
    BY <1>4, NewCalls DEF SendP2P, StartBD, EndBD, SendTM, SendRT, Returns, Panics, SendTypeOK
  <2>2. QED
    BY <2>1, SendsMoves DEF SendTypeOK
<1>5. ASSUME NEW s \in Senders, ReduceTM(s) \/ StartRobin(s) PROVE SendTypeOK'
  <2>1. /\ \E call \in Calls : Sends(s, call)
        /\ UNCHANGED <<robinIdx, mu, shrunk, raced>>
    <3>1. 0 .. Len(allSvrId) - 1 \subseteq Nat
      BY ListTypes
    <3>2. CASE ReduceTM(s)
      BY <3>1, <3>2, NewCalls DEF ReduceTM, HashTM
    <3>3. CASE StartRobin(s)
      BY <3>3, NewCalls DEF StartRobin
    <3>4. QED
      BY <1>5, <3>2, <3>3
  <2>2. QED
    BY <2>1, SendsMoves DEF SendTypeOK
<1>6. ASSUME NEW s \in Senders, RobinPick(s) PROVE SendTypeOK'
  <2>1. robinIdx' \in Nat /\ UNCHANGED <<shrunk, raced>>
    BY <1>6, ListTypes DEF RobinPick, RobinPicks
  <2>2. CASE robinIdx < Len(allSvrId)
    <3>1. Picks(s, allSvrId[robinIdx + 1])
      BY <1>6, <2>2 DEF RobinPick, RobinPicks
    <3>2. allSvrId[robinIdx + 1] \in Servers
      BY <2>2, ListTypes
    <3>3. [send[s] EXCEPT !.stage = "picked", !.tried = @ \cup {allSvrId[robinIdx + 1]},
                          !.holds = {allSvrId[robinIdx + 1]} \cap valid] \in Calls
      BY <3>2, CallTypes DEF Calls, Stages
    <3>4. send' \in [Senders -> Calls]
      BY <3>1, <3>3, CallTypes, DisturbedType DEF Picks
    <3>5. QED
      BY <2>1, <3>1, <3>4 DEF Picks, SendTypeOK
  <2>3. CASE ~(robinIdx < Len(allSvrId))
    <3>1. Sends(s, [Idle EXCEPT !.stage = "panic"]) /\ mu' = "lost"
      BY <1>6, <2>3 DEF RobinPick, RobinPicks, Panics
    <3>2. QED
      BY <2>1, <3>1, NewCalls, SendsMoves DEF SendTypeOK
  <2>4. QED
    BY <2>2, <2>3
<1>7. ASSUME NEW s \in Senders, RobinCheck(s) PROVE SendTypeOK'
  <2>1. (\E call \in Calls : Sends(s, call)) /\ UNCHANGED <<robinIdx, mu, shrunk, raced>>
    BY <1>7, RobinCheckMoves
  <2>2. QED
    BY <2>1, SendsMoves DEF SendTypeOK
<1>8. CASE UNCHANGED sendVars
  BY <1>8 DEF sendVars, SendTypeOK
<1>9. QED
  BY <1>1, <1>2, <1>3, <1>4, <1>5, <1>6, <1>7, <1>8 DEF SendNext, SendMsg

LEMMA InRangeInit == SendInit => InRange
<1> SUFFICES ASSUME SendInit PROVE InRange
  OBVIOUS
<1>1. /\ Len(allSvrId) \in Nat \ {0} /\ Len(allSvrId) <= Cardinality(Servers)
  BY SendFinite, SendAssumption DEF SendAssumption, SendInit
<1>2. \A s \in Senders : send[s].stage = "idle"
  BY DEF SendInit, Idle
<1>3. QED
  BY <1>1, <1>2 DEF SendInit, InRange

\* The calls of the other senders keep their stage and their hash.
Keeps(r) == send'[r].stage = send[r].stage /\ send'[r].hash = send[r].hash

LEMMA InRangeStep == SendTypeOK /\ InRange /\ [SendNext]_sendVars => InRange'
<1> SUFFICES ASSUME SendTypeOK, InRange, [SendNext]_sendVars PROVE InRange'
  OBVIOUS
<1> USE DEF tables
<1>1. ASSUME UNCHANGED <<tables, robinIdx, shrunk>>,
             \A r \in Senders : Keeps(r) \/ send'[r].stage # "hashed"
      PROVE  InRange'
  BY <1>1 DEF InRange, Keeps
<1>2. ASSUME NEW i \in Servers, Connect(i) \/ Disconnect(i) \/ Fails(i) PROVE InRange'
  <2>1. CASE Connect(i) \/ Disconnect(i)
    BY <1>1, <2>1 DEF Connect, Disconnect, Keeps
  <2>2. CASE Fails(i)
    <3>1. \A r \in Senders : send[r] \in Calls
      BY CallTypes
    <3>2. \A r \in Senders : Keeps(r)
      BY <2>2, <3>1 DEF Fails, Keeps, Calls
    <3>3. QED
      BY <1>1, <2>2, <3>2 DEF Fails
  <2>3. QED
    BY <1>2, <2>1, <2>2
<1>3. ASSUME NEW v \in Configs, ReloadTable(v) PROVE InRange'
  BY <1>3 DEF ReloadTable, InRange
<1>4. CASE ReloadServers
  <2>1. /\ allSvrId' = ServersOf[fresh'] /\ routeTable' = RouteOf[fresh'] /\ half' = FALSE
        /\ fresh' = fresh
        /\ shrunk' = (shrunk \/ Len(ServersOf[fresh]) < Len(allSvrId))
        /\ robinIdx' = robinIdx
    BY <1>4 DEF ReloadServers, Replaces, InRange
  <2>2. Len(allSvrId') <= Cardinality(Servers)
    BY <2>1, SendFinite, SendAssumption DEF SendAssumption, SendTypeOK
  <2>3. \A r \in Senders : Keeps(r)
    BY <1>4, CallTypes, ReplacedType DEF ReloadServers, Replaces, Keeps
  <2>4. ASSUME ~shrunk'
        PROVE  /\ robinIdx' < Len(allSvrId')
               /\ \A s \in Senders : send'[s].stage = "hashed" => send'[s].hash < Len(allSvrId')
    <3>1. ~shrunk /\ Len(allSvrId) <= Len(allSvrId')
      <4>1. Len(ServersOf[fresh]) \in Nat
        BY SendAssumption DEF SendAssumption, SendTypeOK
      <4>2. ~shrunk /\ ~(Len(ServersOf[fresh]) < Len(allSvrId))
        BY <2>1, <2>4, Zenon
      <4>3. QED
        BY <2>1, <4>1, <4>2, ListTypes
    <3>2. Len(allSvrId') \in Nat
      BY <2>1, SendAssumption DEF SendAssumption, SendTypeOK
    <3>3. QED
      BY <2>1, <2>3, <3>1, <3>2, ListTypes, CallTypes DEF InRange, Keeps
  <2>5. QED
    BY <2>1, <2>2, <2>4 DEF InRange
<1>5. ASSUME NEW s \in Senders, NEW call \in Calls, Sends(s, call),
             UNCHANGED <<robinIdx, shrunk>>,
             call.stage = "hashed" => call.hash < Len(allSvrId)
      PROVE  InRange'
  <2>1. send'[s] = call /\ (\A r \in Senders \ {s} : send'[r] = send[r]) /\ UNCHANGED tables
    BY <1>5, SendsMoves
  <2>2. QED
    BY <1>5, <2>1 DEF InRange
<1>6. ASSUME NEW s \in Senders, \/ SendP2P(s) \/ StartBD(s) \/ EndBD(s) \/ SendTM(s)
                                \/ \E h \in Hashes : SendRT(s, h)
      PROVE  InRange'
  <2>1. /\ UNCHANGED <<robinIdx, shrunk>>
        /\ \/ Sends(s, Idle) \/ Sends(s, [Idle EXCEPT !.stage = "panic"])
           \/ Sends(s, [Idle EXCEPT !.stage = "broadcast"])
    BY <1>6 DEF SendP2P, StartBD, EndBD, SendTM, SendRT, Returns, Panics
  <2>2. /\ Idle.stage = "idle" /\ [Idle EXCEPT !.stage = "panic"].stage = "panic"
        /\ [Idle EXCEPT !.stage = "broadcast"].stage = "broadcast"
    BY DEF Idle
  <2>3. QED
    BY <1>5, <2>1, <2>2, NewCalls
<1>7. ASSUME NEW s \in Senders, ReduceTM(s) \/ StartRobin(s) PROVE InRange'
  <2>1. CASE ReduceTM(s)
    <3>1. PICK hash \in 0 .. Len(allSvrId) - 1 :
            Sends(s, [Idle EXCEPT !.stage = "hashed", !.hash = hash])
      BY <2>1 DEF ReduceTM, HashTM
    <3>2. hash \in Nat /\ hash < Len(allSvrId)
      BY ListTypes
    <3>3. [Idle EXCEPT !.stage = "hashed", !.hash = hash].hash = hash
      BY DEF Idle
    <3>4. UNCHANGED <<robinIdx, shrunk>>
      BY <2>1 DEF ReduceTM, HashTM
    <3>5. QED
      BY <1>5, <3>1, <3>2, <3>3, <3>4, NewCalls
  <2>2. CASE StartRobin(s)
    <3>1. [Idle EXCEPT !.stage = "robin"].stage = "robin"
      BY DEF Idle
    <3>2. QED
      BY <1>5, <2>2, <3>1, NewCalls DEF StartRobin
  <2>3. QED
    BY <1>7, <2>1, <2>2
<1>8. ASSUME NEW s \in Senders, RobinPick(s) PROVE InRange'
  <2>1. robinIdx' < Len(allSvrId) /\ UNCHANGED shrunk
    BY <1>8, ListTypes DEF RobinPick, RobinPicks
  <2>2. UNCHANGED tables /\ \A r \in Senders : Keeps(r) \/ send'[r].stage # "hashed"
    <3>1. CASE robinIdx < Len(allSvrId)
      <4>1. Picks(s, allSvrId[robinIdx + 1])
        BY <1>8, <3>1 DEF RobinPick, RobinPicks
      <4>2. \A r \in Senders : send[r] \in Calls /\ Disturbed(send[r]).stage = send[r].stage
                                /\ Disturbed(send[r]).hash = send[r].hash
        BY CallTypes, DisturbedType
      <4>3. send'[s].stage # "hashed"
        BY <4>1, <4>2 DEF Picks, Calls
      <4>4. \A r \in Senders \ {s} : Keeps(r)
        BY <4>1, <4>2 DEF Picks, Keeps
      <4>5. QED
        BY <4>1, <4>3, <4>4 DEF Picks
    <3>2. CASE ~(robinIdx < Len(allSvrId))
      <4>1. Sends(s, [Idle EXCEPT !.stage = "panic"])
        BY <1>8, <3>2 DEF RobinPick, RobinPicks, Panics
      <4>2. [Idle EXCEPT !.stage = "panic"].stage = "panic"
        BY DEF Idle
      <4>3. QED
        BY <4>1, <4>2, NewCalls, SendsMoves DEF Keeps
    <3>3. QED
      BY <3>1, <3>2
  <2>3. QED
    BY <2>1, <2>2 DEF InRange, Keeps
<1>9. ASSUME NEW s \in Senders, RobinCheck(s) PROVE InRange'
  <2>1. PICK call \in Calls : Sends(s, call) /\ call.stage \in {"idle", "error", "robin"}
    BY <1>9, RobinCheckMoves
  <2>2. UNCHANGED <<robinIdx, shrunk>>
    BY <1>9, RobinCheckMoves
  <2>3. QED
    BY <1>5, <2>1, <2>2
<1>10. CASE UNCHANGED sendVars
  BY <1>10 DEF sendVars, InRange
<1>11. QED
  BY <1>2, <1>3, <1>4, <1>6, <1>7, <1>8, <1>9, <1>10 DEF SendNext, SendMsg

\* An index that is beyond the list has been left by a list that was longer, or comes from
\* the route table of the other configuration or of one that does not fit.
LEMMA PanicStep ==
  SendTypeOK /\ InRange /\ PanicNeedsReload /\ [SendNext]_sendVars => PanicNeedsReload'
<1> SUFFICES ASSUME SendTypeOK, InRange, PanicNeedsReload, [SendNext]_sendVars
             PROVE  PanicNeedsReload'
  OBVIOUS
<1>1. ASSUME UNCHANGED <<mu, fresh>>, shrunk => shrunk', raced => raced' PROVE PanicNeedsReload'
  BY <1>1 DEF PanicNeedsReload, Fits
<1>2. ASSUME shrunk' \/ raced' \/ ~Fits(fresh') \/ mu' # "lost" PROVE PanicNeedsReload'
  BY <1>2 DEF PanicNeedsReload, Fits
<1> USE DEF tables
<1>3. ASSUME NEW i \in Servers, Connect(i) \/ Disconnect(i) \/ Fails(i) PROVE PanicNeedsReload'
  BY <1>1, <1>3 DEF Connect, Disconnect, Fails
<1>4. ASSUME NEW v \in Configs, ReloadTable(v) PROVE PanicNeedsReload'
  BY <1>2, <1>4 DEF ReloadTable
<1>5. CASE ReloadServers
  <2>1. UNCHANGED <<mu, fresh, raced>> /\ (shrunk => shrunk')
    BY <1>5, Zenon DEF ReloadServers, Replaces
  <2>2. QED
    BY <1>1, <2>1
<1>6. ASSUME NEW s \in Senders, SendTM(s) PROVE PanicNeedsReload'
  <2>1. UNCHANGED <<shrunk, raced>>
    BY <1>6 DEF SendTM
  <2>2. CASE send[s].hash < Len(allSvrId)
    BY <1>1, <1>6, <2>1, <2>2 DEF SendTM, Returns, Sends
  <2>3. CASE ~(send[s].hash < Len(allSvrId))
    BY <1>2, <1>6, <2>1, <2>3 DEF SendTM, InRange
  <2>4. QED
    BY <2>2, <2>3
<1>7. ASSUME NEW s \in Senders, NEW h \in Hashes, SendRT(s, h) PROVE PanicNeedsReload'
  <2>1. UNCHANGED shrunk
    BY <1>7 DEF SendRT
  <2>2. CASE routeTable[h] < Len(allSvrId)
    BY <1>1, <1>7, <2>1, <2>2 DEF SendRT, Returns, Sends
  <2>3. CASE ~(routeTable[h] < Len(allSvrId))
    <3>1. half \/ ~Fits(fresh)
      BY <2>3 DEF InRange, Fits
    <3>2. raced' = (raced \/ half) /\ fresh' = fresh
      BY <1>7, <2>3 DEF SendRT, Panics, Sends
    <3>3. half => raced'
      BY <3>2, Zenon
    <3>4. QED
      BY <1>2, <3>1, <3>2, <3>3
  <2>4. QED
    BY <2>2, <2>3
<1>8. ASSUME NEW s \in Senders, RobinPick(s) PROVE PanicNeedsReload'
  <2>1. UNCHANGED <<shrunk, raced>>
    BY <1>8 DEF RobinPick, RobinPicks
  <2>2. CASE robinIdx < Len(allSvrId)
    BY <1>1, <1>8, <2>1, <2>2 DEF RobinPick, RobinPicks, Picks
  <2>3. CASE ~(robinIdx < Len(allSvrId))
    BY <1>2, <2>1, <2>3 DEF InRange
  <2>4. QED
    BY <2>2, <2>3
<1>9. ASSUME NEW s \in Senders, SendP2P(s) \/ ReduceTM(s) \/ StartRobin(s) \/ RobinCheck(s)
      PROVE  PanicNeedsReload'
  <2>1. UNCHANGED <<mu, fresh, shrunk, raced>>
    BY <1>9, RobinCheckMoves DEF SendP2P, Returns, Sends, ReduceTM, HashTM, StartRobin
  <2>2. QED
    BY <1>1, <2>1
<1>10. ASSUME NEW s \in Senders, StartBD(s) \/ EndBD(s) PROVE PanicNeedsReload'
  BY <1>2, <1>10 DEF StartBD, EndBD
<1>11. CASE UNCHANGED sendVars
  BY <1>1, <1>11 DEF sendVars
<1>12. QED
  BY <1>3, <1>4, <1>5, <1>6, <1>7, <1>8, <1>9, <1>10, <1>11 DEF SendNext, SendMsg

\* For every configuration, whether or not its route table fits its list: an index is
\* beyond the list of servers, and mu is locked for ever, only after the list has become
\* shorter, between the two halves of a reload, or if the route table does not fit.
THEOREM PanicNeedsReloadCorrect == SendSpec => []PanicNeedsReload
<1> DEFINE Inv == SendTypeOK /\ InRange /\ PanicNeedsReload
<1>1. SendInit => Inv
  BY SendTypeInit, InRangeInit DEF SendInit, PanicNeedsReload
<1>2. Inv /\ [SendNext]_sendVars => Inv'
  BY SendTypeStep, InRangeStep, PanicStep
<1>3. QED
  BY <1>1, <1>2, PTL DEF SendSpec

\* A step that leaves the list, the round robin and what a call has tried does not disturb it.
Same(s) == /\ send'[s].stage = send[s].stage /\ send'[s].fails = send[s].fails
           /\ send'[s].tried = send[s].tried /\ send'[s].disturbed = send[s].disturbed

LEMMA SameTries ==
  ASSUME NEW s \in Senders, Robin(s) => Tries(s), UNCHANGED <<allSvrId, robinIdx>>, Same(s)
  PROVE  (Robin(s) => Tries(s))'
BY DEF Robin, Tries, Picked, Behind, Same

\* Only the calls of a round robin are concerned.
LEMMA OtherStages ==
  ASSUME NEW s \in Senders,
         send'[s].disturbed \/ send'[s].stage \notin {"robin", "picked", "error"}
  PROVE  (Robin(s) => Tries(s))'
BY DEF Robin

\* A round robin that begins has tried nothing, and has to.
LEMMA BeginsTries ==
  ASSUME SendTypeOK, NEW s \in Senders, allSvrId' = allSvrId,
         send'[s].stage = "robin", send'[s].fails = 0
  PROVE  (Robin(s) => Tries(s))'
<1>1. Len(allSvrId) \in Nat \ {0}
  BY ListTypes
<1>2. Picked(s)' = 0
  BY DEF Picked
<1>3. \A j \in 0 .. Len(allSvrId) - 1 : ~Behind(j, 0)'
  BY DEF Behind
<1>4. QED
  BY <1>1, <1>2, <1>3 DEF Tries

\* Picking the next server: what is behind the new index is that server, or was behind.
LEMMA NextBehind ==
  ASSUME NEW n \in Nat, NEW i \in 0 .. n - 1, NEW k \in Nat,
         k = IF i + 1 >= n THEN 0 ELSE i + 1,
         NEW j \in 0 .. n - 1, NEW p \in Nat, NEW q \in 1 .. p + 1,
         j = k - q \/ j = k - q + n
  PROVE  j = i \/ (q - 1 \in 1 .. p /\ (j = i - (q - 1) \/ j = i - (q - 1) + n))
OBVIOUS

LEMMA PickTries ==
  ASSUME SendTypeOK, TriesBehind, NEW s \in Senders, RobinPick(s),
         robinIdx < Len(allSvrId), ~send[s].disturbed
  PROVE  (Robin(s) => Tries(s))'
<1> DEFINE id == allSvrId[robinIdx + 1]
           p == send[s].fails
<1>1. send[s].stage = "robin" /\ Picks(s, id) /\ allSvrId' = allSvrId
  BY DEF RobinPick, RobinPicks, Picks, tables
<1>2. /\ send'[s].stage = "picked" /\ send'[s].fails = p
      /\ send'[s].tried = send[s].tried \cup {id}
  BY <1>1, CallTypes DEF Picks, Calls
<1>3. Robin(s) /\ Tries(s) /\ Picked(s) = p /\ p < Len(allSvrId) /\ p \in Nat
  BY <1>1, CallTypes DEF TriesBehind, Robin, Tries, Picked
<1>4. Len(allSvrId) \in Nat \ {0} /\ robinIdx \in 0 .. Len(allSvrId) - 1
  BY ListTypes
<1>5. /\ robinIdx' = IF robinIdx + 1 >= Len(allSvrId) THEN 0 ELSE robinIdx + 1
      /\ robinIdx' \in Nat /\ robinIdx' < Len(allSvrId)
  BY <1>4 DEF RobinPick, RobinPicks
<1>6. Picked(s)' = p + 1
  BY <1>2 DEF Picked
<1>7. ASSUME NEW j \in 0 .. Len(allSvrId) - 1, Behind(j, Picked(s))'
      PROVE  allSvrId[j + 1] \in send'[s].tried
  <2>1. PICK q \in 1 .. p + 1 : j = robinIdx' - q \/ j = robinIdx' - q + Len(allSvrId)
    BY <1>1, <1>6, <1>7 DEF Behind
  <2>2. \/ j = robinIdx
        \/ /\ q - 1 \in 1 .. p
           /\ j = robinIdx - (q - 1) \/ j = robinIdx - (q - 1) + Len(allSvrId)
    <3>1. /\ robinIdx' = IF robinIdx + 1 >= Len(allSvrId) THEN 0 ELSE robinIdx + 1
          /\ robinIdx' \in Nat /\ p \in Nat /\ Len(allSvrId) \in Nat
          /\ robinIdx \in 0 .. Len(allSvrId) - 1
      BY <1>3, <1>4, <1>5
    <3> HIDE DEF p
    <3>2. QED
      BY <2>1, <3>1, NextBehind
  <2>3. CASE j = robinIdx
    BY <1>2, <2>3
  <2>4. CASE j # robinIdx
    <3>1. Behind(j, p)
      BY <2>2, <2>4 DEF Behind
    <3>2. allSvrId[j + 1] \in send[s].tried
      BY <1>3, <3>1 DEF Tries
    <3>3. QED
      BY <1>2, <3>2
  <2>5. QED
    BY <2>3, <2>4
<1>8. QED
  BY <1>1, <1>2, <1>3, <1>5, <1>6, <1>7 DEF Tries

LEMMA CheckTries ==
  ASSUME SendTypeOK, InRange, TriesBehind, NEW s \in Senders, RobinCheck(s)
  PROVE  (Robin(s) => Tries(s))'
<1>1. PICK call \in Calls :
        /\ Sends(s, call)
        /\ call.stage \in {"idle", "error", "robin"}
        /\ call.stage # "idle" =>
             /\ call.tried = send[s].tried /\ call.disturbed = send[s].disturbed
             /\ call.fails = Min({send[s].fails, Cardinality(Servers)}) + 1
             /\ call.stage = "error" <=> call.fails = Len(allSvrId)
  BY RobinCheckMoves
<1>2. send[s].stage = "picked" /\ UNCHANGED <<allSvrId, robinIdx>>
  BY RobinCheckMoves DEF tables
<1>3. send'[s] = call
  BY <1>1, SendsMoves
<1>4. CASE call.stage = "idle" \/ call.disturbed
  BY <1>3, <1>4, OtherStages
<1>5. CASE call.stage # "idle" /\ ~call.disturbed
  <2>1. Tries(s) /\ send[s].fails < Len(allSvrId) /\ Picked(s) = send[s].fails + 1
    BY <1>1, <1>2, <1>5 DEF TriesBehind, Robin, Tries, Picked
  <2>2. Len(allSvrId) \in Nat /\ Cardinality(Servers) \in Nat /\ send[s].fails \in Nat
    BY ListTypes, CallTypes, SendFinite, SendAssumption DEF SendAssumption
  <2>3. call.fails = send[s].fails + 1
    <3>1. send[s].fails <= Cardinality(Servers)
      BY <2>1, <2>2 DEF InRange
    <3>2. QED
      BY <1>1, <1>5, <2>2, <3>1, MinOfTwo
  <2>4. Picked(s)' = Picked(s)
    BY <1>1, <1>3, <2>1, <2>3 DEF Picked
  <2>5. \A j \in 0 .. Len(allSvrId) - 1 :
          Behind(j, Picked(s))' => allSvrId[j + 1] \in send'[s].tried
    BY <1>1, <1>2, <1>3, <1>5, <2>1, <2>4 DEF Tries, Behind
  <2>6. /\ call.stage = "robin" => call.fails < Len(allSvrId)
        /\ call.stage = "error" => call.fails = Len(allSvrId)
    BY <1>1, <1>5, <2>1, <2>2, <2>3
  <2>7. Picked(s)' > 0 => robinIdx' < Len(allSvrId')
    BY <1>2, <2>1, <2>4 DEF Tries
  <2>8. QED
    BY <1>1, <1>2, <1>3, <2>5, <2>6, <2>7 DEF Tries
<1>6. QED
  BY <1>4, <1>5

LEMMA TriesStep ==
  SendTypeOK /\ InRange /\ TriesBehind /\ [SendNext]_sendVars => TriesBehind'
<1> SUFFICES ASSUME SendTypeOK, InRange, TriesBehind, [SendNext]_sendVars,
                    NEW r \in Senders
             PROVE  (Robin(r) => Tries(r))'
  BY DEF TriesBehind
<1> USE DEF tables
<1>0. Robin(r) => Tries(r)
  BY DEF TriesBehind
<1>1. ASSUME NEW i \in Servers, Connect(i) \/ Disconnect(i) \/ Fails(i)
      PROVE  (Robin(r) => Tries(r))'
  <2>1. UNCHANGED <<allSvrId, robinIdx>>
    BY <1>1 DEF Connect, Disconnect, Fails
  <2>2. Same(r)
    BY <1>1, CallTypes DEF Connect, Disconnect, Fails, Same, Calls
  <2>3. QED
    BY <1>0, <2>1, <2>2, SameTries
<1>2. ASSUME NEW v \in Configs, ReloadTable(v) PROVE (Robin(r) => Tries(r))'
  BY <1>0, <1>2, SameTries DEF ReloadTable, Same
<1>3. CASE ReloadServers
  <2>1. /\ send'[r].stage = send[r].stage
        /\ send'[r].disturbed = Disturbed(send[r]).disturbed
    BY <1>3, CallTypes, ReplacedType DEF ReloadServers, Replaces
  <2>2. send'[r].disturbed <=> send[r].stage \in {"robin", "picked", "error"}
    BY <2>1, CallTypes, DisturbedType
  <2>3. QED
    BY <2>1, <2>2, OtherStages
\* A step of a call that leaves the list and the round robin alone.
<1>4. ASSUME NEW s \in Senders, NEW call \in Calls, Sends(s, call), robinIdx' = robinIdx,
             (Robin(s) => Tries(s))'
      PROVE  (Robin(r) => Tries(r))'
  <2>1. CASE r = s
    BY <1>4, <2>1
  <2>2. CASE r # s
    <3>1. UNCHANGED allSvrId /\ Same(r)
      BY <1>4, <2>2, SendsMoves DEF Same
    <3>2. QED
      BY <1>0, <1>4, <3>1, SameTries
  <2>3. QED
    BY <2>1, <2>2
<1>5. ASSUME NEW s \in Senders, NEW call \in Calls, Sends(s, call), robinIdx' = robinIdx,
             call.stage \in {"idle", "broadcast", "hashed", "panic"}
      PROVE  (Robin(r) => Tries(r))'
  <2>1. send'[s].stage \notin {"robin", "picked", "error"}
    BY <1>5, SendsMoves
  <2>2. QED
    BY <1>4, <1>5, <2>1, OtherStages
<1>6. ASSUME NEW s \in Senders, \/ SendP2P(s) \/ StartBD(s) \/ EndBD(s) \/ SendTM(s)
                                \/ \E h \in Hashes : SendRT(s, h)
      PROVE  (Robin(r) => Tries(r))'
  <2>1. /\ robinIdx' = robinIdx
        /\ \/ Sends(s, Idle) \/ Sends(s, [Idle EXCEPT !.stage = "panic"])
           \/ Sends(s, [Idle EXCEPT !.stage = "broadcast"])
    BY <1>6 DEF SendP2P, StartBD, EndBD, SendTM, SendRT, Returns, Panics
  <2>2. /\ Idle.stage = "idle" /\ [Idle EXCEPT !.stage = "panic"].stage = "panic"
        /\ [Idle EXCEPT !.stage = "broadcast"].stage = "broadcast"
    BY DEF Idle
  <2>3. QED
    BY <1>5, <2>1, <2>2, NewCalls
<1>7. ASSUME NEW s \in Senders, ReduceTM(s) PROVE (Robin(r) => Tries(r))'
  <2>1. PICK hash \in 0 .. Len(allSvrId) - 1 :
          Sends(s, [Idle EXCEPT !.stage = "hashed", !.hash = hash])
    BY <1>7 DEF ReduceTM, HashTM
  <2>2. hash \in Nat
    BY ListTypes
  <2>3. [Idle EXCEPT !.stage = "hashed", !.hash = hash].stage = "hashed"
    BY DEF Idle
  <2>4. robinIdx' = robinIdx
    BY <1>7 DEF ReduceTM, HashTM
  <2>5. QED
    BY <1>5, <2>1, <2>2, <2>3, <2>4, NewCalls
<1>8. ASSUME NEW s \in Senders, StartRobin(s) PROVE (Robin(r) => Tries(r))'
  <2>1. Sends(s, [Idle EXCEPT !.stage = "robin"]) /\ robinIdx' = robinIdx
    BY <1>8 DEF StartRobin
  <2>2. /\ [Idle EXCEPT !.stage = "robin"].stage = "robin"
        /\ [Idle EXCEPT !.stage = "robin"].fails = 0
    BY DEF Idle
  <2>3. send'[s].stage = "robin" /\ send'[s].fails = 0 /\ allSvrId' = allSvrId
    BY <2>1, <2>2, NewCalls, SendsMoves
  <2>4. QED
    BY <1>4, <2>1, <2>3, NewCalls, BeginsTries
<1>9. ASSUME NEW s \in Senders, RobinPick(s) PROVE (Robin(r) => Tries(r))'
  <2>1. CASE robinIdx < Len(allSvrId)
    <3>1. Picks(s, allSvrId[robinIdx + 1])
      BY <1>9, <2>1 DEF RobinPick, RobinPicks
    <3>2. CASE r # s
      <4>1. send'[r] = Disturbed(send[r])
        BY <3>1, <3>2 DEF Picks
      <4>2. QED
        BY <4>1, CallTypes, DisturbedType, OtherStages
    <3>3. CASE r = s /\ send[s].disturbed
      <4>1. send'[s].disturbed = send[s].disturbed
        BY <3>1, CallTypes DEF Picks, Calls
      <4>2. QED
        BY <3>3, <4>1, OtherStages
    <3>4. CASE r = s /\ ~send[s].disturbed
      BY <1>9, <2>1, <3>4, PickTries
    <3>5. QED
      BY <3>2, <3>3, <3>4
  <2>2. CASE ~(robinIdx < Len(allSvrId))
    <3>1. Sends(s, [Idle EXCEPT !.stage = "panic"])
      BY <1>9, <2>2 DEF RobinPick, RobinPicks, Panics
    <3>2. [Idle EXCEPT !.stage = "panic"].stage = "panic"
      BY DEF Idle
    <3>3. CASE r = s
      BY <3>1, <3>2, <3>3, NewCalls, SendsMoves, OtherStages
    <3>4. CASE r # s
      \* A call that has tried a server would have left robinIdx within the list.
      <4>1. UNCHANGED allSvrId /\ Same(r)
        BY <3>1, <3>4, NewCalls, SendsMoves DEF Same
      <4>2. CASE Robin(r)
        <5>1. Picked(r) = 0
          BY <1>0, <2>2, <4>2, CallTypes DEF Picked, Tries
        <5>2. Len(allSvrId) \in Nat \ {0}
          BY ListTypes
        <5>3. send[r].stage = "robin" /\ send[r].fails = 0
          BY <1>0, <4>2, <5>1, <5>2, CallTypes DEF Robin, Picked, Tries
        <5>4. QED
          BY <4>1, <5>3, BeginsTries DEF Same
      <4>3. CASE ~Robin(r)
        BY <4>1, <4>3 DEF Robin, Same
      <4>4. QED
        BY <4>2, <4>3
    <3>5. QED
      BY <3>3, <3>4
  <2>3. QED
    BY <2>1, <2>2
<1>10. ASSUME NEW s \in Senders, RobinCheck(s) PROVE (Robin(r) => Tries(r))'
  <2>1. (Robin(s) => Tries(s))' /\ robinIdx' = robinIdx /\ \E call \in Calls : Sends(s, call)
    BY <1>10, CheckTries, RobinCheckMoves
  <2>2. QED
    BY <1>4, <2>1
<1>11. CASE UNCHANGED sendVars
  BY <1>0, <1>11, SameTries DEF sendVars, Same
<1>12. QED
  BY <1>1, <1>2, <1>3, <1>6, <1>7, <1>8, <1>9, <1>10, <1>11 DEF SendNext, SendMsg

\* What is behind the round robin by as many as there are servers is every server.
LEMMA AllBehind ==
  ASSUME NEW n \in Nat, NEW i \in 0 .. n - 1, NEW j \in 0 .. n - 1
  PROVE  \E q \in 1 .. n : j = i - q \/ j = i - q + n
<1>1. CASE j < i
  <2>1. i - j \in 1 .. n /\ j = i - (i - j)
    BY <1>1
  <2>2. QED
    BY <2>1
<1>2. CASE i <= j
  <2>1. i - j + n \in 1 .. n /\ j = i - (i - j + n) + n
    BY <1>2
  <2>2. QED
    BY <2>1
<1>3. QED
  BY <1>1, <1>2

LEMMA TriedEveryServer == SendTypeOK /\ TriesBehind => SoleRobinTriesAll
<1> SUFFICES ASSUME SendTypeOK, TriesBehind, NEW s \in Senders,
                    SaysInvalid(s), ~send[s].disturbed
             PROVE  TriedAll(s)
  BY DEF SoleRobinTriesAll
<1>1. Len(allSvrId) \in Nat \ {0} /\ robinIdx \in Nat
  BY ListTypes
<1>2. Picked(s) = Len(allSvrId) /\ Tries(s)
  BY DEF TriesBehind, Robin, Tries, Picked, SaysInvalid
<1>3. robinIdx \in 0 .. Len(allSvrId) - 1
  BY <1>1, <1>2 DEF Tries
<1>4. ASSUME NEW i \in 1 .. Len(allSvrId) PROVE allSvrId[i] \in send[s].tried
  <2>1. i - 1 \in 0 .. Len(allSvrId) - 1 /\ (i - 1) + 1 = i
    BY <1>1
  <2>2. Behind(i - 1, Picked(s))
    <3>1. \E q \in 1 .. Len(allSvrId) :
            i - 1 = robinIdx - q \/ i - 1 = robinIdx - q + Len(allSvrId)
      <4>1. i - 1 \in 0 .. Len(allSvrId) - 1 /\ Len(allSvrId) \in Nat
        BY <1>1, <2>1
      <4>2. QED
        BY <1>3, <4>1, AllBehind
    <3>2. QED
      BY <1>2, <3>1 DEF Behind
  <2>3. allSvrId[(i - 1) + 1] \in send[s].tried
    BY <1>2, <2>1, <2>2 DEF Tries
  <2>4. QED
    BY <2>1, <2>3
<1>5. QED
  BY <1>4 DEF TriedAll, ToSet

\* For every number of senders and every list: a round robin that nobody disturbs says
\* that all connections are invalid only after it has tried every server.
THEOREM SoleRobinTriesAllCorrect == SendSpec => []SoleRobinTriesAll
<1> DEFINE Inv == SendTypeOK /\ InRange /\ TriesBehind
<1>1. SendInit => Inv
  BY SendTypeInit, InRangeInit DEF SendInit, TriesBehind, Robin, Idle
<1>2. Inv /\ [SendNext]_sendVars => Inv'
  BY SendTypeStep, InRangeStep, TriesStep
<1>3. Inv => SoleRobinTriesAll
  BY TriedEveryServer
<1>4. QED
  BY <1>1, <1>2, <1>3, PTL DEF SendSpec
=============================================================================
