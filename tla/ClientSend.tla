----------------------------- MODULE ClientSend -----------------------------
(***************************************************************************)
(* SendMsg of the client component (component/net/client/client.go): the   *)
(* choice of a connection by the callers of SendMsg, while connections     *)
(* come and go (module ClientConns) and checkConns reloads the list of     *)
(* servers and the route table.                                            *)
(*                                                                         *)
(* The mutex mu is held within a step, except by a broadcast, which writes *)
(* to the pipes of all connections with it, and by a caller that panics:   *)
(* nothing unlocks it then, although the main loop recovers.  Some reads   *)
(* of the list are made without mu.  A message is abstracted to the choice *)
(* of the connection it is given to (NetConn models what follows).         *)
(***************************************************************************)
EXTENDS ClientLists

CONSTANTS
  RouteOf,    \* the index of the server for each hash value (RouteEntries)
  Hashes,     \* the values of a hash key
  Senders     \* the goroutines that call SendMsg

\* The configurations: OnNewCfg refuses an empty list and is meant to refuse a
\* duplicate.  Nothing checks that the route table leads to servers of the list.
ASSUME SendAssumption ==
  /\ First \in Configs
  /\ IsFiniteSet(Servers)
  /\ ServersOf \in [Configs -> Seq(Servers)]
  /\ \A v \in Configs : Len(ServersOf[v]) \in 1 .. Cardinality(Servers)
  /\ RouteOf \in [Configs -> [Hashes -> Nat]]

VARIABLES
  routeTable,
  robinIdx,
  valid,      \* the servers whose connection is in connMap and is not closed
  half,       \* TRUE when reloadCfg has replaced the route table, not the list
  send,       \* the call of SendMsg of each sender
  \* what has been observed
  shrunk,     \* the list has been replaced by a shorter one
  raced       \* the new route table has been used with the old list

tables == <<allSvrId, routeTable, half, fresh>>
sendVars == <<allSvrId, routeTable, robinIdx, valid, mu, half, fresh, send,
              shrunk, raced>>

\* A call of SendMsg: its stage, the hash it has reduced, the servers it has
\* tried and the open connection it holds, how many connections it has found
\* invalid, and whether another call has moved the round robin or a reload has
\* changed the list meanwhile.
Stages == {"idle", "broadcast", "hashed", "robin", "picked", "error", "panic"}
Calls == [stage : Stages, hash : Nat, tried : SUBSET Servers,
          holds : SUBSET Servers, fails : Nat, disturbed : BOOLEAN]
Idle == [stage |-> "idle", hash |-> 0, tried |-> {}, holds |-> {},
         fails |-> 0, disturbed |-> FALSE]

SendTypeOK ==
  /\ allSvrId \in Seq(Servers) /\ allSvrId # <<>>
  /\ routeTable \in [Hashes -> Nat]
  /\ robinIdx \in Nat
  /\ valid \subseteq Servers
  /\ mu \in {"free", "held", "lost"}
  /\ half \in BOOLEAN /\ fresh \in Configs
  /\ send \in [Senders -> Calls]
  /\ shrunk \in BOOLEAN /\ raced \in BOOLEAN

SendInit ==
  /\ allSvrId = ServersOf[First] /\ routeTable = RouteOf[First]
  /\ robinIdx = 0
  /\ valid = {}
  /\ mu = "free" /\ half = FALSE /\ fresh = First
  /\ send = [s \in Senders |-> Idle]
  /\ shrunk = FALSE /\ raced = FALSE

-----------------------------------------------------------------------------
(* The connections: connJob registers those that lead to a server of the   *)
(* list, and removes them; they fail, and checkConns removes them.         *)

Connect(id) ==
  /\ mu = "free"
  /\ id \in ToSet(allSvrId)
  /\ valid' = valid \cup {id}
  /\ UNCHANGED <<tables, robinIdx, mu, send, shrunk, raced>>

Disconnect(id) ==
  /\ mu = "free"
  /\ valid' = valid \ {id}
  /\ UNCHANGED <<tables, robinIdx, mu, send, shrunk, raced>>

\* A connection that fails is closed for those who hold it, too.
Fails(id) ==
  /\ valid' = valid \ {id}
  /\ send' = [s \in Senders |-> [send[s] EXCEPT !.holds = @ \ {id}]]
  /\ UNCHANGED <<tables, robinIdx, mu, shrunk, raced>>

-----------------------------------------------------------------------------
(* reloadCfg has two critical sections.                                    *)

Disturbed(call) ==
  [call EXCEPT !.disturbed = call.stage \in {"robin", "picked", "error"}]

ReloadTable(v) ==
  /\ ~half /\ mu = "free"
  /\ fresh' = v
  /\ routeTable' = RouteOf[v]
  /\ half' = TRUE
  /\ UNCHANGED <<allSvrId, robinIdx, valid, mu, send, shrunk, raced>>

Replaces(list) ==
  /\ half /\ mu = "free"
  /\ allSvrId' = list
  /\ valid' = valid \cap ToSet(list)
  /\ half' = FALSE
  /\ shrunk' = (shrunk \/ Len(list) < Len(allSvrId))
  /\ send' = [s \in Senders |->
                [Disturbed(send[s]) EXCEPT !.holds = @ \ (valid \ ToSet(list))]]
  /\ UNCHANGED <<routeTable, robinIdx, mu, fresh, raced>>
ReloadServers == Replaces(ServersOf[fresh])

-----------------------------------------------------------------------------
(* SendMsg.                                                                *)

Calling(s) == send[s].stage \in {"idle", "error"}

Sends(s, call) ==
  /\ send' = [send EXCEPT ![s] = call]
  /\ UNCHANGED <<tables, valid>>
\* SendMsg returns; the sender may call it again.
Returns(s) == Sends(s, Idle) /\ UNCHANGED mu
\* Taking an index beyond allSvrId panics with mu locked.
Panics(s) == Sends(s, [Idle EXCEPT !.stage = "panic"]) /\ mu' = "lost"

\* P2P: the caller names the server.
SendP2P(s) ==
  /\ Calling(s) /\ mu = "free"
  /\ Returns(s)
  /\ UNCHANGED <<robinIdx, shrunk, raced>>

\* BD: with mu locked, the message is written to the pipe of every connection, and a
\* pipe that is full makes the caller wait, for ever if its connection never writes.
StartBD(s) ==
  /\ Calling(s) /\ mu = "free"
  /\ Sends(s, [Idle EXCEPT !.stage = "broadcast"]) /\ mu' = "held"
  /\ UNCHANGED <<robinIdx, shrunk, raced>>
EndBD(s) ==
  /\ send[s].stage = "broadcast"
  /\ Sends(s, Idle) /\ mu' = "free"
  /\ UNCHANGED <<robinIdx, shrunk, raced>>

\* TM: the hash is reduced by the length of the list before mu is locked.
HashTM(s, hash) ==
  /\ Calling(s)
  /\ Sends(s, [Idle EXCEPT !.stage = "hashed", !.hash = hash])
  /\ UNCHANGED <<robinIdx, mu, shrunk, raced>>
ReduceTMWide(s) == \E hash \in 0 .. Len(allSvrId) : HashTM(s, hash)   \* faulty
ReduceTM(s) == \E hash \in 0 .. Len(allSvrId) - 1 : HashTM(s, hash)

SendTM(s) ==
  /\ send[s].stage = "hashed" /\ mu = "free"
  /\ IF send[s].hash < Len(allSvrId) THEN Returns(s) ELSE Panics(s)
  /\ UNCHANGED <<robinIdx, shrunk, raced>>

\* RT: the hash selects an index of the list through the route table.
SendRT(s, h) ==
  /\ Calling(s) /\ mu = "free"
  /\ IF routeTable[h] < Len(allSvrId)
     THEN Returns(s) /\ UNCHANGED raced
     ELSE Panics(s) /\ raced' = (raced \/ half)
  /\ UNCHANGED <<robinIdx, shrunk>>

\* RD: the round robin.
StartRobin(s) ==
  /\ Calling(s)
  /\ Sends(s, [Idle EXCEPT !.stage = "robin"])
  /\ UNCHANGED <<robinIdx, mu, shrunk, raced>>

Picks(s, id) ==
  /\ send' = [r \in Senders |->
                IF r # s THEN Disturbed(send[r])
                ELSE [send[s] EXCEPT !.stage = "picked", !.tried = @ \cup {id},
                                     !.holds = {id} \cap valid]]
  /\ UNCHANGED <<tables, valid, mu>>

RobinPicks(s, next) ==
  /\ send[s].stage = "robin" /\ mu = "free"
  /\ robinIdx' = next
  /\ IF robinIdx < Len(allSvrId) THEN Picks(s, allSvrId[robinIdx + 1])
                                 ELSE Panics(s)
  /\ UNCHANGED <<shrunk, raced>>
RobinPickSkips(s) == RobinPicks(s, IF robinIdx + 2 >= Len(allSvrId)   \* faulty
                                   THEN 0 ELSE robinIdx + 2)
RobinPick(s) == RobinPicks(s, IF robinIdx + 1 >= Len(allSvrId)
                              THEN 0 ELSE robinIdx + 1)

\* A missing or closed connection is counted; exactly len(allSvrId) of them end
\* the call.  The count stops (bound) beyond the length of every list.
RobinChecks(s, ends) ==
  LET fails == Min({send[s].fails, Cardinality(Servers)}) + 1 IN
  /\ send[s].stage = "picked"
  /\ IF send[s].holds # {}
     THEN Sends(s, Idle)
     ELSE \E stage \in {"error", "robin"} :
            /\ stage = "error" <=> ends[fails]
            /\ Sends(s, [send[s] EXCEPT !.stage = stage, !.fails = fails])
  /\ UNCHANGED <<robinIdx, mu, shrunk, raced>>
RobinCheckForgets(s) == RobinChecks(s, [n \in Nat |-> 1 = Len(allSvrId)])  \* faulty
RobinCheck(s) == RobinChecks(s, [n \in Nat |-> n = Len(allSvrId)])

-----------------------------------------------------------------------------
SendMsg(s) == \/ SendP2P(s) \/ StartBD(s) \/ EndBD(s) \/ ReduceTM(s) \/ SendTM(s)
              \/ \E h \in Hashes : SendRT(s, h)
              \/ StartRobin(s) \/ RobinPick(s) \/ RobinCheck(s)

SendNext ==
  \/ \E id \in Servers : Connect(id) \/ Disconnect(id) \/ Fails(id)
  \/ \E v \in Configs : ReloadTable(v)
  \/ ReloadServers
  \/ \E s \in Senders : SendMsg(s)

SendSpec == SendInit /\ [][SendNext]_sendVars

\* A round robin goes on, and is given mu if that is free again and again.  A
\* broadcast need not end.
SendFairness ==
  \A s \in Senders : SF_sendVars(RobinPick(s)) /\ WF_sendVars(RobinCheck(s))

FairSendSpec == SendSpec /\ SendFairness

-----------------------------------------------------------------------------
(* Properties.                                                             *)

\* The route table of a configuration leads to servers of its list.
Fits(v) == \A h \in Hashes : RouteOf[v][h] < Len(ServersOf[v])

\* An index is beyond the list of servers - and mu is locked for ever - only after the
\* list has become shorter, between the two halves of a reload, or with a
\* configuration whose route table does not fit its list.
PanicNeedsReload == mu = "lost" => shrunk \/ raced \/ ~Fits(fresh)

\* A round robin that nobody disturbs says that all connections are invalid
\* only if it has tried the connection of every server.
SaysInvalid(s) == send[s].stage = "error"
TriedAll(s) == ToSet(allSvrId) \subseteq send[s].tried
SoleRobinTriesAll ==
  \A s \in Senders : SaysInvalid(s) => TriedAll(s) \/ send[s].disturbed

\* The failures are compared with the length of the list for equality: a round robin
\* that a reload makes overshoot has no other end than a connection that is valid.
Overshot(s) == shrunk /\ send[s].fails > Len(allSvrId)

\* As long as no panic and no broadcast keeps mu for ever, a round robin returns or
\* overshoots; if all servers are connected for good it returns in any case.
Returned(s) == send[s].stage \in {"idle", "error"}
RobinReturns ==
  []<>(mu = "free") =>
    \A s \in Senders :
      /\ send[s].stage = "robin" ~> Returned(s) \/ Overshot(s)
      /\ <>[](ToSet(allSvrId) \subseteq valid) =>
           (send[s].stage = "robin" ~> Returned(s))
=============================================================================
