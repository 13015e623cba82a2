---------------------------- MODULE ClientConns ----------------------------
(***************************************************************************)
(* The connections of the client component (component/net/client/client.go)*)
(* to the servers of a service, their renewal and the reload of the list   *)
(* of servers.                                                             *)
(*                                                                         *)
(* A connection is registered in connMap under the id of its server by its *)
(* own goroutine connJob; checkConns dials again what is missing.  These   *)
(* hold the mutex mu within a step.  ClientSend models the callers of      *)
(* SendMsg; here they only take mu for longer, or for ever.  Nobody in the *)
(* repository calls WaitOK, so nobody reads the channel connOK.            *)
(*                                                                         *)
(* An address leads to the same server in every configuration.  The        *)
(* configuration manager (component/cfg/cfg.go) runs the Post hook, which  *)
(* notifies the client, before it makes a new configuration current.       *)
(***************************************************************************)
EXTENDS ClientLists

CONSTANTS
  Addrs,      \* the addresses of servers
  IdOf,       \* the server of each address
  MaxConns,   \* bound: connections that exist at a time
  MaxReloads, \* bound: changes of the configuration
  MaxCloses   \* bound: connections and calls of DialTCP that fail

\* OnNewCfg refuses an empty list of servers.
ASSUME ClientAssumption ==
  /\ Addrs # {} /\ IsFiniteSet(Addrs)
  /\ IdOf \in [Addrs -> Servers]
  /\ First \in Configs
  /\ ServersOf \in [Configs -> Seq(Servers)]
  /\ \A v \in Configs : ServersOf[v] # <<>>
  /\ MaxConns \in Nat /\ MaxReloads \in Nat /\ MaxCloses \in Nat

Conns == 1 .. MaxConns
NoConn == 0

VARIABLES
  cfg,        \* the current configuration: what Get returns
  posted,     \* a configuration whose Post hook has run, not current yet; or {}
  reloadChan, \* number of values in reloadChan
  connOK,     \* number of values in connOK
  svrIdMap,   \* the addresses in svrIdMap
  connMap,
  job,        \* control of the connJob of each connection
  addr,       \* the address of each connection
  open,       \* connections that are not closed
  check,      \* control of checkConns
  reloads,    \* bound: number of reloads so far
  closes      \* bound: number of failures so far

config == <<cfg, posted, reloads>>
channels == <<reloadChan, connOK>>
lists == <<allSvrId, svrIdMap>>
checker == <<check, fresh>>
jobs == <<job, addr, open, closes>>

vars == <<mu, cfg, posted, reloadChan, connOK, allSvrId, svrIdMap, connMap, job,
          addr, open, check, fresh, reloads, closes>>

AddrsOf(v) == {a \in Addrs : IdOf[a] \in ToSet(ServersOf[v])}
Alive(c) == c \in open

\* Where a connJob is: before its registration, before and after the test of
\* connOK, and in its loop.
Places == {"unused", "new", "test", "notify", "run"}

\* Its connection has been registered.
Joined == {"test", "notify", "run"}

TypeOK ==
  /\ mu \in {"free", "held"}
  /\ cfg \in Configs /\ posted \in SUBSET Configs
  /\ reloadChan \in 0 .. 1 /\ connOK \in 0 .. 1
  /\ allSvrId \in Seq(Servers) /\ svrIdMap \subseteq Addrs
  /\ connMap \in [Servers -> Conns \cup {NoConn}]
  /\ job \in [Conns -> Places]
  /\ addr \in [Conns -> Addrs] /\ open \subseteq Conns
  /\ check \in {"sleep", "reload", "check"}
  /\ fresh \in Configs
  /\ reloads \in 0 .. MaxReloads /\ closes \in 0 .. MaxCloses

Default == CHOOSE a \in Addrs : TRUE

\* Which connection has which identity does not matter.
Numbers(to) == /\ IsInjective(to)
               /\ to = CHOOSE t \in [DOMAIN to -> Range(to)] : IsInjective(t)

\* Dialled connections take identities that are not in use, or that nothing
\* refers to any more but a connJob that waits for ever (Notify).
Stuck(c) == job[c] = "notify" /\ connOK = 1 /\ ~Alive(c)
Unused == {c \in Conns : /\ job[c] = "unused" \/ Stuck(c)
                         /\ \A s \in Servers : connMap'[s] # c}

\* Some addresses are dialled with success: "to" says which connection leads
\* to which address.
Dialled(to) ==
  /\ \A c \in DOMAIN to, d \in Unused \ DOMAIN to : c < d
  /\ job' = [c \in Conns |-> IF c \in DOMAIN to THEN "new" ELSE job[c]]
  /\ addr' = [c \in Conns |-> IF c \in DOMAIN to THEN to[c] ELSE addr[c]]
  /\ open' = open \cup DOMAIN to

\* Start has read the configuration, and startTCPClient has dialled, before
\* checkConns wakes for the first time; some calls of DialTCP have failed.
Init ==
  /\ mu = "free"
  /\ cfg = First /\ posted = {} /\ reloadChan = 0 /\ connOK = 0
  /\ allSvrId = ServersOf[First] /\ svrIdMap = AddrsOf(First)
  /\ connMap = [s \in Servers |-> NoConn]
  /\ closes \in 0 .. MaxCloses
  /\ \E dialled \in 0 .. MaxConns :
       /\ dialled + closes = Cardinality(svrIdMap)
       /\ open = 1 .. dialled
       /\ \E to \in [open -> svrIdMap] :
            /\ Numbers(to)
            /\ addr = [c \in Conns |-> IF c \in open THEN to[c] ELSE Default]
  /\ job = [c \in Conns |-> IF c \in open THEN "new" ELSE "unused"]
  /\ check = "sleep" /\ fresh = First
  /\ reloads = 0

-----------------------------------------------------------------------------
(* The configuration manager: the Post hook OnNewCfg, then switchBuffer.   *)

ReloadCfg(v) ==
  /\ posted = {} /\ v # cfg /\ reloads < MaxReloads
  /\ reloadChan = 0
  /\ reloadChan' = 1
  /\ posted' = {v}
  /\ reloads' = reloads + 1
  /\ UNCHANGED <<mu, cfg, connOK, lists, connMap, jobs, checker>>

SwitchBuffer ==
  /\ posted # {}
  /\ cfg' \in posted
  /\ posted' = {}
  /\ UNCHANGED <<mu, channels, reloads, lists, connMap, jobs, checker>>

-----------------------------------------------------------------------------
(* connJob.                                                                *)

\* A connJob returns, and the identity of its connection may be used again.
Release(c) == /\ job' = [job EXCEPT ![c] = "unused"]
              /\ addr' = [addr EXCEPT ![c] = Default]

\* The connection is registered, unless its address has been dropped.  Once
\* connOK is full it stays so, and the test of it has one outcome.
Register(c) ==
  /\ job[c] = "new" /\ mu = "free"
  /\ IF addr[c] \in svrIdMap
     THEN /\ connMap' = [connMap EXCEPT ![IdOf[addr[c]]] = c]
          /\ job' = [job EXCEPT ![c] = IF connOK = 0 THEN "test" ELSE "run"]
          /\ UNCHANGED <<open, addr>>
     ELSE /\ Release(c)
          /\ open' = open \ {c}
          /\ UNCHANGED connMap
  /\ UNCHANGED <<mu, config, channels, lists, closes, checker>>

AllConnected == Cardinality({s \in Servers : connMap[s] # NoConn}) = Len(allSvrId)

\* Without the mutex: are all servers connected, and has nobody said so?
TestsAll(c) ==
  /\ job[c] = "test"
  /\ job' = [job EXCEPT ![c] = IF AllConnected /\ connOK = 0 THEN "notify" ELSE "run"]
  /\ UNCHANGED <<mu, config, channels, lists, connMap, addr, open, closes,
                 checker>>

\* The write to connOK, which holds one value: when another connJob came first,
\* this one waits for ever.
Notify(c) ==
  /\ job[c] = "notify"
  /\ connOK = 0
  /\ connOK' = 1
  /\ job' = [job EXCEPT ![c] = "run"]
  /\ UNCHANGED <<mu, config, reloadChan, lists, connMap, addr, open, closes,
                 checker>>

\* The loop ends when the connection is closed, and the deferred call removes
\* the entry of the server, whatever it holds.
DeregisterNothing(c) ==                                           \* faulty
  /\ job[c] = "run" /\ ~Alive(c) /\ mu = "free"
  /\ Release(c)
  /\ UNCHANGED <<mu, config, channels, lists, connMap, open, closes, checker>>
Deregister(c) ==
  /\ job[c] = "run" /\ ~Alive(c) /\ mu = "free"
  /\ connMap' = [connMap EXCEPT ![IdOf[addr[c]]] = NoConn]
  /\ Release(c)
  /\ UNCHANGED <<mu, config, channels, lists, open, closes, checker>>

\* The server has sent a command: the connJob ends and closes the connection.
Refuse(c) ==
  /\ job[c] = "run" /\ Alive(c) /\ mu = "free"
  /\ closes < MaxCloses
  /\ closes' = closes + 1
  /\ connMap' = [connMap EXCEPT ![IdOf[addr[c]]] = NoConn]
  /\ open' = open \ {c}
  /\ Release(c)
  /\ UNCHANGED <<mu, config, channels, lists, checker>>

\* The server, or a failure, closes a connection.
Fail(c) ==
  /\ Alive(c)
  /\ open' = open \ {c}
  /\ closes < MaxCloses
  /\ closes' = closes + 1
  /\ UNCHANGED <<mu, config, channels, lists, connMap, job, addr, checker>>

-----------------------------------------------------------------------------
(* checkConns.                                                             *)

\* After its sleep: reload if that was asked for, then check.
Wake ==
  /\ check = "sleep"
  /\ IF reloadChan = 1
     THEN reloadChan' = 0 /\ fresh' = cfg /\ check' = "reload"
     ELSE check' = "check" /\ UNCHANGED <<reloadChan, fresh>>
  /\ UNCHANGED <<mu, config, connOK, lists, connMap, jobs>>

\* reloadCfg; ClientSend models what it does to the route table before.
\* What Close starts is taken as done (NetConn shows that it completes).
Reloads(addrs) ==
  LET gone == {IdOf[a] : a \in svrIdMap \ AddrsOf(fresh)} IN
  /\ check = "reload" /\ mu = "free"
  /\ open' = open \ {connMap[s] : s \in gone}
  /\ connMap' = [s \in Servers |-> IF s \in gone THEN NoConn ELSE connMap[s]]
  /\ allSvrId' = ServersOf[fresh] /\ svrIdMap' = addrs
  /\ check' = "check"
  /\ UNCHANGED <<mu, config, channels, job, addr, closes, fresh>>
Reload == Reloads(AddrsOf(fresh))

\* Each missing or closed connection is dialled, with mu held; a call of DialTCP
\* may fail.  The loop is one step: whatever else needs mu waits for its end.
Dials(missing) ==
  /\ check = "check" /\ mu = "free"
  /\ check' = "sleep"
  /\ connMap' = [s \in Servers |-> IF \E a \in missing : IdOf[a] = s
                                   THEN NoConn ELSE connMap[s]]
  /\ \E failed \in SUBSET missing : \E conns \in SUBSET Unused :
       /\ closes + Cardinality(failed) <= MaxCloses
       /\ closes' = closes + Cardinality(failed)
       /\ Cardinality(conns) = Cardinality(missing \ failed)
       /\ \E to \in [conns -> missing \ failed] : Numbers(to) /\ Dialled(to)
  /\ UNCHANGED <<mu, config, channels, lists, fresh>>
DialClosed == Dials({a \in svrIdMap : /\ connMap[IdOf[a]] # NoConn    \* faulty
                                      /\ ~Alive(connMap[IdOf[a]])})
DialMissing == Dials({a \in svrIdMap : \/ connMap[IdOf[a]] = NoConn
                                       \/ ~Alive(connMap[IdOf[a]])})

-----------------------------------------------------------------------------
(* SendMsg: a broadcast holds mu while it waits for room in the pipes, and *)
(* after a panic nobody gives it back.                                     *)

SenderLocks ==
  /\ mu = "free" /\ mu' = "held"
  /\ UNCHANGED <<config, channels, lists, connMap, jobs, checker>>
SenderUnlocks ==
  /\ mu = "held" /\ mu' = "free"
  /\ UNCHANGED <<config, channels, lists, connMap, jobs, checker>>

-----------------------------------------------------------------------------
Job(c) == Register(c) \/ TestsAll(c) \/ Notify(c) \/ Deregister(c)
CheckConns == Wake \/ Reload \/ DialMissing

Next == \/ \E v \in Configs : ReloadCfg(v)
        \/ SwitchBuffer
        \/ \E c \in Conns : Job(c) \/ Refuse(c) \/ Fail(c)
        \/ CheckConns
        \/ SenderLocks \/ SenderUnlocks

Spec == Init /\ [][Next]_vars

\* checkConns runs, and of the connJobs at least one, and who waits for mu is given it
\* if it is free again and again.  A sender need not give it back.
Fairness ==
  /\ WF_vars(SwitchBuffer)
  /\ SF_vars(CheckConns) /\ SF_vars(\E c \in Conns : Job(c))

FairSpec == Spec /\ Fairness

-----------------------------------------------------------------------------
(* Properties.                                                             *)

\* SendMsg and GetConn are never given a connection whose connJob has ended, or
\* one to another server, although entries are removed by server.
NoDeadEntry ==
  \A s \in Servers : connMap[s] # NoConn =>
    /\ job[connMap[s]] \in Joined
    /\ IdOf[addr[connMap[s]]] = s

\* Once connections stop failing, and unless a sender keeps mu for ever, every server
\* of the list has an open connection whose connJob runs, or waits for ever to
\* write to connOK, and the list stays.
Connected(s) == /\ connMap[s] # NoConn
                /\ Alive(connMap[s])
                /\ job[connMap[s]] \in {"notify", "run"}
Reconnects ==
  []<>(mu = "free") => <>[](\A a \in svrIdMap : Connected(IdOf[a]))
=============================================================================
