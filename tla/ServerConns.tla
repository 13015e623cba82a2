---------------------------- MODULE ServerConns ----------------------------
(***************************************************************************)
(* The connections a server accepts (component/net/server/server.go) and   *)
(* the connection manager that finds them by id for the answers            *)
(* (framework/base/connmng.go).                                            *)
(*                                                                         *)
(* The goroutine connJob of a connection waits for its registration,       *)
(* announces it to the manager and then registers the callback that        *)
(* reports its end.  The goroutine Listen of the manager takes both from   *)
(* channels.  Of the connection itself (NetConn) is kept that it is closed *)
(* by whoever closes first, who then calls the callback, if there is one,  *)
(* once.                                                                   *)
(*                                                                         *)
(* A gateway gives each connection an id of its own; at other servers the  *)
(* id is that of the service that registers, again when it reconnects.     *)
(***************************************************************************)
EXTENDS Naturals, SequencesExt

CONSTANTS
  Conns,      \* the connections the server accepts
  Ids,
  IdOf,       \* the id each connection gets
  DisconnCap  \* capacity of disConnChan

ASSUME ServerAssumption ==
  /\ IdOf \in [Conns -> Ids]
  /\ DisconnCap \in Nat \ {0}

NoConn == "none"
ASSUME NoConnAssumption == NoConn \notin Conns

VARIABLES
  job,          \* control of connJob of each connection
  sock,         \* "open", "closed", or "done" once closeNow has returned
  registered,   \* connections with a callback
  listen,       \* control of Listen: its statement and connection
  disConnChan,
  conns,
  \* what has been observed
  entered,      \* connections that have been in conns
  missed,       \* connections closed without a callback
  told          \* how often OnNetDisconn has been called for each connection

vars == <<job, sock, registered, listen, disConnChan, conns, entered, missed,
          told>>
manager == <<listen, conns, entered, told>>

Selecting == [at |-> "select", conn |-> NoConn]

TypeOK ==
  /\ job \in [Conns -> {"none", "reg", "announce", "register", "loop", "end"}]
  /\ sock \in [Conns -> {"open", "closed", "done"}]
  /\ registered \subseteq Conns
  /\ listen \in {Selecting} \cup
       [at : {"enter", "leave", "notify"}, conn : Conns]
  /\ disConnChan \in Seq(Conns) /\ Len(disConnChan) <= DisconnCap
  /\ conns \in [Ids -> Conns \cup {NoConn}]
  /\ entered \subseteq Conns /\ missed \subseteq Conns
  /\ told \in [Conns -> Nat]

Init ==
  /\ job = [c \in Conns |-> "none"]
  /\ sock = [c \in Conns |-> "open"]
  /\ registered = {}
  /\ listen = Selecting
  /\ disConnChan = <<>>
  /\ conns = [i \in Ids |-> NoConn]
  /\ entered = {} /\ missed = {} 
  /\ told = [c \in Conns |-> 0]

-----------------------------------------------------------------------------
(* connJob.                                                                *)

Goes(c, from, to) == job[c] = from /\ job' = [job EXCEPT ![c] = to]

Accept(c) ==
  /\ Goes(c, "none", "reg")
  /\ UNCHANGED <<sock, registered, disConnChan, missed, manager>>

\* The registration comes in time and is valid, or not.
Registered(c, callbacks) ==
  /\ \E to \in {"announce", "end"} : Goes(c, "reg", to)
  /\ registered' = registered \cup callbacks
  /\ UNCHANGED <<sock, disConnChan, missed, manager>>
RegWithCallback(c) == Registered(c, {c})                           \* faulty
Reg(c) == Registered(c, {})

\* newConnChan has no buffer: Listen receives the connection in the same step.
Announce(c) ==
  /\ Goes(c, "announce", "register")
  /\ listen = Selecting
  /\ listen' = [at |-> "enter", conn |-> c]
  /\ UNCHANGED <<sock, registered, disConnChan, missed, conns, entered, told>>

RegisterCallback(c) ==
  /\ Goes(c, "register", "loop")
  /\ registered' = registered \cup {c}
  /\ UNCHANGED <<sock, disConnChan, missed, manager>>

\* The loop ends when the connection is closed, or it is idle for too long or a
\* message is not valid.
LoopEnds(c) ==
  /\ Goes(c, "loop", "end")
  /\ UNCHANGED <<sock, registered, disConnChan, missed, manager>>
Break(c) == sock[c] = "open" /\ LoopEnds(c)
IsClosed(c) == sock[c] # "open" /\ LoopEnds(c)

-----------------------------------------------------------------------------
(* The connection.                                                         *)

\* The other end, a failure, Stop, or connJob at its end.
Close(c) ==
  /\ job[c] # "none" /\ sock[c] = "open"
  /\ sock' = [sock EXCEPT ![c] = "closed"]
  /\ UNCHANGED <<job, registered, disConnChan, missed, manager>>
CloseAtEnd(c) == job[c] = "end" /\ Close(c)

\* The callback waits for room in disConnChan.
HasRoom == Len(disConnChan) < DisconnCap
Reports(c, ready, chan) ==
  /\ sock[c] = "closed"
  /\ sock' = [sock EXCEPT ![c] = "done"]
  /\ IF c \in registered
     THEN ready /\ disConnChan' = chan /\ UNCHANGED missed
     ELSE missed' = missed \cup {c} /\ UNCHANGED disConnChan
  /\ UNCHANGED <<job, registered, manager>>
ReportOrDrop(c) == Reports(c, TRUE, IF HasRoom                     \* faulty
                                    THEN Append(disConnChan, c)
                                    ELSE disConnChan)
Report(c) == Reports(c, HasRoom, Append(disConnChan, c))

-----------------------------------------------------------------------------
(* Listen.                                                                 *)

Enter ==
  /\ listen.at = "enter"
  /\ conns' = [conns EXCEPT ![IdOf[listen.conn]] = listen.conn]
  /\ entered' = entered \cup {listen.conn}
  /\ listen' = Selecting
  /\ UNCHANGED <<job, sock, registered, disConnChan, missed, told>>

ReceiveDisconn ==
  /\ listen = Selecting /\ disConnChan # <<>>
  /\ listen' = [at |-> "leave", conn |-> Head(disConnChan)]
  /\ disConnChan' = Tail(disConnChan)
  /\ UNCHANGED <<job, sock, registered, missed, conns, entered, told>>

\* The entry of the id is deleted, whatever connection it holds.
Leaves(kept) ==
  /\ listen.at = "leave"
  /\ conns' = [i \in Ids |-> IF i \in kept THEN conns[i] ELSE NoConn]
  /\ listen' = [listen EXCEPT !.at = "notify"]
  /\ UNCHANGED <<job, sock, registered, disConnChan, missed, entered, told>>
LeaveAll == Leaves({})                                             \* faulty
Leave == Leaves(Ids \ {IdOf[listen.conn]})

Notify ==
  /\ listen.at = "notify"
  /\ told' = [told EXCEPT ![listen.conn] = @ + 1]
  /\ listen' = Selecting
  /\ UNCHANGED <<job, sock, registered, disConnChan, missed, conns, entered>>

-----------------------------------------------------------------------------
ConnJob(c) == \/ Accept(c) \/ Reg(c) \/ Announce(c) \/ RegisterCallback(c)
              \/ Break(c) \/ IsClosed(c)
Listen == Enter \/ ReceiveDisconn \/ Leave \/ Notify

Next == \/ \E c \in Conns : ConnJob(c) \/ Close(c) \/ Report(c)
        \/ Listen

Spec == Init /\ [][Next]_vars

\* Goroutines run.  Listen serves both of its channels (select chooses at
\* random), so a connection is not refused for ever.
Fairness ==
  /\ WF_vars(Enter) /\ WF_vars(Leave) /\ WF_vars(Notify)
  /\ SF_vars(ReceiveDisconn)
  /\ \A c \in Conns :
       /\ WF_vars(Reg(c)) /\ SF_vars(Announce(c)) /\ WF_vars(RegisterCallback(c))
       /\ WF_vars(IsClosed(c)) /\ WF_vars(CloseAtEnd(c)) /\ WF_vars(Report(c))

FairSpec == Spec /\ Fairness

-----------------------------------------------------------------------------
(* Properties.                                                             *)

\* The service is told of the end of a connection once, when it is closed and
\* was known to the manager; a connection that it has been told of is not, and
\* will never again be, what its id leads to.
ToldAfterLife ==
  \A c \in Conns : told[c] > 0 => /\ told[c] = 1
                                 /\ sock[c] = "done"
                                 /\ c \in entered
                                 /\ conns[IdOf[c]] # c
                                 /\ job[c] # "announce" /\ listen.conn # c

\* An open connection that the manager has entered is what its id leads to,
\* unless another connection has come with that id.
OpenIsFound ==
  \A c \in entered : sock[c] = "open" =>
    \/ conns[IdOf[c]] = c
    \/ \E d \in entered \ {c} : IdOf[d] = IdOf[c]

\* The goroutine of a closed connection ends, and a connection whose end is
\* reported is forgotten, and the service is told.  (One that is closed before
\* connJob has registered the callback stays in conns for ever.)
ClosedIsForgotten ==
  \A c \in Conns :
    /\ sock[c] # "open" ~> job[c] = "end"
    /\ sock[c] = "closed" ~> \/ c \in missed
                             \/ told[c] > 0 /\ conns[IdOf[c]] # c
=============================================================================
