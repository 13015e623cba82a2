-------------------------- MODULE BaseServiceProof --------------------------
(***************************************************************************)
(* Proofs about two parts of a service: the connections of its server      *)
(* (ServerConns) and the goroutines that run its tasks (RoutinePool).      *)
(***************************************************************************)
EXTENDS ServerConns, RoutinePool, FiniteSetTheorems, SequenceTheorems, TLAPS

(***************************************************************************)
(* The inductive invariant.  A connection passes through job, entered, the *)
(* queue disConnChan, listen and told in this order, once.                 *)
(***************************************************************************)
Announced(c) == job[c] \in {"register", "loop", "end"}
InChan(c) == \E k \in DOMAIN disConnChan : disConnChan[k] = c
Leaving(c) == listen.at \in {"leave", "notify"} /\ listen.conn = c
Reported(c) == InChan(c) \/ Leaving(c) \/ told[c] > 0

\* What is reported was registered before, and is closed.
ReportedLater ==
  \A c \in Conns :
    /\ c \in registered => Announced(c)
    /\ Reported(c) => c \in registered /\ sock[c] = "done"

\* A connection is on its way to the manager, or the manager has entered it;
\* a registered one is never on its way, except in Listen.
EnteredLater ==
  \A c \in Conns :
    /\ c \in entered => Announced(c)
    /\ listen.at = "enter" /\ listen.conn = c => Announced(c) /\ c \notin entered
    /\ job[c] = "register" \/ c \in registered =>
         c \in entered \/ (listen.at = "enter" /\ listen.conn = c)
    /\ Leaving(c) \/ told[c] > 0 => c \in entered

\* The report of a connection is in one place.
ReportedOnce ==
  /\ \A j, k \in DOMAIN disConnChan : disConnChan[j] = disConnChan[k] => j = k
  /\ \A c \in Conns : /\ Leaving(c) => ~InChan(c) /\ told[c] = 0
                      /\ told[c] > 0 => ~InChan(c) /\ told[c] = 1

\* conns leads from an id to connections that have it and have been entered, and
\* forgets them before the service is told.
EntriesLive ==
  /\ \A i \in Ids : conns[i] # NoConn => IdOf[conns[i]] = i /\ conns[i] \in entered
  /\ \A c \in Conns :
       told[c] > 0 \/ (listen.at = "notify" /\ listen.conn = c)
         => conns[IdOf[c]] # c

Inductive == ReportedLater /\ EnteredLater /\ ReportedOnce /\ EntriesLive

(***************************************************************************)
(* Type correctness.                                                       *)
(***************************************************************************)

\* The first states.
LEMMA TypeInit == Init => TypeOK
BY ServerAssumption DEF Init, TypeOK, Selecting

\* Steps of a connection and of its goroutine keep the types.
LEMMA TypeConn ==
  ASSUME TypeOK, NEW c \in Conns, ConnJob(c) \/ Close(c) \/ Report(c)
  PROVE  TypeOK'
<1> USE ServerAssumption DEF TypeOK, manager
<1>1. CASE Accept(c)
  BY <1>1 DEF Accept, Goes
<1>2. CASE Reg(c)
  BY <1>2 DEF Reg, Registered, Goes
<1>3. CASE Announce(c)
  BY <1>3 DEF Announce, Goes, Selecting
<1>4. CASE RegisterCallback(c)
  BY <1>4 DEF RegisterCallback, Goes
<1>5. CASE Break(c) \/ IsClosed(c)
  BY <1>5 DEF Break, IsClosed, LoopEnds, Goes
<1>6. CASE Close(c)
  BY <1>6 DEF Close
<1>7. CASE Report(c)
  <2>1. Append(disConnChan, c) \in Seq(Conns)
        /\ Len(Append(disConnChan, c)) = Len(disConnChan) + 1
    OBVIOUS
  <2>2. \/ UNCHANGED disConnChan
        \/ HasRoom /\ disConnChan' = Append(disConnChan, c)
    BY <1>7 DEF Report, Reports
  <2>3. missed' \subseteq Conns
    BY <1>7 DEF Report, Reports
  <2>4. CASE UNCHANGED disConnChan
    BY <1>7, <2>3, <2>4 DEF Report, Reports
  <2>5. CASE HasRoom /\ disConnChan' = Append(disConnChan, c)
    <3>1. disConnChan' \in Seq(Conns)
      BY <2>1, <2>5
    <3>2. Len(disConnChan') <= DisconnCap
      BY <2>1, <2>5 DEF HasRoom
    <3>3. QED
      BY <1>7, <2>3, <3>1, <3>2 DEF Report, Reports
  <2>6. QED
    BY <2>2, <2>4, <2>5
<1>8. QED
  BY <1>1, <1>2, <1>3, <1>4, <1>5, <1>6, <1>7 DEF ConnJob

\* Steps of Listen keep the types.
LEMMA TypeListen == TypeOK /\ Listen => TypeOK'
<1> SUFFICES ASSUME TypeOK, Listen PROVE TypeOK'
  OBVIOUS
<1> USE ServerAssumption DEF TypeOK, Selecting
<1>1. CASE Enter
  BY <1>1 DEF Enter
<1>2. CASE ReceiveDisconn
  <2>1. disConnChan # <<>> /\ disConnChan' = Tail(disConnChan)
    BY <1>2 DEF ReceiveDisconn
  <2>2. /\ Head(disConnChan) \in Conns
        /\ disConnChan' \in Seq(Conns)
        /\ Len(disConnChan') <= DisconnCap
    BY <2>1
  <2>3. QED
    BY <1>2, <2>2 DEF ReceiveDisconn
<1>3. CASE Leave
  <2>1. /\ listen.at = "leave" /\ listen.conn \in Conns
        /\ listen' = [at |-> "notify", conn |-> listen.conn]
    BY <1>3 DEF Leave, Leaves
  <2>2. conns' \in [Ids -> Conns \cup {NoConn}]
    BY <1>3 DEF Leave, Leaves
  <2>3. QED
    BY <1>3, <2>1, <2>2 DEF Leave, Leaves
<1>4. CASE Notify
  BY <1>4 DEF Notify
<1>5. QED
  BY <1>1, <1>2, <1>3, <1>4 DEF Listen

\* Every step keeps the types.
LEMMA TypeStep == TypeOK /\ [Next]_vars => TypeOK'
BY TypeConn, TypeListen DEF Next, vars, TypeOK

(***************************************************************************)
(* The invariant is inductive.                                             *)
(***************************************************************************)

\* In the first states nothing has been announced.
LEMMA InductiveInit == Init => Inductive
BY NoConnAssumption
   DEF Init, Inductive, ReportedLater, EnteredLater, ReportedOnce, EntriesLive,
       Announced, InChan, Leaving, Reported, Selecting

\* What connJob does alone, and a close, concern neither channel nor manager.
LEMMA OwnSteps ==
  ASSUME TypeOK, Inductive, NEW c \in Conns,
         Accept(c) \/ Reg(c) \/ RegisterCallback(c) \/ Break(c) \/ IsClosed(c)
           \/ Close(c)
  PROVE  Inductive'
<1> USE DEF TypeOK, Inductive, manager
<1>1. /\ UNCHANGED <<disConnChan, listen, conns, entered, told>>
      /\ \A d \in Conns : Announced(d) => Announced(d)'
      /\ \A d \in Conns : sock[d] = "done" => sock'[d] = "done"
      /\ \A d \in Conns : d \in registered' =>
           d \in registered \/ (job[d] = "register" /\ job'[d] = "loop")
      /\ \A d \in Conns : job'[d] = "register" => job[d] = "register"
      /\ registered \subseteq registered'
  BY DEF Accept, Reg, Registered, RegisterCallback, Break, IsClosed, LoopEnds,
         Close, Goes, Announced
<1>2. ReportedLater'
  BY <1>1 DEF ReportedLater, Announced, Reported, InChan, Leaving
<1>3. EnteredLater'
  BY <1>1 DEF EnteredLater, Announced, Leaving
<1>4. ReportedOnce' /\ EntriesLive'
  BY <1>1 DEF ReportedOnce, EntriesLive, InChan, Leaving
<1>5. QED
  BY <1>2, <1>3, <1>4

\* A connection that is announced has not been entered.
LEMMA AnnounceKeeps ==
  ASSUME TypeOK, Inductive, NEW c \in Conns, Announce(c)
  PROVE  Inductive'
BY DEF Announce, Goes, Selecting, TypeOK, Inductive, ReportedLater, EnteredLater,
       ReportedOnce, EntriesLive, Announced, InChan, Leaving, Reported

\* A connection that is reported has not been reported before.
LEMMA ReportKeeps ==
  ASSUME TypeOK, Inductive, NEW c \in Conns, Report(c)
  PROVE  Inductive'
<1> USE DEF TypeOK, Inductive, manager
<1>1. /\ sock[c] = "closed" /\ sock' = [sock EXCEPT ![c] = "done"]
      /\ UNCHANGED <<job, registered, listen, conns, entered, told>>
      /\ ~Reported(c)
  BY DEF Report, Reports, ReportedLater
<1>2. CASE c \notin registered
  BY <1>1, <1>2 DEF Report, Reports, ReportedLater, EnteredLater, ReportedOnce,
                    EntriesLive, Announced, InChan, Leaving, Reported
<1>3. CASE c \in registered
  <2>1. disConnChan' = Append(disConnChan, c)
    BY <1>3 DEF Report, Reports
  <2>2. \A d \in Conns : InChan(d)' <=> InChan(d) \/ d = c
    <3>1. /\ DOMAIN disConnChan' = DOMAIN disConnChan \cup {Len(disConnChan) + 1}
          /\ disConnChan'[Len(disConnChan) + 1] = c
          /\ \A k \in DOMAIN disConnChan : disConnChan'[k] = disConnChan[k]
      BY <2>1
    <3>2. QED
      BY <3>1 DEF InChan
  <2>3. ReportedLater'
    BY <1>1, <1>3, <2>2 DEF ReportedLater, Reported, Leaving, Announced
  <2>4. EnteredLater'
    BY <1>1 DEF EnteredLater, Announced, Leaving
  <2>5. \A k \in DOMAIN disConnChan : disConnChan[k] # c
    BY <1>1 DEF Reported, InChan
  <2>6. ReportedOnce'
    <3>1. \A j, k \in DOMAIN disConnChan' :
             disConnChan'[j] = disConnChan'[k] => j = k
      BY <2>1, <2>5 DEF ReportedOnce
    <3>2. QED
      BY <1>1, <2>2, <3>1 DEF ReportedOnce, Leaving, Reported
  <2>7. EntriesLive'
    BY <1>1 DEF EntriesLive
  <2>8. QED
    BY <2>3, <2>4, <2>6, <2>7
<1>4. QED
  BY <1>2, <1>3

\* A connection that is entered has not been reported, or not been received yet.
LEMMA EnterKeeps == TypeOK /\ Inductive /\ Enter => Inductive'
<1> SUFFICES ASSUME TypeOK, Inductive, Enter PROVE Inductive'
  OBVIOUS
<1> USE DEF TypeOK, Inductive, Selecting
<1> DEFINE c == listen.conn
<1>1. /\ listen.at = "enter" /\ c \in Conns
      /\ conns' = [conns EXCEPT ![IdOf[c]] = c]
      /\ entered' = entered \cup {c}
      /\ listen' = [at |-> "select", conn |-> NoConn]
      /\ UNCHANGED <<job, sock, registered, disConnChan, told>>
  BY DEF Enter
<1>2. Announced(c) /\ c \notin entered /\ told[c] = 0
  BY <1>1 DEF EnteredLater
<1>3. ReportedLater'
  BY <1>1 DEF ReportedLater, Announced, Reported, InChan, Leaving
<1>4. EnteredLater'
  BY <1>1, <1>2 DEF EnteredLater, Announced, Leaving
<1>5. ReportedOnce'
  BY <1>1 DEF ReportedOnce, InChan, Leaving
<1>6. EntriesLive'
  BY <1>1, <1>2, ServerAssumption DEF EntriesLive
<1>7. QED
  BY <1>3, <1>4, <1>5, <1>6

\* The first report of the queue is the only one of its connection.
LEMMA ReceiveKeeps == TypeOK /\ Inductive /\ ReceiveDisconn => Inductive'
<1> SUFFICES ASSUME TypeOK, Inductive, ReceiveDisconn PROVE Inductive'
  OBVIOUS
<1> USE DEF TypeOK, Inductive, Selecting
<1>0. PICK c \in Conns : disConnChan # <<>> /\ c = disConnChan[1]
  BY DEF ReceiveDisconn
<1>1. /\ listen = [at |-> "select", conn |-> NoConn]
      /\ listen' = [at |-> "leave", conn |-> c]
      /\ disConnChan' = Tail(disConnChan)
      /\ UNCHANGED <<job, sock, registered, conns, entered, told>>
  BY <1>0 DEF ReceiveDisconn
<1>2. 1 \in DOMAIN disConnChan /\ InChan(c)
  BY <1>0 DEF InChan
<1>3. \A k \in DOMAIN disConnChan' :
        /\ k \in Nat /\ k >= 1 /\ k + 1 \in DOMAIN disConnChan
        /\ disConnChan'[k] = disConnChan[k + 1]
  BY <1>0, <1>1
<1>4. ~InChan(c)'
  <2>1. ASSUME NEW k \in DOMAIN disConnChan', disConnChan'[k] = c PROVE FALSE
    <3>1. k + 1 \in DOMAIN disConnChan /\ disConnChan[k + 1] = disConnChan[1]
      BY <1>0, <1>3, <2>1
    <3>2. k + 1 = 1
      BY <1>2, <3>1 DEF ReportedOnce
    <3>3. QED
      BY <1>3, <3>2
  <2>2. QED
    BY <2>1 DEF InChan
<1>5. \A d \in Conns : InChan(d)' => InChan(d)
  BY <1>3 DEF InChan
<1>6. \A d \in Conns : Reported(d)' => Reported(d)
  BY <1>1, <1>2, <1>5 DEF Reported, Leaving
<1>7. ReportedLater'
  BY <1>1, <1>6 DEF ReportedLater, Announced
<1>8. EnteredLater'
  BY <1>1, <1>2 DEF EnteredLater, ReportedLater, Reported, Announced, Leaving
<1>9. \A j, k \in DOMAIN disConnChan' : disConnChan'[j] = disConnChan'[k] => j = k
  BY <1>3 DEF ReportedOnce
<1>10. told[c] = 0
  BY <1>2 DEF ReportedOnce
<1>11. ReportedOnce'
  <2>1. \A d \in Conns : Leaving(d)' => d = c
    BY <1>1 DEF Leaving
  <2>2. QED
    BY <1>1, <1>4, <1>5, <1>9, <1>10, <2>1 DEF ReportedOnce
<1>12. EntriesLive'
  BY <1>1 DEF EntriesLive
<1>13. QED
  BY <1>7, <1>8, <1>11, <1>12

\* The entry of the id is deleted: whatever it was, it does not lead to the
\* connection that leaves.
LEMMA LeaveKeeps == TypeOK /\ Inductive /\ Leave => Inductive'
<1> SUFFICES ASSUME TypeOK, Inductive, Leave PROVE Inductive'
  OBVIOUS
<1> USE DEF TypeOK, Inductive, Selecting
<1> DEFINE c == listen.conn
<1>1. /\ listen.at = "leave" /\ c \in Conns
      /\ listen' = [at |-> "notify", conn |-> c]
      /\ \A i \in Ids : conns'[i] = IF i = IdOf[c] THEN NoConn ELSE conns[i]
      /\ UNCHANGED <<job, sock, registered, disConnChan, entered, told>>
  BY DEF Leave, Leaves
<1>2. \A d \in Conns : Leaving(d)' <=> Leaving(d)
  BY <1>1 DEF Leaving
<1>3. ReportedLater'
  BY <1>1, <1>2 DEF ReportedLater, Announced, Reported, InChan
<1>4. EnteredLater'
  BY <1>1, <1>2 DEF EnteredLater, Announced
<1>5. ReportedOnce'
  BY <1>1, <1>2 DEF ReportedOnce, InChan
<1>6. EntriesLive'
  BY <1>1, ServerAssumption, NoConnAssumption DEF EntriesLive
<1>7. QED
  BY <1>3, <1>4, <1>5, <1>6

\* The service is told of a connection it has not been told of.
LEMMA NotifyKeeps == TypeOK /\ Inductive /\ Notify => Inductive'
<1> SUFFICES ASSUME TypeOK, Inductive, Notify PROVE Inductive'
  OBVIOUS
<1> USE DEF TypeOK, Inductive, Selecting
<1> DEFINE c == listen.conn
<1>1. /\ listen.at = "notify" /\ c \in Conns
      /\ told' = [told EXCEPT ![c] = @ + 1]
      /\ listen' = [at |-> "select", conn |-> NoConn]
      /\ UNCHANGED <<job, sock, registered, disConnChan, conns, entered>>
  BY DEF Notify
<1>2. Leaving(c) /\ told[c] = 0
  BY <1>1 DEF Leaving, ReportedOnce
<1>3. ReportedLater'
  BY <1>1, <1>2 DEF ReportedLater, Announced, Reported, InChan, Leaving
<1>4. EnteredLater'
  BY <1>1, <1>2 DEF EnteredLater, Announced, Leaving
<1>5. ReportedOnce'
  BY <1>1, <1>2 DEF ReportedOnce, InChan, Leaving
<1>6. EntriesLive'
  BY <1>1, <1>2 DEF EntriesLive
<1>7. QED
  BY <1>3, <1>4, <1>5, <1>6

\* Every step keeps the invariant.
LEMMA InductiveStep == TypeOK /\ Inductive /\ [Next]_vars => Inductive'
<1> SUFFICES ASSUME TypeOK, Inductive, [Next]_vars PROVE Inductive'
  OBVIOUS
<1>1. CASE UNCHANGED vars
  BY <1>1 DEF vars, Inductive, ReportedLater, EnteredLater, ReportedOnce,
              EntriesLive, Announced, InChan, Leaving, Reported
<1>2. QED
  BY <1>1, OwnSteps, AnnounceKeeps, ReportKeeps, EnterKeeps, ReceiveKeeps,
     LeaveKeeps, NotifyKeeps DEF Next, ConnJob, Listen

\* The types and the invariant hold in every reachable state.
LEMMA AlwaysInductive == Spec => [](TypeOK /\ Inductive)
<1>1. TypeOK /\ Inductive /\ [Next]_vars => (TypeOK /\ Inductive)'
  BY TypeStep, InductiveStep
<1>2. QED
  BY TypeInit, InductiveInit, <1>1, PTL DEF Spec

(***************************************************************************)
(* The theorems.                                                           *)
(***************************************************************************)

\* Every reachable state is well typed; disConnChan never holds more than it can.
THEOREM TypeCorrect == Spec => []TypeOK
BY AlwaysInductive, PTL

\* The service is told of the end of a connection once, after the fact, and the
\* id leads to the connection never again.
THEOREM ToldAfterLifeCorrect == Spec => []ToldAfterLife
<1>1. TypeOK /\ Inductive => ToldAfterLife
  <2>1. SUFFICES ASSUME TypeOK, Inductive, NEW c \in Conns, told[c] > 0
                 PROVE  /\ told[c] = 1
                        /\ sock[c] = "done"
                        /\ c \in entered
                        /\ conns[IdOf[c]] # c
                        /\ job[c] # "announce" /\ listen.conn # c
    BY DEF ToldAfterLife
  <2> USE <2>1 DEF Inductive
  <2>2. c \in entered /\ Announced(c) /\ ~Leaving(c)
    BY DEF EnteredLater, ReportedOnce
  <2>3. listen.conn # c
    BY <2>2, NoConnAssumption DEF TypeOK, Selecting, EnteredLater, Leaving
  <2>4. QED
    BY <2>2, <2>3 DEF ReportedOnce, ReportedLater, Reported, EntriesLive, Announced
<1>2. QED
  BY AlwaysInductive, <1>1, PTL

\* An open connection that has been entered is what its id leads to, unless
\* another connection has been entered with that id.
THEOREM OpenIsFoundCorrect == Spec => []OpenIsFound
<1>1. Init => OpenIsFound
  BY DEF Init, OpenIsFound
<1>2. TypeOK /\ Inductive /\ OpenIsFound /\ [Next]_vars => OpenIsFound'
  <2> SUFFICES ASSUME TypeOK, Inductive, OpenIsFound, [Next]_vars,
                      NEW c \in entered', sock'[c] = "open"
               PROVE  \/ conns'[IdOf[c]] = c
                      \/ \E d \in entered' \ {c} : IdOf[d] = IdOf[c]
    BY DEF OpenIsFound
  <2> USE DEF TypeOK
  <2>1. ASSUME NEW b \in Conns, ConnJob(b) \/ Close(b) \/ Report(b)
        PROVE  UNCHANGED <<conns, entered>> /\ sock[c] = "open"
    BY <2>1 DEF ConnJob, Accept, Reg, Registered, Announce, RegisterCallback,
                Break, IsClosed, LoopEnds, Close, Report, Reports, Goes, manager
  <2>2. ASSUME ReceiveDisconn \/ Notify \/ UNCHANGED vars
        PROVE  UNCHANGED <<conns, entered>> /\ sock[c] = "open"
    BY <2>2 DEF ReceiveDisconn, Notify, vars
  <2>3. CASE UNCHANGED <<conns, entered>> /\ sock[c] = "open"
    BY <2>3 DEF OpenIsFound
  <2>4. CASE Enter
    <3>1. /\ listen.conn \in Conns
          /\ conns' = [conns EXCEPT ![IdOf[listen.conn]] = listen.conn]
          /\ entered' = entered \cup {listen.conn}
          /\ sock' = sock
      BY <2>4 DEF Enter, Selecting
    <3>2. CASE c = listen.conn
      BY <3>1, <3>2, ServerAssumption
    <3>3. CASE c # listen.conn
      BY <3>1, <3>3, ServerAssumption DEF OpenIsFound
    <3>4. QED
      BY <3>2, <3>3
  <2>5. CASE Leave
    <3>1. /\ Leaving(listen.conn) /\ listen.conn \in Conns
          /\ \A i \in Ids : i # IdOf[listen.conn] => conns'[i] = conns[i]
          /\ UNCHANGED <<entered, sock>>
      BY <2>5 DEF Leave, Leaves, Leaving, Selecting
    <3>2. listen.conn \in entered /\ listen.conn # c
      BY <3>1 DEF Inductive, EnteredLater, ReportedLater, Reported
    <3>3. QED
      BY <3>1, <3>2, ServerAssumption DEF OpenIsFound
  <2>6. QED
    BY <2>1, <2>2, <2>3, <2>4, <2>5 DEF Next, Listen
<1>3. QED
  BY AlwaysInductive, <1>1, <1>2, PTL DEF Spec

-----------------------------------------------------------------------------
(***************************************************************************)
(* The inductive invariant: a routine in the queue receives, and is in it  *)
(* once; one that a call has taken receives, is not in the queue, and no   *)
(* other call has taken it.                                                *)
(***************************************************************************)
InQueue == \A i \in DOMAIN idleTaskChan :
             /\ at[idleTaskChan[i]] = "receive"
             /\ \A j \in DOMAIN idleTaskChan :
                  idleTaskChan[i] = idleTaskChan[j] => i = j

InHands == \A c \in Calls : call[c] = "send" =>
             /\ taskChan[c] \in Routines
             /\ at[taskChan[c]] = "receive"
             /\ \A i \in DOMAIN idleTaskChan : idleTaskChan[i] # taskChan[c]
             /\ \A d \in Calls : Holds(d, taskChan[c]) => d = c

PoolInductive == InQueue /\ InHands /\ RunsOnce

(***************************************************************************)
(* Type correctness.                                                       *)
(***************************************************************************)

\* The first states.
LEMMA PoolTypeInit == PoolInit => PoolTypeOK
BY DEF PoolInit, PoolTypeOK

\* A step of a routine or of a call keeps the types.
LEMMA PoolTypeStep == PoolTypeOK /\ InHands /\ [PoolNext]_poolVars => PoolTypeOK'
<1> SUFFICES ASSUME PoolTypeOK, InHands, [PoolNext]_poolVars PROVE PoolTypeOK'
  OBVIOUS
<1> USE DEF PoolTypeOK
<1>1. ASSUME NEW r \in Routines, Routine(r) PROVE PoolTypeOK'
  <2>1. CASE Offer(r)
    <3>1. idleTaskChan' \in Seq(Routines)
      BY <2>1 DEF Offer, Offers
    <3>2. QED
      BY <2>1, <3>1 DEF Offer, Offers
  <2>2. CASE Finish(r)
    BY <2>2 DEF Finish
  <2>3. QED
    BY <1>1, <2>1, <2>2 DEF Routine
<1>2. ASSUME NEW c \in Calls, Begin(c) \/ TimeOut(c) PROVE PoolTypeOK'
  BY <1>2 DEF Begin, TimeOut, TimesOut
<1>3. ASSUME NEW c \in Calls, TakeIdle(c) PROVE PoolTypeOK'
  BY <1>3 DEF TakeIdle, TakesIdle
<1>4. ASSUME NEW c \in Calls, HandOver(c) PROVE PoolTypeOK'
  BY <1>4 DEF HandOver, InHands
<1>5. CASE UNCHANGED poolVars
  BY <1>5 DEF poolVars
<1>6. QED
  BY <1>1, <1>2, <1>3, <1>4, <1>5 DEF PoolNext, DispatchTask

(***************************************************************************)
(* The invariant is inductive.                                             *)
(***************************************************************************)

\* In the first states all routines offer themselves and no call has begun.
LEMMA PoolInductiveInit == PoolInit => PoolInductive
BY DEF PoolInit, PoolInductive, InQueue, InHands, RunsOnce

\* A routine that offers itself was neither in the queue nor taken.
LEMMA OfferKeeps ==
  ASSUME PoolTypeOK, PoolInductive, NEW r \in Routines, Offer(r)
  PROVE  PoolInductive'
<1> USE DEF PoolTypeOK, PoolInductive
<1>1. /\ at[r] = "offer" /\ at' = [at EXCEPT ![r] = "receive"]
      /\ idleTaskChan' = Append(idleTaskChan, r)
      /\ UNCHANGED <<call, taskChan, task, runs>>
  BY DEF Offer, Offers
<1>2. \A i \in DOMAIN idleTaskChan : idleTaskChan[i] # r
  BY <1>1 DEF InQueue
<1>3. InQueue'
  BY <1>1, <1>2 DEF InQueue
<1>4. InHands'
  BY <1>1 DEF InHands, Holds
<1>5. QED
  BY <1>1, <1>3, <1>4 DEF RunsOnce

\* The routine that is taken leaves the queue, where it was only once, and
\* nobody else holds it.
LEMMA TakeKeeps ==
  ASSUME PoolTypeOK, PoolInductive, NEW c \in Calls, TakeIdle(c)
  PROVE  PoolInductive'
<1> USE DEF PoolTypeOK, PoolInductive
<1> DEFINE r == idleTaskChan[1]
<1>1. /\ call[c] = "select" /\ call' = [call EXCEPT ![c] = "send"]
      /\ taskChan' = [taskChan EXCEPT ![c] = r]
      /\ idleTaskChan # <<>> /\ idleTaskChan' = Tail(idleTaskChan)
      /\ UNCHANGED <<at, task, runs>>
  BY DEF TakeIdle, TakesIdle
<1>2. 1 \in DOMAIN idleTaskChan /\ r \in Routines /\ at[r] = "receive"
  BY <1>1 DEF InQueue
<1>3. \A i \in DOMAIN idleTaskChan' :
        i + 1 \in DOMAIN idleTaskChan /\ idleTaskChan'[i] = idleTaskChan[i + 1]
  BY <1>1
<1>4. \A i \in DOMAIN idleTaskChan' : i \in Nat /\ i >= 1
  BY <1>1
<1>5. InQueue'
  BY <1>1, <1>3, <1>4 DEF InQueue
<1>6. \A i \in DOMAIN idleTaskChan' : idleTaskChan'[i] # r
  BY <1>2, <1>3, <1>4 DEF InQueue
<1>7. \A d \in Calls : call[d] = "send" => taskChan[d] # r
  BY <1>2 DEF InHands
<1>8. ASSUME NEW d \in Calls, call'[d] = "send"
      PROVE  /\ taskChan'[d] \in Routines
             /\ at'[taskChan'[d]] = "receive"
             /\ \A i \in DOMAIN idleTaskChan' : idleTaskChan'[i] # taskChan'[d]
             /\ \A e \in Calls : Holds(e, taskChan[d])' => e = d
  <2>1. CASE d = c
    <3>1. taskChan'[d] = r
      BY <1>1, <2>1
    <3>2. \A e \in Calls : Holds(e, taskChan[d])' => e = d
      BY <1>1, <1>7, <2>1, <3>1 DEF Holds
    <3>3. QED
      BY <1>1, <1>2, <1>6, <3>1, <3>2
  <2>2. CASE d # c
    <3>1. call[d] = "send" /\ taskChan'[d] = taskChan[d] /\ taskChan[d] # r
      BY <1>1, <1>7, <1>8, <2>2
    <3>2. \A e \in Calls : Holds(e, taskChan[d])' => e = d
      BY <1>1, <3>1 DEF Holds, InHands
    <3>3. QED
      BY <1>1, <1>3, <3>1, <3>2 DEF InHands
  <2>3. QED
    BY <2>1, <2>2
<1>9. InHands'
  BY <1>8 DEF InHands
<1>10. RunsOnce'
  BY <1>1 DEF RunsOnce
<1>11. QED
  BY <1>5, <1>9, <1>10

\* Only the call that has taken the routine sends to it.
LEMMA HandOverKeeps ==
  ASSUME PoolTypeOK, PoolInductive, NEW c \in Calls, HandOver(c)
  PROVE  PoolInductive'
<1> USE DEF PoolTypeOK, PoolInductive
<1> DEFINE r == taskChan[c]
<1>1. /\ call[c] = "send" /\ call' = [call EXCEPT ![c] = "sent"]
      /\ at' = [at EXCEPT ![r] = "run"]
      /\ runs' = [runs EXCEPT ![c] = @ + 1]
      /\ UNCHANGED <<idleTaskChan, taskChan>>
  BY DEF HandOver
<1>2. /\ r \in Routines
      /\ \A i \in DOMAIN idleTaskChan : idleTaskChan[i] # r
      /\ \A d \in Calls : call[d] = "send" /\ taskChan[d] = r => d = c
  BY <1>1 DEF InHands, Holds
<1>3. InQueue'
  BY <1>1, <1>2 DEF InQueue
<1>4. \A d \in Calls : call'[d] = "send" => call[d] = "send" /\ taskChan[d] # r
  BY <1>1, <1>2
<1>5. InHands'
  BY <1>1, <1>4 DEF InHands, Holds
<1>6. RunsOnce'
  BY <1>1 DEF RunsOnce
<1>7. QED
  BY <1>3, <1>5, <1>6

\* Every step keeps the invariant.
LEMMA PoolInductiveStep == PoolTypeOK /\ PoolInductive /\ [PoolNext]_poolVars => PoolInductive'
<1> SUFFICES ASSUME PoolTypeOK, PoolInductive, [PoolNext]_poolVars PROVE PoolInductive'
  OBVIOUS
<1>1. ASSUME NEW r \in Routines, Finish(r) PROVE PoolInductive'
  BY <1>1 DEF Finish, PoolTypeOK, PoolInductive, InQueue, InHands, Holds, RunsOnce
<1>2. ASSUME NEW c \in Calls, Begin(c) \/ TimeOut(c) PROVE PoolInductive'
  BY <1>2 DEF Begin, TimeOut, TimesOut, PoolTypeOK, PoolInductive, InQueue, InHands,
              Holds, RunsOnce
<1>3. CASE UNCHANGED poolVars
  BY <1>3 DEF poolVars, PoolInductive, InQueue, InHands, Holds, RunsOnce
<1>4. QED
  BY <1>1, <1>2, <1>3, OfferKeeps, TakeKeeps, HandOverKeeps
     DEF PoolNext, Routine, DispatchTask

\* The types and the invariant hold in every reachable state.
LEMMA PoolAlwaysInductive == PoolSpec => [](PoolTypeOK /\ PoolInductive)
<1>1. PoolTypeOK /\ PoolInductive /\ [PoolNext]_poolVars => (PoolTypeOK /\ PoolInductive)'
  BY PoolTypeStep, PoolInductiveStep DEF PoolInductive
<1>2. QED
  BY PoolTypeInit, PoolInductiveInit, <1>1, PTL DEF PoolSpec

(***************************************************************************)
(* The theorems.                                                           *)
(***************************************************************************)

\* Every reachable state is well typed.
THEOREM PoolTypeCorrect == PoolSpec => []PoolTypeOK
BY PoolAlwaysInductive, PTL

\* A routine is idle only once, and is given to one call at a time.
THEOREM OneTakerCorrect == PoolSpec => []OneTaker
<1>1. PoolTypeOK /\ PoolInductive => OneTaker
  <2>1. SUFFICES ASSUME PoolTypeOK, PoolInductive,
                        NEW r \in Routines, NEW c \in Calls, Holds(c, r)
                 PROVE  ~Queued(r) /\ \A d \in Calls : Holds(d, r) => d = c
    BY DEF PoolInductive, InQueue, OneTaker
  <2>2. QED
    BY <2>1 DEF PoolInductive, InHands, Queued, Holds
<1>2. QED
  BY PoolAlwaysInductive, <1>1, PTL

\* The queue has room for a routine that offers itself: its elements are
\* different, and others.
LEMMA RoomInQueue ==
  ASSUME PoolTypeOK, InQueue, NEW r \in Routines, at[r] = "offer"
  PROVE  Len(idleTaskChan) < size
<1> DEFINE others == Routines \ {r}
           n == Len(idleTaskChan)
<1>1. IsFiniteSet(others) /\ Cardinality(others) = size - 1 /\ size \in Nat
  BY PoolAssumption, FS_RemoveElement, FS_CardinalityType DEF size
<1>2. idleTaskChan \in [1 .. n -> others]
  BY DEF PoolTypeOK, InQueue
<1>3. idleTaskChan \in Injection(1 .. n, others)
  BY <1>2 DEF Injection, IsInjective, InQueue, PoolTypeOK
<1>4. Cardinality(1 .. n) <= Cardinality(others)
  BY <1>1, <1>3, FS_Injection
<1>5. n \in Nat /\ Cardinality(1 .. n) = n
  <2>1. n \in Nat
    BY DEF PoolTypeOK
  <2>2. Cardinality(1 .. n) = IF 1 > n THEN 0 ELSE n - 1 + 1
    BY <2>1, FS_Interval
  <2>3. QED
    BY <2>1, <2>2
<1>6. QED
  BY <1>1, <1>4, <1>5

\* Whoever sends a task finds its routine receiving, and a routine that offers
\* itself finds room in the queue: only the select of DispatchTask waits.
THEOREM OnlySelectWaitsCorrect == PoolSpec => []OnlySelectWaits
<1>1. PoolTypeOK /\ PoolInductive => OnlySelectWaits
  BY RoomInQueue DEF PoolInductive, InHands, OnlySelectWaits
<1>2. QED
  BY PoolAlwaysInductive, <1>1, PTL

\* A task runs once if DispatchTask returns nil, never if it returns an error.
THEOREM RunsOnceCorrect == PoolSpec => []RunsOnce
BY PoolAlwaysInductive, PTL DEF PoolInductive

(***************************************************************************)
(* Refinement: RoutinePool implements TaskPool.  A routine is free for     *)
(* TaskPool when it runs nothing; what the step that hands a task over     *)
(* needs is that a routine that receives is free.                          *)
(***************************************************************************)
Busy == \A r \in Routines : at[r] = "run" <=> task[r] # Nobody

\* Only the routine that runs has a task.
LEMMA BusyStep ==
  ASSUME PoolTypeOK, InHands, Busy, [PoolNext]_poolVars
  PROVE  Busy'
<1> USE PoolAssumption DEF PoolTypeOK, Busy
<1>1. ASSUME NEW r \in Routines, Routine(r) PROVE Busy'
  BY <1>1 DEF Routine, Offer, Offers, Finish
<1>2. ASSUME NEW c \in Calls, Begin(c) \/ TakeIdle(c) \/ TimeOut(c) PROVE Busy'
  BY <1>2 DEF Begin, TakeIdle, TakesIdle, TimeOut, TimesOut
<1>3. ASSUME NEW c \in Calls, HandOver(c) PROVE Busy'
  BY <1>3 DEF HandOver, InHands
<1>4. CASE UNCHANGED poolVars
  BY <1>4 DEF poolVars
<1>5. QED
  BY <1>1, <1>2, <1>3, <1>4 DEF PoolNext, DispatchTask

\* What TaskPool sees of a call.
LEMMA AbstractCalls ==
  ASSUME PoolTypeOK, NEW c \in Calls, NEW stage,
         call' = [call EXCEPT ![c] = stage]
  PROVE  AbstractCall' =
           [AbstractCall EXCEPT ![c] =
              IF stage \in {"select", "send"} THEN "waiting" ELSE stage]
BY DEF PoolTypeOK, AbstractCall

\* The first states are those of TaskPool.
LEMMA PoolRefinesInit == PoolInit => Promise!Init
BY DEF PoolInit, AbstractCall, Promise!Init, Promise!Nobody, Nobody

\* To offer a routine, to take it from the queue: TaskPool sees nothing.  To begin,
\* to time out, to hand over and to finish are its steps.
LEMMA PoolRefinesStep ==
  ASSUME PoolTypeOK, InHands, Busy, [PoolNext]_poolVars
  PROVE  [Promise!Next]_(Promise!poolVars)
<1> USE DEF Promise!poolVars, Promise!Nobody, Nobody
<1>1. ASSUME NEW r \in Routines, Offer(r) PROVE UNCHANGED Promise!poolVars
  BY <1>1 DEF Offer, Offers, AbstractCall
<1>2. ASSUME NEW r \in Routines, Finish(r) PROVE Promise!Next
  <2>1. Promise!Complete(r)
    BY <1>2 DEF Finish, Busy, Promise!Complete, AbstractCall
  <2>2. QED
    BY <2>1 DEF Promise!Next
<1>3. ASSUME NEW c \in Calls, Begin(c) PROVE Promise!Next
  <2>1. AbstractCall' = [AbstractCall EXCEPT ![c] = "waiting"]
    BY <1>3, AbstractCalls DEF Begin
  <2>2. Promise!Ask(c)
    BY <1>3, <2>1 DEF Begin, Promise!Ask, AbstractCall
  <2>3. QED
    BY <2>2 DEF Promise!Next
<1>4. ASSUME NEW c \in Calls, TakeIdle(c) PROVE UNCHANGED Promise!poolVars
  <2>1. \A d \in Calls : AbstractCall'[d] = AbstractCall[d]
    BY <1>4 DEF TakeIdle, TakesIdle, PoolTypeOK, AbstractCall
  <2>2. AbstractCall' = AbstractCall
    BY <2>1 DEF AbstractCall
  <2>3. QED
    BY <1>4, <2>2 DEF TakeIdle, TakesIdle
<1>5. ASSUME NEW c \in Calls, TimeOut(c) PROVE Promise!Next
  <2>1. AbstractCall' = [AbstractCall EXCEPT ![c] = "failed"]
    BY <1>5, AbstractCalls DEF TimeOut, TimesOut
  <2>2. Promise!Refuse(c)
    BY <1>5, <2>1 DEF TimeOut, TimesOut, Promise!Refuse, AbstractCall
  <2>3. QED
    BY <2>2 DEF Promise!Next
<1>6. ASSUME NEW c \in Calls, HandOver(c) PROVE Promise!Next
  <2>1. AbstractCall' = [AbstractCall EXCEPT ![c] = "sent"]
    BY <1>6, AbstractCalls DEF HandOver
  <2>2. taskChan[c] \in Routines /\ task[taskChan[c]] = Nobody
    BY <1>6 DEF HandOver, InHands, Busy
  <2>3. Promise!Take(c, taskChan[c])
    BY <1>6, <2>1, <2>2 DEF HandOver, Promise!Take, AbstractCall
  <2>4. QED
    BY <2>2, <2>3 DEF Promise!Next
<1>7. CASE UNCHANGED poolVars
  BY <1>7 DEF poolVars, AbstractCall
<1>8. QED
  BY <1>1, <1>2, <1>3, <1>4, <1>5, <1>6, <1>7 DEF PoolNext, Routine, DispatchTask

\* The pool implements TaskPool: a task is started by a free routine in the step in
\* which its call succeeds, and never after its call has failed.
THEOREM HandsOverCorrect == PoolSpec => HandsOver
<1>1. PoolInit => Busy /\ Promise!Init
  BY PoolRefinesInit DEF PoolInit, Busy
<1>2. PoolTypeOK /\ PoolInductive /\ Busy /\ [PoolNext]_poolVars => Busy'
  BY BusyStep DEF PoolInductive
<1>3. PoolTypeOK /\ PoolInductive /\ Busy /\ [PoolNext]_poolVars
        => [Promise!Next]_(Promise!poolVars)
  BY PoolRefinesStep DEF PoolInductive
<1>4. QED
  BY <1>1, <1>2, <1>3, PoolAlwaysInductive, PTL
     DEF PoolSpec, HandsOver, Promise!Spec
=============================================================================
