# A TLA+ model of common_fw

`common_fw` (package root `src/src/xxgame.com`) is a Go framework for game
servers: a base service with a main loop, timers and message dispatch, and
components for network connections, clients and servers of other services,
data access, configuration, web sockets, and tools.  This project models the
parts whose correctness depends on the order in which goroutines, messages and
timers act, model-checks them with TLC, and proves some of the results with
TLAPS.  Paths below are relative to `src/src/xxgame.com`.

`PROJECT.json` maps each definition to the lines it models, and lists the runs,
the mutants that show that each property can fail, the findings, the hazards
and the theorems.

## 1. Inventory

| Component | State | Operations | Interacts with | Hard because | Correct when |
|---|---|---|---|---|---|
| data access SDK `component/datasdk` | session table `smap`, `resChan`, `callbackChan`, a timer and channels `tq`, `sync` per session | StartDataOps, DoDataOps, recvJob x n, timer goroutines, callbackJob | client connections (SendMsg, filter channel), user callbacks | response, timer and failed send race for each session; sends on channels of capacity 1 under a lock | each call has one outcome, of the party that claimed it; nothing blocks or leaks |
| network connection `component/net/net.go` (Conn) | flags `isClosed`, `aboutToClose`, `closeReason`; `inPipe`, `outPipe`; socket | recv, send, closeNow, Close, SendMsg, RecvMsg | its owner (client, server, web), Commu.Stop, the other end | closeNow runs in several goroutines without a lock | pipes are closed once, the owner is told once, order is kept, what was accepted is sent before a close, Stop returns |
| listening and dialling `component/net/net.go` (Commu) | `isEnabled`, listeners, `tcpAddrs` | Start, Stop, listen, startTCPClient, RetrySingleConn | connection, client, server | Stop waits for goroutines that wait for the network | Stop ends; no connection after Stop |
| bounded channels `component/safechan` | buffer, open or closed | Read, Write | connection, web nodes | close while others read and write | no panic, no lost value |
| client connections `component/net/client` | `connMap`, `svrIdMap`, `allSvrId`, `routeTable`, `robinIdx`, mutex `mu`, `reloadChan` | Start, connJob, checkConns, reloadCfg, SendMsg (6 routes) | configuration manager (Get, Post hook), connection, its callers | entries are removed by server id by several goroutines; senders read lists that a reload replaces | lost connections come back, entries are live, indexes stay in range, a reload is applied |
| server connections `component/net/server`, `framework/base/connmng.go` | connections by id, `newConnCh`, `disconnChan`, registered server ids | connJob, register, disconnect, main-loop cases | connection, base service | a connection may close before its callback is registered; ids are reused by a reconnection | a dead connection leaves, a live one stays |
| base service: timers `framework/base/service.go` | `timeoutActionMap`, `delTimeoutAction`, `timerInfo`, `pauseTimerEvent` | Add-, Del-, Pause-, ResumeTimeoutAction, MainLoop cases 0-4 | its callers, one goroutine per request and per timer | each request reaches the loop through a goroutine of its own, in any order | a one-shot runs once, a deleted timer never, an added one does |
| base service: dispatch `framework/base/service.go` | `TaskChan`, per-user queues, routine pool | ProcessMsgWithSingleThread, ProcessMsgWithMultiThread, MainLoop | server, client, routine pool | the main loop feeds the channel it drains | per-user order, no deadlock |
| routine pool `component/routinepool` | queue of idle goroutines | NewPool, Start, DispatchTask | message dispatch | hand-over through two channels, with a timeout | a task runs once, or its caller has an error |
| configuration manager `component/cfg` | two buffers per file, index, md5 | Register, InitLoadAll, ReLoadAll, ReloadAndSave, Get | base service (hooks), client, cfgsync | hooks refuse half-way, files are read while they are written | what Get returns changes only at the switch; the checksum is that of the current text |
| configuration synchronisation `component/net/cfgsync` | connection, list of configurations | Start, syncJob, acceptNewCfg | connection, configuration manager | late and lost responses, a checksum recorded before the write | what the centre publishes becomes current |
| process control `component/process` | `ReloadChan`, `ExitChan`, `HttpChan` | signals, HTTP commands | MainLoop | one unbuffered channel used in both directions | the main loop always finds a handler that takes its answer |
| web nodes `component/webserver`, `framework/base/webservice.go` | node registry, pipes, close flags | recv, send, Send, Close, listenNewNode, listenDelNode | MainLoop, session table of the web service | two-phase close by three goroutines | the owner is told once, what was accepted is sent, the registry forgets the node |
| notification timers `component/timer` | timers by id, status | NewTimer, DelTimer | callers | deletion races with a tick | a deleted timer does not notify |
| identifiers, checked arithmetic `component/uuid`, `utils` | a counter | GenID, ConvertServerID..., Int32Add ... | everybody | boundaries, a race on the counter | conversions round-trip, limits are kept, 0 is given only to calls that overlap |
| mahjong analysis `component/mjana` | none | Split, PreAna, IsHu ... | game services | search with wild cards, parallel variant | agrees with a naive definition |
| others: logs, database, groups, objects, tokens, reports, counters, xg, oplog | files, external services | | | I/O, stateless, or a repetition of a pattern above | |

How a request travels: a caller of the data SDK sends through a client
component; `SendMsg` chooses a connection of `connMap`; `Conn.SendMsg` puts the
packet in `outPipe`, and the goroutine `send` writes it.  The response comes back
through `recv`, `inPipe`, `connJob` and the filter channel (`resChan`) to a
`recvJob`.  Configuration changes come from the configuration manager through the
hook `OnNewCfg` to `Client.ReloadCfg`.  Timers of the main loop share nothing
with these.

## 2. Plan

In the order of importance.  Done:

1. `DataSession` with `CallPromise`: request/response engine, abstract
   specification, inductive invariant, refinement.  Proved.
2. `SafeChan`, `NetConn`: one connection.  Safety proved.
3. `ActionTimer`: timers of the main loop.  Proved.
4. `ClientConns`, `ClientSend`: client component.  Safety proved.
5. `RoutinePool` with `TaskPool`: hand-over of tasks, abstract specification,
   refinement.  Proved.
6. `ServerConns`: connection manager and server `connJob`.  Proved.
7. `CfgMng`, composed in `Control` with the main loop, process control and the
   configuration synchronisation.  Safety proved.
8. `WebNode`, composed in `WebService` with the dispatch of messages.  Safety
   proved.
9. `Mahjong`, `Numbers`, `UuidGen`, `SearchRace` with their inputs in `Algorithms`.
   `Numbers`, `UuidGen` and the safety of `SearchRace` proved, `Mahjong` checked.

Left, in this order:

10. `TimerManager` (`component/timer`): deletion against a tick.
11. `ServerConns` over `NetConn`, for the end of a connection.
12. Listening and dialling (`Commu`): what listeners accept and clients dial while
    Stop waits.

## 3. Modules and the code

Each component has a module with constants, variables, `Init`, an action per
step, `Next`, `Spec`, fairness and properties; an `MC...` module with small
instances; and, if it is proved about, a `...Proof` module.  A step is what runs
between two points where another goroutine can interfere: a critical section, a
channel operation, or a statement that reads or writes an unprotected shared
variable.  A definition marked `faulty` is a variant of the one below it with a
plausible bug; it is used only to show that a property can fail.

**DataSession** (`component/datasdk/datasdk.go`).  One element of `AsyncOps` or
`SyncOps` is one call of StartDataOps or DoDataOps.  `Register`, `StartTimer`,
`SendOk`/`SendFail`, `SyncReturn` are the caller; `TimerExpires`, `TimerQuit`,
`TimerTick`, `TimerClaim`, `TimerNotify` the timer and its goroutine; `Receive`,
`RecvDrop`, `RecvClaim`, `RecvDiscard`, `RecvNotify` a recvJob; `RunCallback` the
callbackJob; `Reply` the external server.  Data operations are reduced to the
session they belong to and whether their response can be decoded.
**CallPromise** is what a call promises: it is claimed by one party, and its verdict
is that of the claim and final.  `DataSession` maps to it by `AbstractCall`.

**SafeChan** (`component/safechan`): outcomes of Read and Write.  **NetConn**
(`component/net/net.go`): each actor (callers of Close, recv, send) has its place
`at` in closeNow, whose statements are separate steps because nothing locks them;
`listener` is where the goroutines listen are, for which Stop waits.
Packets are whole: framing and the socket buffer are reduced to `BatchLimit`.

**ActionTimer** (`framework/base/service.go`).  Requests in flight are counted
per kind and id, not queued, because each is written by its own goroutine;
`Handle...` are the cases of MainLoop; `waiting` and `cancelled` count the
goroutines of `time.After`.  Durations are abstracted.

**ClientConns** (`component/net/client/client.go`): connJob (`Register`, `TestsAll`,
`Notify`, `Deregister`, `Refuse`), checkConns (`Wake`, `Reload`, `DialMissing`), and of the
configuration manager only the order of hook and switch (`ReloadCfg`,
`SwitchBuffer`).  Both halves of the component share **ClientLists**: the lists of
servers of the configurations, `allSvrId`, and what reloadCfg has read (`fresh`).
**ClientSend**: the callers of SendMsg.  A step is a critical
section of `mu` or one read outside it, but a broadcast has two (`StartBD`, `EndBD`),
because it may wait for room in a pipe with `mu` locked; `ReloadTable` and `ReloadServers` are the
two critical sections of reloadCfg; of a connection only matters whether it is in
`connMap` and open.  The two modules look at the same component: what ClientConns
does to the table is `Connect`, `Disconnect` and `Fails` in ClientSend, at any time, and
that a sender keeps `mu` is `SenderLocks` in ClientConns, with or without
`SenderUnlocks`.

**RoutinePool** (`component/routinepool/routinepool.go`): the loop of each goroutine
(`Offer`, `Finish`) and the callers of DispatchTask (`Begin`, `TakeIdle`, `TimeOut`).
`taskChan` has no buffer, so `HandOver` is its send and its receive in one step.
**TaskPool** is what the pool promises without its channels: a waiting task is taken
by a free goroutine, in the step in which its call succeeds, or its call is
refused.  `RoutinePool` maps to it by `AbstractCall`; a goroutine is free for
TaskPool when it runs nothing, whether or not it has offered itself.

**WebNode** (`component/webserver/webserver.go`).  `reader`, `writer`, `closer` are the
places of the goroutines recv and send of a node and of a caller of Close;
`ending` is listenDelNode between the mark and the end of realClose, `starting`
listenNewNode between the start of the goroutines and the call of
OnWebNetNewNode.  Tests of flags that follow each other are one step (`Past`,
`SendTests`); those of recv before and after ReadMessage, and those of send before
and after its wait, are apart.  **WebService**
(`framework/base/webservice.go`) adds what recv calls: `OnNewWebMsg` refuses a
message and closes the node (`Malformed`), refuses it (`Undecodable`), or decodes it
(`Decoded`) and only then dispatches it to the main loop, waiting without a timeout
while TaskChan is full, or to a routine; its task answers through `GetNode`,
`SendChecks`, `SendPuts`.  Of a message its number matters, and the answer to it
bears the same one.  The pool is what TaskPool says of it: an idle routine takes the
task, or the dispatch fails.

**CfgMng** (`component/cfg/cfg.go`).  `load` is where the main loop is in a load: it
reads (`LoadReads`), parses into the spare buffer (`LoadParses`), calls the hook
(`LoadPosts`) and switches (`LoadSwitches`); `Set...` is the same order in
ReloadAndSave, with the file written in two steps.  A text is a version; `Refused`
are those that the hook refuses - the one of the server (`Server`) panics instead,
which nothing recovers, so that the process ends (service.go 218-222) -, `Torn` is
what a reader finds between truncation and write, and may or may not parse.
`failed` is history: the configurations whose last new text was refused or not saved.  **Control** adds the main loop's `select`
(`TakeReload`, `TakeCommand`, `Reply`, `Quit`), the HTTP handlers, of which matters
whether they wait for an answer (`waiting`), the signals, and syncJob of
`component/net/cfgsync/cfgsync.go` (`Pull`, `Receive`, `Write`, `TimesOut`,
`RoundEnds`) with the centre it polls.  What a client does with the notice is in
ClientConns; here it only takes it.

**Mahjong** (`component/mjana/mjana.go`): each search is an operator; cards are pairs
of type and value and hands are sorted sequences; `IsWin`, `SevenPairs` and
`WildWins` are the definitions they are compared with.  A sequential search has one
answer; `AnalyzeWildCards`, which calls the parallel one, has the set of answers that
its goroutines may write to the shared result.  **SearchRace**: the
goroutines of one parallel search and its caller, all of which write the shared
result `isHu`.  **Numbers** (`utils/server_id.go`, `session_id.go`, `comma.go`,
`buffer.go`): a text is the sequence of its fields, and a width is given by how many
numbers it can hold, from the constant `Half` (2^16 in the code).  The operator `|`
is the constant `BitOr`: the proofs need to know only that it stays in the width
and that `a | 0` is `a`, and MCAlgorithms gives it the `|` of Bitwise.  **UuidGen**
(`component/uuid/uuid.go`): GenID in two steps.  The last three have specifications of
their own (`SearchSpec`, `NumbersSpec`, `UuidSpec`) and state their properties;
**Algorithms** gives all four their inputs.

**ServerConns** (`component/net/server/server.go`, `framework/base/connmng.go`):
connJob of each connection (`Accept` to `IsClosed`), the goroutine Listen (`Enter`
to `Notify`) and the end of a connection: `Close` wins the socket, as
`CloseSocket` of NetConn does, and `Report` is the callback.  A registration that
fails and one that succeeds differ only in where connJob goes.

## 4. Runs

| Run | Asks | Bounds |
|---|---|---|
| `data_session` | Is every call answered once, and does all end? | two of three calls (two asynchronous, one synchronous), two receivers, capacities 1, two responses, each of which may be undecodable |
| `net_conn` | Are pipes closed once, messages in order, closes graceful? | a TCP client; two callers of Close, Stop, the other end, two packets, capacities 1 |
| `net_conn_live` | Do close and Stop end? | a TCP server and its listeners; one caller of Close, one packet, two incoming messages |
| `action_timer` | Does a timer run once, never after its deletion, and at all? | a one-shot, a repeating timer whose id is given to a one-shot as well, two other requests |
| `action_timer_delete` (violation) | Does a delete take effect? | one repeating timer |
| `client_conns` | Are entries alive and do connections come back? | two servers, four connections at a time, one failure, one reload; senders that take `mu`, for ever or not |
| `client_send` | Can an index be out of range, does the round robin try all servers and end? | two servers, two lists, three configurations (the route table of one does not fit), two senders; reloads and failures unbounded |
| `routine_pool` | Is a goroutine given to one call at a time, is a task started once and only if its call succeeds, do calls return? | two goroutines, three tasks |
| `server_conns` | Are open connections found, closed ones forgotten, and is the service told once? | three connections, two with one id; `disConnChan` of capacity 1 |
| `algorithms` | Do the fast searches, the conversions and the checked arithmetic agree with their definitions, do overlapping calls of GenID and parallel searches keep what they can? | a deck of 4, 1, 1 and 2 values, hands of up to 8 cards and all hands of seven pairs; words of 4 bits; two branches of up to two candidates; a counter modulo 8, five calls |
| `web_service` | Is the service told once of the end of a node, is what was accepted sent, is every node forgotten? | one node, two callers of Close, two messages, two routines, channels of capacity 1 and 2; TaskChan has 1, so that recv waits for room in it |
| `configuration` | Is what Get returns stable, the checksum true, every command answered, and does what is published become current? | three configurations (synchronised, set by commands, the server's, which is not reloadable), three texts, two handlers, one new version, one fault |

Why the bounds suffice: every race in this code is between two parties over one
object (session, entry, pipe, timer), so each run has at least two parties of
each kind on one object, and a second object so that they can be confused.
Capacity 1 makes a channel full as early as possible.  All counters that the code
does not bound are bounded by a constant whose name starts with `Max`, or, in
ClientSend, by the length of the longest list (beyond it the comparison for
equality cannot succeed any more).

In `client_conns` a connection may fail while its connJob waits for ever to write to
`connOK`; its identity is used again (`Stuck`), because nothing but that connJob
refers to it, and this keeps four connections enough.  Which connection has which
identity is fixed (`Numbers` of ClientConns).

`web_service` has one node: nodes share only listenDelNode and the capacity of its
channel, which is 1 here, so that a second report already waits.  In `algorithms`
a suit of four values is the smallest in which two runs overlap, and 8 cards are
the smallest winning hand with two groups besides the pair.  In `configuration` a
text more would only repeat the order of two, and a second fault repeats the
first: both leave a configuration in `unsaved` or a response too late.

Each module keeps one type invariant.  Where a proof establishes it no run repeats
it, and the same holds for `OnlySelectWaits` and `OnePlace` (section 5).

Deadlock is checked in `client_conns`.  The other runs reach states in which the
program rests: all calls have ended, the connection is closed, all timers have
run, all connections have closed, the node has been forgotten, the process has
ended - or, in `client_send`, a caller has panicked with `mu` locked.

**Fairness.**  Weak fairness of the steps of goroutines (the Go scheduler runs what
can run), of timers (time passes), and, in NetConn, of the owner that keeps
receiving.  In ServerConns, `Announce` and `ReceiveDisconn` are strongly fair: both
wait in the same `select`, which chooses at random among the ready cases, so
neither is passed over for ever.  In ClientConns and ClientSend the users of `mu` are
strongly fair: sync.Mutex does not pass over a waiter for ever; but a sender is never
forced to give `mu` back, and what that would stop is said under the hypothesis
that `mu` is free again and again.  In Control, `TakeReload` is strongly fair for the
same reason, and only while the process runs.  In WebService a write to a socket
ends (its peer reads or leaves), and a task ends.  Of the outside little is assumed:
servers need not answer, peers need not close, callers need not call, and a failure is
never forced; but in Control the centre answers every request, all but `MaxLate` of
them before their timeout, and a client that is notified reads its configuration.

### Findings

- A delete between the execution and the re-arming of a repeating timer brings it
  back without a handler (`action_timer_delete`).

Seen while modelling, without a run of their own; the hazards of PROJECT.json name
those that a property must except.

- Timers: the repetition is of the id, so a one-shot whose caller gives AddTimeoutActionEx
  the id of a repeating timer may run again and again (service.go 896, 677-707).
- Data SDK: an undecodable response stops the timer of its call and then tells
  nobody, so DoDataOps never returns and OnFinished never runs (datasdk.go 161-182,
  549); `SyncCallsReturn` and `AsyncCallsFinish` except exactly the calls that a
  recvJob claims with such a response (`Discarding`).  A call whose send is blocked
  may time out, report it, and then also return the error of the send
  (`FailedSendIsFinal` says that nothing else is reported of it); when it is the
  encoding that fails, StartDataOps returns nil and OnFinished never runs (429).
- Connections: a second Close discards what is still in `outPipe` (net.go 518); Stop
  of a TCP server waits for listeners that test `isEnabled` only between two calls of
  Accept, which has no deadline (217, 716-721), so that it returns only after a client
  has connected to each address (`StopReturns` has the hypothesis that no listener
  stays in Accept); Stop
  of a UDP server leaves its socket open (recv returns at 319, and there is no
  send).
- Clients: the goroutine of a dead connection removes the entry of its successor,
  and the client dials a second connection (client.go 95-99, 238); two connJobs that
  register the last two servers at the same time may both write to `connOK`, which
  holds one value and which nobody reads: the second waits there for ever, and its
  connection is used by senders and counted as connected, but never read (104-107).
  `mu` stays locked after a panic of SendMsg, which the caller's goroutine
  recovers (service.go 400, 622), and while a broadcast waits for a connection that does not write
  (426): then no connection is registered, removed or dialled any more (`Reconnects`
  has the hypothesis that this does not happen).  SendMsg panics when the list has
  become shorter after the hash was reduced (470, 472) or `robinIdx` advanced (445),
  between the two halves of a reload (202, 221), and with a route table that does
  not fit its list, which nothing checks (195-199, 313-316).  A round robin whose
  count of failures a shorter list has overtaken ends only when it finds a valid
  connection (453).  Two round robins at once skip each other's servers, and either
  may report that all connections are invalid with some of them not tried (440).
- Servers: a connection that closes between lines 132 and 135 of server.go stays in
  `conns`; the end of an old connection removes the entry of its successor
  (connmng.go 88).
- Web nodes: a second Close, or a message of the client while a node is drained,
  ends the draining at once (webserver.go 87-90, 257-268); a Send that passed its
  test before the draining began may accept a message that is never sent; writes
  have no deadline (107), so a peer that does not read keeps its node for ever;
  OnWebNetDelNode is called with `m4nodes` locked (269-274), so a callback that
  calls GetNode waits for itself, and it may come before OnWebNetNewNode; when no
  routine is idle for five seconds the node is closed (webservice.go 101-104).
- Configuration: a text that the hook refused, or that could not be saved, counts as
  unchanged when it is set again, and the command answers ok (cfg.go 267, service.go
  540); cfg=set also replaces configurations that are not reloadable, and one of the
  server with a bad id ends the process (service.go 220); the hook
  notifies the client before the switch (cfg.go 230), so a client that is quick
  reads the old one; a file read half written may parse and become current until the next reload;
  one file that does not parse ends a reload, in the random order
  of a map (193); a response that comes after its timeout is taken for the answer to
  the next request, and so are all that follow (cfgsync.go 234); a response that
  could not be written is never asked for again (267).
- Process control: when a waiting handler takes the context of another one, that
  command is lost and both callers return without it (process.go 240-243).
- Numbers: `Int32Add` takes every operand for a growth, so a negative one makes it jump
  to the maximum (buffer.go 94).
- Identifiers: two overlapping calls of GenID may be given the reserved 0 (uuid.go 18,
  against line 2 and uuid_test.go 21).
- Mahjong: AnalyzeWildCards calls the parallel search (mjana.go 345), which may miss a
  win that mjana_test.go 2592 expects, because `isHu` is shared and may be overwritten
  before a goroutine sends it or the caller returns it (414-446, 653-676).
  `SearchesRight` says where: only if more than one goroutine searches, and never for
  seven pairs; the sequential search (359-374), which nobody calls, misses none.

## 5. Proofs

TLAPS checks these for every value of the constants that satisfies the named
assumptions of the modules.

**DataSessionProof.** `TypeCorrect`, then `InductiveCorrect`: `Inductive` says that
a session in `smap` is claimed by nobody and otherwise by at most one holder (a
recvJob, the timer goroutine, an entry of `callbackChan` or the value in `sync`),
that a settled call has no claim (`OneOutcome`), how far a call has come when
something of it exists (`Lifecycle`), that responses are to requests that were sent
and that an unsent call has no result.  `OneOutcome` alone is not inductive: it
needs to know that a call that has not begun owns nothing, and that whoever claims
finds the channels `tq` and `sync` empty.  `OneOutcomeCorrect`,
`SignalsNeverBlockCorrect` and `ReplyFindsTimerCorrect` follow.

`RefinesPromise`: every step of the engine is a step of CallPromise or leaves all
abstract calls unchanged; one lemma per action, on top of `InductiveCorrect`.
`FailedSendCorrect` rests on it: a call that gave up is at a last stage of the promise,
which no step leaves.

**NetConnProof.** `TypeCorrect`, for any number of callers, capacities and messages.
Then three inductions, each of its own part of the connection:

- `Closing`: whoever finds the socket open when it closes it is the only one that
  gets past it (`OnePasses`); before, nothing of the connection is closed
  (`OpenUntilSocket`), and afterwards the place of that actor says what is
  (`HowFar`).  `ClosedOnceCorrect`.
- `OutOrder` and `InNumbers`: what was accepted is what the other end has, what send
  holds (`Unwritten`) and what is in `outPipe`, one after the other, until send
  ends; what the other end has sent is taken, in `inPipe`, in the hands of recv or
  in the socket, numbered in this order.  `InOrderCorrect`.
- `Graceful`: recv asks for a close once, because it waits in "check" and then finds
  the connection about to close (`Asking`); send asks when what was promised is
  written, and an asker that is alone only announces the close (`Draining`).
  `GracefulCloseCorrect`.

`StopDisconnectsCorrect` has the hypothesis `HasSender`: a UDP server has no goroutine
send, its recv returns without a close, and Stop leaves its socket open, so that
the property is false there (section 4, findings).

**ActionTimerProof.** `TypeCorrect`; `Inductive` says that handlers are kept
under the ids of their calls (`OwnId`), that goroutines and requests of the repeating
kind exist only for ids that a repeating call has (`RepetitionIsOwn`), and that each
handler is in exactly one place, or in none once it is dead or its one-shot has
completed (`PlaceInv`).  Nothing is assumed about who shares an id; `RunsOnce` itself
speaks of the calls whose id no repeating call has.
`RunsOnceCorrect`, `OnePlaceCorrect` and `DeletedIsForgottenCorrect` follow.

**ClientConnsProof.** `TypeCorrect` and `NoDeadEntryCorrect`: an entry of `connMap`
leads to a connection whose connJob has not ended, for every list of servers and every
number of failures and reloads.  The second half is about `ClientSend`
(`SendSpec`).  `InRange` says how an index can be too large: the route table and the
list are of one configuration except between the two halves of a reload, and
`robinIdx` and a hash that has been reduced fit the list until that has become
shorter.  `PanicNeedsReloadCorrect` follows; that a route table fits its list
(`Fits`) is not assumed but part of what the theorem says.  `TriesBehind` is about a
round robin that nobody disturbs: the servers behind `robinIdx`, counted back round the list by as many as
the call has found invalid, are among those it has tried; when that is the length
of the list it is all of them (`AllBehind`).  `SoleRobinTriesAllCorrect`.  Both need
`InRange`, the second one for the bound on the count of failures.

**BaseServiceProof.**  Of `ServerConns`, `Inductive`: what is reported was registered and is closed
(`ReportedLater`), what is registered has been announced (`EnteredLater`), a
report is in one place (`ReportedOnce`), and `conns` leads only to connections
that were entered and that the service has not been told of (`EntriesLive`).
`ToldAfterLifeCorrect` needs all four: it is the order announce, then register,
that keeps Listen from entering a connection after its end; the faulty variant
`RegWithCallback` shows what the opposite order does.  `OpenIsFoundCorrect` is an
induction of its own on top of them.

The second half is about `RoutinePool`.  `PoolInductive`: a goroutine in the queue
receives and is in it once (`InQueue`); one that a call has taken receives, has
left the queue and is held by nobody else (`InHands`).  `OneTakerCorrect` and
`RunsOnceCorrect` follow; `OnlySelectWaitsCorrect` also needs that the queue has
room: its elements are distinct and do not include the goroutine that offers
itself, so there are fewer of them than goroutines (`RoomInQueue`).
`HandsOverCorrect`: to offer a goroutine and to take it from the queue are stutters
of TaskPool, and the other steps are its steps; that the goroutine which receives a
task is free follows from `InHands` and `Busy` (it has a task exactly while it runs).

**AlgorithmsProof.**  The theorems about `Numbers` hold for every even `Half` and for all
integers as arguments, so for the code's 2^16; they are arithmetic, not induction.
What is put together from a quotient and a remainder falls apart into them
(`Divide`), so that two fields that fit are found again (`FieldsOf`, `FieldsOfNumber`,
`RoundTrip`).  `ConversionsAgreeCorrect` is that, for the widths of servers and
sessions; where a second field spills into the first, all it needs of `BitOr` is the
assumption of Numbers.  `ArithmeticStopsCorrect`: the sum of two numbers of a type leaves
it by less than its width, so it wraps at most once (`WrapsOnce`), and if the second
is not negative the sum wraps exactly when it comes out smaller than the first.

The ids of connections come from GenID (server.go 122), and `GeneratedIDsCorrect`
is about it, for every modulus and any number of callers: a call that is alone has
seen the counter it adds to, so that it skips 0 (`Alone`), and two ids given one
after the other are between one and two times as far apart as their places
(`Apart`), so that none is given twice before half the modulus has been given.

`SearchSafeCorrect`: a TRUE, wherever it is, comes from a winning hand (`Positive`); a
goroutine that is alone shares `isHu` only with a caller that waits for it, so that
its answer is the one that is returned (`Lonely`); the answers in `resChan` and
those still to be sent are as many as the caller waits for (`Counted`), which is
why it never waits in vain, and why a channel with room for all goroutines
(`SearchAssumption`) is never full.

**ControlProof.** `TypeCorrect`; `TextRead` is needed for it: what is written to a
file has been read, so it is not an allocated message.  `Pending` says that while a
text is on its way through hook and save, its checksum is recorded and the spare
buffer holds it; `Signed` that for every other configuration the checksum is that
of the current buffer, unless its last text failed.  `ChecksumOfCurrent` alone is
not inductive, because in the middle of a load the checksum is ahead of the
buffer.  `OthersKeepBuffers` reduces every other step to one case.
`ChecksumCorrect`, `StableCorrect` and `OneWaitsCorrect` follow, the last from
`OneServed`, which names the handler that waits instead of counting.

**WebServiceProof.** `Inductive` follows a node on its way (`Places`, `EndsOnce`): it is
in newNodeChan or in the map only after its client came, never in both, while it
is there the service has not been told of it, and `ending` holds only nodes of the
map - which is what the test in listenDelNode is for.  `ToldOnceCorrect`.
`TypeCorrect` also needs how the requests are numbered.  `Drains` is the invariant
for `DrainedByCloseCorrect`.  Its first part, `Owing`, holds for every node: what was
accepted is delivered, being written or in the channel as long as the client is
there and the service has not been told, and it is all delivered when send reports.
Its second part holds for a node whose client sends nothing bad and that one
caller closes (`Quiet`): it is `Undrained`, `Draining` or `Drained`, and the report
of the caller is what takes it from the first to the second - while it is draining
no other report is in delNodeChan, so that the second report can only be that of
send.  `DrainedByClose` is a property of the step that tells the service, and
follows from the phase before it (`EndedIsDrained`).

Only model-checked:

- liveness: it needs fairness and ENABLED, which the prover does not handle;
- `NoEmptyTimer`, which is violated;
- `SearchesRight`: what the searches of Mahjong compute is defined by recursion over
  the hand;
- `SearchAnswers`: it says that a search ends, which is liveness; what it says of
  every state, `SearchSafe`, is proved.

## 6. What is not modelled

Section 1 lists every component; those without a module are marked `not_modelled`
in PROJECT.json with the reason.  Within the modelled ones:

- the flags of Conn are taken to be sequentially consistent, although the code
  reads them without synchronisation;
- CheckOps is reduced to accept or refuse; message contents, encodings and logs
  are left out;
- Client.Stop and Restart, filter channels, keepalives, and WaitOK, which has no
  caller;
- UDP: NetConn has the parameter, the runs use TCP;
- Start, Stop and Restart of a server, and what its messages contain; a task that
  panics in the routine pool ends the process;
- web nodes: the upgrade of a request, the address of a node; ReadMessage fails only
  when the client has left or the node is closed;
- configuration: Prev hooks (none is registered), ReLoad of one configuration (not
  called), a write that fails half-way, and two writers of one file at once
  (cfg=set of a synchronised configuration); the ten seconds that a client may take
  before it takes a notice are a wait; the clone at the start is the initial state;
- dispatch: handlers of messages only answer; PerfChan is left out;
- mahjong: the inner goroutines of Split only merge results, so their order does not
  matter and they are a union;
- the debug mode of CatchError in the timers (a panic is always recovered).
