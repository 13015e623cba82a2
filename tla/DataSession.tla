---------------------------- MODULE DataSession ----------------------------
(***************************************************************************)
(* The request/response engine of the data access SDK                      *)
(* (component/datasdk/datasdk.go).                                         *)
(*                                                                         *)
(* A caller of StartDataOps (asynchronous) or DoDataOps (synchronous)      *)
(* records a session in smap, starts a timer with a goroutine of its own,  *)
(* and sends the request.  The response is taken by one of the recvJob     *)
(* goroutines.  Whoever removes the session from smap under smLock - the   *)
(* response, the timer or the failed sender - decides the call's outcome.  *)
(* An asynchronous outcome travels through callbackChan to the single      *)
(* callbackJob, a synchronous one through the session's channel sync.      *)
(*                                                                         *)
(* A critical section of smLock is one atomic step.  Inside one only       *)
(* `session.tq <- 0' could block, and SignalsNeverBlock shows it does not. *)
(***************************************************************************)
EXTENDS Naturals, Sequences

CONSTANTS
  AsyncOps,    \* one element per call of StartDataOps
  SyncOps,     \* one element per call of DoDataOps
  Workers,     \* the recvJob goroutines: RecvJobNum of them
  ResCap,      \* capacity of resChan: MsgChanCap
  CbCap,       \* capacity of callbackChan
  MaxReplies   \* bound: responses the server sends, all requests together

Ops == AsyncOps \cup SyncOps

ASSUME OpsAssumption == AsyncOps \cap SyncOps = {}
ASSUME CapAssumption == /\ ResCap \in Nat \ {0}
                        /\ CbCap \in Nat \ {0}
                        /\ MaxReplies \in Nat

VARIABLES
  pc,            \* where each caller stands
  ret,           \* what its call returned
  smap,          \* the recorded sessions (keys of SDK.smap)
  timer,         \* each session's time.Timer
  tg,            \* each session's timer goroutine
  tq,            \* number of values in the session's channel tq (capacity 1)
  sync,          \* number of values in the session's channel sync (capacity 1)
  serr,          \* session.err has been set to the timeout error
  sent,          \* requests handed to the connection
  replies,       \* number of responses the server has sent
  resChan,       \* responses waiting for recvJob
  job,           \* what each recvJob goroutine works on
  callbackChan,  \* outcomes waiting for callbackJob
  finished       \* per asynchronous call: the OnFinished invocations, in order

vars == <<pc, ret, smap, timer, tg, tq, sync, serr, sent, replies,
          resChan, job, callbackChan, finished>>

callerVars == <<pc, ret>>
serverVars == <<sent, replies>>

-----------------------------------------------------------------------------
Verdicts == {"ok", "timeout"}
Response == [sid : Ops, good : BOOLEAN]
Callback == [sid : AsyncOps, res : Verdicts]
Idle == [phase |-> "idle"]
Busy == [phase : {"lookup", "handle"}, sid : Ops, good : BOOLEAN]

TypeOK ==
  /\ pc \in [Ops -> {"idle", "registered", "armed", "waiting", "returned"}]
  /\ ret \in [Ops -> {"none", "nil", "err", "result", "timeout"}]
  /\ smap \subseteq Ops
  /\ timer \in [Ops -> {"off", "running", "fired", "stopped"}]
  /\ tg \in [Ops -> {"off", "select", "expired", "notify", "exit"}]
  /\ tq \in [Ops -> 0 .. 1]
  /\ sync \in [Ops -> 0 .. 1]
  /\ serr \in [Ops -> BOOLEAN]
  /\ sent \subseteq Ops
  /\ replies \in 0 .. MaxReplies
  /\ resChan \in Seq(Response)
  /\ job \in [Workers -> Busy \cup {Idle}]
  /\ callbackChan \in Seq(Callback)
  /\ finished \in [AsyncOps -> Seq(Verdicts)]

Init ==
  /\ pc = [s \in Ops |-> "idle"]
  /\ ret = [s \in Ops |-> "none"]
  /\ smap = {}
  /\ timer = [s \in Ops |-> "off"]
  /\ tg = [s \in Ops |-> "off"]
  /\ tq = [s \in Ops |-> 0]
  /\ sync = [s \in Ops |-> 0]
  /\ serr = [s \in Ops |-> FALSE]
  /\ sent = {}
  /\ replies = 0
  /\ resChan = <<>>
  /\ job = [w \in Workers |-> Idle]
  /\ callbackChan = <<>>
  /\ finished = [s \in AsyncOps |-> <<>>]

-----------------------------------------------------------------------------
(* The caller: StartDataOps and DoDataOps, which differ only in their last *)
(* step.                                                                   *)

Return(s, value) ==
  /\ pc' = [pc EXCEPT ![s] = "returned"]
  /\ ret' = [ret EXCEPT ![s] = value]

\* CheckOps refused the operations, or their body could not be encoded.
Reject(s) ==
  /\ pc[s] = "idle"
  /\ Return(s, "err")
  /\ UNCHANGED <<smap, timer, tg, tq, sync, serr, serverVars,
                 resChan, job, callbackChan, finished>>

\* A session with a fresh id enters smap.
Register(s) ==
  /\ pc[s] = "idle"
  /\ pc' = [pc EXCEPT ![s] = "registered"]
  /\ smap' = smap \cup {s}
  /\ UNCHANGED <<ret, timer, tg, tq, sync, serr, serverVars,
                 resChan, job, callbackChan, finished>>

StartTimer(s) ==
  /\ pc[s] = "registered"
  /\ pc' = [pc EXCEPT ![s] = "armed"]
  /\ timer' = [timer EXCEPT ![s] = "running"]
  /\ tg' = [tg EXCEPT ![s] = "select"]
  /\ UNCHANGED <<ret, smap, tq, sync, serr, serverVars,
                 resChan, job, callbackChan, finished>>

\* The request is not sent: the caller removes its session, if it is still
\* there, and returns; the timer is not stopped.  When it is the encoding
\* that fails, StartDataOps returns the variable err, which is nil.
SendFails(s, kept) ==
  /\ pc[s] = "armed"
  /\ smap' = kept
  /\ \E value \in IF s \in AsyncOps THEN {"err", "nil"} ELSE {"err"} :
       Return(s, value)
  /\ UNCHANGED <<timer, tg, tq, sync, serr, serverVars,
                 resChan, job, callbackChan, finished>>
SendFailKeeps(s) == SendFails(s, smap)                \* faulty: no delete
SendFail(s) == SendFails(s, smap \ {s})

\* SendMsg has placed the request in the connection's pipe.  It blocks while
\* the pipe is full, so any time may pass before this step.
SendFrom(s, phases) ==
  /\ pc[s] \in phases
  /\ sent' = sent \cup {s}
  /\ IF s \in AsyncOps
     THEN Return(s, "nil")
     ELSE pc' = [pc EXCEPT ![s] = "waiting"] /\ UNCHANGED ret
  /\ UNCHANGED <<smap, timer, tg, tq, sync, serr, replies,
                 resChan, job, callbackChan, finished>>
SendOkBeforeTimer(s) == SendFrom(s, {"registered", "armed"})      \* faulty
SendOk(s) == SendFrom(s, {"armed"})

\* DoDataOps receives from session.sync and returns session.err.
SyncReturn(s) ==
  /\ pc[s] = "waiting"
  /\ sync[s] = 1
  /\ sync' = [sync EXCEPT ![s] = 0]
  /\ Return(s, IF serr[s] THEN "timeout" ELSE "result")
  /\ UNCHANGED <<smap, timer, tg, tq, serr, serverVars,
                 resChan, job, callbackChan, finished>>

-----------------------------------------------------------------------------
(* The data server and the network: a request is answered any number of    *)
(* times, at any time, in any order, or never.  A response that is not     *)
(* good cannot be decoded or has no result.                                *)

Reply(s) ==
  /\ s \in sent
  /\ replies < MaxReplies
  /\ Len(resChan) < ResCap
  /\ replies' = replies + 1
  /\ \E good \in BOOLEAN :
       resChan' = Append(resChan, [sid |-> s, good |-> good])
  /\ UNCHANGED <<callerVars, smap, timer, tg, tq, sync, serr, sent,
                 job, callbackChan, finished>>

-----------------------------------------------------------------------------
(* The timer of a session and its goroutine.                               *)

\* DataOpsWaitTime passes: the runtime puts a value in timer.C.
TimerExpires(s) ==
  /\ timer[s] = "running"
  /\ timer' = [timer EXCEPT ![s] = "fired"]
  /\ UNCHANGED <<callerVars, smap, tg, tq, sync, serr, serverVars,
                 resChan, job, callbackChan, finished>>

\* select: case <-session.tq.  When both cases are ready either is chosen.
TimerQuit(s) ==
  /\ tg[s] = "select"
  /\ tq[s] = 1
  /\ tq' = [tq EXCEPT ![s] = 0]
  /\ tg' = [tg EXCEPT ![s] = "exit"]
  /\ UNCHANGED <<callerVars, smap, timer, sync, serr, serverVars,
                 resChan, job, callbackChan, finished>>

\* select: case <-session.t.C.
TimerTick(s) ==
  /\ tg[s] = "select"
  /\ timer[s] = "fired"
  /\ timer' = [timer EXCEPT ![s] = "stopped"]
  /\ tg' = [tg EXCEPT ![s] = "expired"]
  /\ UNCHANGED <<callerVars, smap, tq, sync, serr, serverVars,
                 resChan, job, callbackChan, finished>>

\* Under smLock the goroutine removes its session; it claims the call if the
\* session was still recorded.
TimerRemoves(s, next) ==
  /\ tg[s] = "expired"
  /\ smap' = smap \ {s}
  /\ tg' = [tg EXCEPT ![s] = next]
  /\ UNCHANGED <<callerVars, timer, tq, sync, serr, serverVars,
                 resChan, job, callbackChan, finished>>
TimerClaimBlind(s) == TimerRemoves(s, "notify")       \* faulty: no test
TimerClaimSilent(s) == TimerRemoves(s, "exit")        \* faulty: no notice
TimerClaim(s) == TimerRemoves(s, IF s \in smap THEN "notify" ELSE "exit")

\* The outcome of call s is passed on: a callback through callbackChan, which
\* blocks while it is full, or a wake-up through sync, with session.err set
\* when `failed'.
PushCallback(s, res) ==
  /\ Len(callbackChan) < CbCap
  /\ callbackChan' = Append(callbackChan, [sid |-> s, res |-> res])
  /\ UNCHANGED <<sync, serr>>

Report(s, res, failed) ==
  \/ s \in AsyncOps /\ PushCallback(s, res)
  \/ /\ s \in SyncOps
     /\ sync[s] = 0
     /\ sync' = [sync EXCEPT ![s] = 1]
     /\ serr' = [serr EXCEPT ![s] = @ \/ failed]
     /\ UNCHANGED callbackChan

\* The claimed timeout is reported.
TimerReports(s, res, failed) ==
  /\ tg[s] = "notify"
  /\ tg' = [tg EXCEPT ![s] = "exit"]
  /\ Report(s, res, failed)
  /\ UNCHANGED <<callerVars, smap, timer, tq, serverVars,
                 resChan, job, finished>>
TimerNotifyNoError(s) == TimerReports(s, "timeout", FALSE)  \* faulty: no err
TimerNotify(s) == TimerReports(s, "timeout", TRUE)

-----------------------------------------------------------------------------
(* The receiving goroutines (recvJob) and callbackJob.                     *)

Receive(w) ==
  /\ job[w] = Idle
  /\ resChan # <<>>
  /\ resChan' = Tail(resChan)
  /\ job' = [job EXCEPT ![w] = [phase |-> "lookup", sid |-> Head(resChan).sid,
                                good |-> Head(resChan).good]]
  /\ UNCHANGED <<callerVars, smap, timer, tg, tq, sync, serr, serverVars,
                 callbackChan, finished>>

\* Under smLock: a response without a recorded session is late and dropped.
RecvDrop(w) ==
  /\ job[w].phase = "lookup"
  /\ job[w].sid \notin smap
  /\ job' = [job EXCEPT ![w] = Idle]
  /\ UNCHANGED <<callerVars, smap, timer, tg, tq, sync, serr, serverVars,
                 resChan, callbackChan, finished>>

StopTimer(s) == timer' = [timer EXCEPT ![s] = IF @ = "running" THEN "stopped" ELSE @]

\* Under smLock: otherwise the goroutine claims the session, stops its timer
\* (a value already in timer.C stays) and tells the timer goroutine to quit.
RecvTakes(w, removed, notices) ==
  LET s == job[w].sid IN
  /\ job[w].phase = "lookup"
  /\ s \in smap
  /\ tq[s] = 0
  /\ smap' = smap \ removed
  /\ StopTimer(s)
  /\ tq' = [tq EXCEPT ![s] = notices]
  /\ job' = [job EXCEPT ![w].phase = "handle"]
  /\ UNCHANGED <<callerVars, tg, sync, serr, serverVars,
                 resChan, callbackChan, finished>>
RecvClaimKeeps(w) == RecvTakes(w, {}, 1)              \* faulty: no delete
RecvClaimNoQuit(w) == RecvTakes(w, {job[w].sid}, 0)   \* faulty: no notice
RecvClaim(w) == RecvTakes(w, {job[w].sid}, 1)

\* A response that cannot be decoded, or has no result, is logged: nobody is
\* notified.
RecvDiscard(w) ==
  /\ job[w].phase = "handle"
  /\ ~job[w].good
  /\ job' = [job EXCEPT ![w] = Idle]
  /\ UNCHANGED <<callerVars, smap, timer, tg, tq, sync, serr, serverVars,
                 resChan, callbackChan, finished>>

RecvFinishes(w) ==
  /\ job[w].phase = "handle"
  /\ job[w].good
  /\ job' = [job EXCEPT ![w] = Idle]
  /\ UNCHANGED <<callerVars, smap, timer, tg, tq, serverVars,
                 resChan, finished>>
RecvNotify(w) == RecvFinishes(w) /\ Report(job[w].sid, "ok", FALSE)

\* callbackJob runs the callbacks one after the other.
RunCallback ==
  /\ callbackChan # <<>>
  /\ callbackChan' = Tail(callbackChan)
  /\ finished' = [finished EXCEPT ![Head(callbackChan).sid] =
                    Append(@, Head(callbackChan).res)]
  /\ UNCHANGED <<callerVars, smap, timer, tg, tq, sync, serr, serverVars,
                 resChan, job>>

-----------------------------------------------------------------------------
Caller(s) == \/ Reject(s) \/ Register(s) \/ StartTimer(s)
             \/ SendFail(s) \/ SendOk(s) \/ SyncReturn(s)

TimerJob(s) == TimerQuit(s) \/ TimerTick(s) \/ TimerClaim(s) \/ TimerNotify(s)

RecvJob(w) == Receive(w) \/ RecvDrop(w) \/ RecvClaim(w)
                \/ RecvDiscard(w) \/ RecvNotify(w)

Next == \/ \E s \in Ops : Caller(s) \/ Reply(s) \/ TimerExpires(s) \/ TimerJob(s)
        \/ \E w \in Workers : RecvJob(w)
        \/ RunCallback

Spec == Init /\ [][Next]_vars

\* Goroutines that can run do run, and time passes.  Nothing is assumed of the
\* server, of the arrival of calls or of the send, which may block for ever.
Fairness ==
  /\ \A s \in Ops : /\ WF_vars(StartTimer(s))
                    /\ WF_vars(SyncReturn(s))
                    /\ WF_vars(TimerExpires(s))
                    /\ WF_vars(TimerJob(s))
  /\ \A w \in Workers : WF_vars(RecvJob(w))
  /\ WF_vars(RunCallback)

FairSpec == Spec /\ Fairness

-----------------------------------------------------------------------------
(* Properties.  A claim on the outcome of call s is held by a recvJob      *)
(* goroutine, by the timer goroutine, by an entry of callbackChan or by    *)
(* the value in the channel sync, until it becomes the call's verdict.     *)

JobHolds(w, s) == job[w].phase = "handle" /\ job[w].sid = s
TimerHolds(s) == tg[s] = "notify"
Queued(s) == \E i \in DOMAIN callbackChan : callbackChan[i].sid = s
Signalled(s) == sync[s] = 1
Claimed(s) == \/ \E w \in Workers : JobHolds(w, s)
              \/ TimerHolds(s) \/ Queued(s) \/ Signalled(s)

Verdict(s) == IF s \in AsyncOps
              THEN IF finished[s] = <<>> THEN "none" ELSE Head(finished[s])
              ELSE IF ret[s] \in {"result", "timeout"} THEN ret[s] ELSE "none"
Settled(s) == Verdict(s) # "none"

\* Only one party ever answers a call: while the session is recorded nobody
\* holds a claim on it, afterwards there is at most one claim, a call with a
\* verdict has none left, and OnFinished runs at most once.  Removal from smap
\* under smLock (recvJob, timer goroutine, sender) is what must ensure it.
OneClaim(s) ==
  /\ s \in smap => ~Claimed(s)
  /\ \A w \in Workers : JobHolds(w, s) =>
       /\ ~TimerHolds(s) /\ ~Queued(s) /\ ~Signalled(s)
       /\ \A v \in Workers : JobHolds(v, s) => v = w
  /\ TimerHolds(s) => ~Queued(s) /\ ~Signalled(s)
  /\ Queued(s) => ~Signalled(s)
  /\ \A i, j \in DOMAIN callbackChan :
       callbackChan[i].sid = s /\ callbackChan[j].sid = s => i = j

OneVerdict(s) ==
  /\ s \in smap \/ Claimed(s) => ~Settled(s)
  /\ s \in AsyncOps => Len(finished[s]) <= 1

OneOutcome == \A s \in Ops : OneClaim(s) /\ OneVerdict(s)

\* The sends on the channels tq and sync of a session, both of capacity 1,
\* never block: not `session.tq <- 0', which recvJob performs while it holds
\* smLock, and not `session.sync <- 0' of recvJob or the timer goroutine.
SignalsNeverBlock ==
  /\ \A w \in Workers :
       /\ job[w].phase = "lookup" /\ job[w].sid \in smap => tq[job[w].sid] = 0
       /\ job[w].phase = "handle" => sync[job[w].sid] = 0
  /\ \A s \in Ops : tg[s] = "notify" => sync[s] = 0

\* recvJob calls session.t.Stop() with no nil check: whenever a response waits
\* or is looked up, the timer of its session has been created.
ReplyFindsTimer ==
  /\ \A i \in DOMAIN resChan : timer[resChan[i].sid] # "off"
  /\ \A w \in Workers : job[w].phase = "lookup" => timer[job[w].sid] # "off"

\* A call that has given up - its request was not sent - is over when it returns,
\* although the code never stops its timer: nobody reports it anything any more,
\* unless its timer had claimed it before, while the send was blocked.  That
\* claim can only be delivered as a timeout, after (or next to) the error.
GaveUp(s) == pc[s] = "returned" /\ s \notin sent

FailedSendIsFinal ==
  [][\A s \in Ops : GaveUp(s) =>
       /\ ~Claimed(s) => ~Claimed(s)' /\ Verdict(s)' = Verdict(s)
       /\ Verdict(s)' \in {"none", "timeout"}]_vars

\* What FailedSendIsFinal rests on.
NoResult(s) ==
  /\ Verdict(s) \in {"none", "timeout"}
  /\ \A i \in DOMAIN callbackChan :
       callbackChan[i].sid = s => callbackChan[i].res = "timeout"

FailedSendHasNoResult == \A s \in Ops : s \notin sent => NoResult(s)

\* What makes the properties above inductive: how far a call has come tells
\* what can exist of it, and responses are to requests that were sent.
Lifecycle(s) ==
  /\ pc[s] = "idle" => /\ s \notin smap /\ s \notin sent
                       /\ ~Claimed(s) /\ tq[s] = 0 /\ ~serr[s]
                       /\ s \in AsyncOps => finished[s] = <<>>
  /\ pc[s] \in {"idle", "registered"} => tg[s] = "off"
  /\ pc[s] # "returned" => ret[s] = "none"
  /\ GaveUp(s) => s \notin smap
  /\ pc[s] = "waiting" => s \in sent /\ s \in SyncOps
  /\ pc[s] = "armed" \/ s \in sent => timer[s] # "off"
  /\ s \in smap => tq[s] = 0 /\ ~serr[s]
  /\ \A w \in Workers : JobHolds(w, s) => ~serr[s]

ResponsesWereAsked ==
  /\ \A i \in DOMAIN resChan : resChan[i].sid \in sent
  /\ \A w \in Workers : job[w] # Idle => job[w].sid \in sent

Inductive == /\ OneOutcome
             /\ \A s \in Ops : Lifecycle(s)
             /\ ResponsesWereAsked
             /\ FailedSendHasNoResult

-----------------------------------------------------------------------------
(* Liveness.                                                               *)

\* recvJob is about to throw away the response with which it has claimed call s.
Discarding(s) == \E w \in Workers : JobHolds(w, s) /\ ~job[w].good

\* Every recorded asynchronous call comes to an end: OnFinished runs, or its
\* sender gave up.  The exception is a call that was claimed with an unusable
\* response: recvJob has stopped its timer and tells nobody.
AsyncCallsFinish ==
  \A s \in AsyncOps :
    []~Discarding(s) => (s \in smap ~> finished[s] # <<>> \/ GaveUp(s))

\* DataOpsWaitTime bounds a synchronous call: once its request is sent,
\* DoDataOps returns - with the same exception, in which it waits for ever.
SyncCallsReturn ==
  \A s \in SyncOps :
    []~Discarding(s) => (s \in sent ~> pc[s] = "returned")

\* No session and no timer goroutine is leaked, whatever the server does.
NothingLeaks ==
  \A s \in Ops : s \in smap ~> s \notin smap /\ tg[s] = "exit"

-----------------------------------------------------------------------------
(* The abstract specification that this module implements.                 *)

\* The claim on call s, if there is one, is the timer's.
ClaimExpired(s) ==
  \/ TimerHolds(s)
  \/ Signalled(s) /\ serr[s]
  \/ \E i \in DOMAIN callbackChan :
       callbackChan[i].sid = s /\ callbackChan[i].res = "timeout"

Stage(s) ==
  IF Settled(s) THEN (IF Verdict(s) = "timeout" THEN "timeout" ELSE "result")
  ELSE IF Claimed(s) THEN (IF ClaimExpired(s) THEN "expired" ELSE "answered")
  ELSE IF s \in smap THEN "open"
  ELSE IF pc[s] = "idle" THEN "idle" ELSE "abandoned"

AbstractCall == [s \in Ops |-> Stage(s)]

Promise == INSTANCE CallPromise WITH call <- AbstractCall

\* Every call goes through the stages of CallPromise: one claim at most, only
\* claims lead to a verdict, and a verdict agrees with its claim and is final.
KeepsPromise == Promise!Spec
=============================================================================
