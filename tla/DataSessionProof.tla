-------------------------- MODULE DataSessionProof --------------------------
(***************************************************************************)
(* Theorems about DataSession, for any number of calls, of receiving       *)
(* goroutines and of responses, and any capacity of the channels.          *)
(***************************************************************************)
EXTENDS DataSession, TLAPS

(***************************************************************************)
(* Type correctness.                                                       *)
(***************************************************************************)
LEMMA TypeInit == Init => TypeOK
BY CapAssumption DEF Init, TypeOK, Busy, Idle, Response, Callback

\* Passing on an outcome keeps the types of the channels it may use.
LEMMA ReportType ==
  ASSUME TypeOK, NEW s \in Ops, NEW res \in Verdicts, NEW failed \in BOOLEAN,
         Report(s, res, failed)
  PROVE  /\ callbackChan' \in Seq(Callback)
         /\ sync' \in [Ops -> 0 .. 1]
         /\ serr' \in [Ops -> BOOLEAN]
<1> USE DEF TypeOK
<1>1. CASE s \in AsyncOps /\ PushCallback(s, res)
  <2>1. [sid |-> s, res |-> res] \in Callback
    BY <1>1 DEF Callback
  <2>2. QED
    BY <1>1, <2>1 DEF PushCallback
<1>2. CASE ~(s \in AsyncOps /\ PushCallback(s, res))
  <2>1. /\ UNCHANGED callbackChan
        /\ sync' = [sync EXCEPT ![s] = 1]
        /\ serr' = [serr EXCEPT ![s] = @ \/ failed]
    BY <1>2 DEF Report
  <2>2. serr[s] \/ failed \in BOOLEAN
    OBVIOUS
  <2>3. QED
    BY <2>1, <2>2
<1>3. QED
  BY <1>1, <1>2

\* Every step keeps the types.
LEMMA TypeStep == TypeOK /\ [Next]_vars => TypeOK'
<1> SUFFICES ASSUME TypeOK, [Next]_vars PROVE TypeOK'
  OBVIOUS
<1> USE DEF TypeOK
<1>1. ASSUME NEW s \in Ops, Reject(s) PROVE TypeOK'
  BY <1>1 DEF Reject, Return, serverVars
<1>2. ASSUME NEW s \in Ops, Register(s) PROVE TypeOK'
  BY <1>2 DEF Register, serverVars
<1>3. ASSUME NEW s \in Ops, StartTimer(s) PROVE TypeOK'
  BY <1>3 DEF StartTimer, serverVars
<1>4. ASSUME NEW s \in Ops, SendFail(s) PROVE TypeOK'
  BY <1>4 DEF SendFail, SendFails, Return, serverVars
<1>5. ASSUME NEW s \in Ops, SendOk(s) PROVE TypeOK'
  BY <1>5 DEF SendOk, SendFrom, Return
<1>6. ASSUME NEW s \in Ops, SyncReturn(s) PROVE TypeOK'
  BY <1>6 DEF SyncReturn, Return, serverVars
<1>7. ASSUME NEW s \in Ops, Reply(s) PROVE TypeOK'
  <2>1. PICK good \in BOOLEAN : resChan' = Append(resChan, [sid |-> s, good |-> good])
    BY <1>7 DEF Reply
  <2>2. resChan' \in Seq(Response)
    BY <2>1 DEF Response
  <2>3. replies' \in 0 .. MaxReplies
    BY <1>7, CapAssumption DEF Reply
  <2>4. QED
    BY <1>7, <2>2, <2>3 DEF Reply, callerVars
<1>8. ASSUME NEW s \in Ops, TimerExpires(s) PROVE TypeOK'
  BY <1>8 DEF TimerExpires, callerVars, serverVars
<1>9. ASSUME NEW s \in Ops, TimerQuit(s) PROVE TypeOK'
  BY <1>9 DEF TimerQuit, callerVars, serverVars
<1>10. ASSUME NEW s \in Ops, TimerTick(s) PROVE TypeOK'
  BY <1>10 DEF TimerTick, callerVars, serverVars
<1>11. ASSUME NEW s \in Ops, TimerClaim(s) PROVE TypeOK'
  BY <1>11 DEF TimerClaim, TimerRemoves, callerVars, serverVars
<1>12. ASSUME NEW s \in Ops, TimerNotify(s) PROVE TypeOK'
  <2>1. tg' \in [Ops -> {"off", "select", "expired", "notify", "exit"}]
    BY <1>12 DEF TimerNotify, TimerReports
  <2>2. Report(s, "timeout", TRUE)
    BY <1>12 DEF TimerNotify, TimerReports
  <2>3. QED
    BY <1>12, <2>1, <2>2, ReportType DEF TimerNotify, TimerReports, callerVars, serverVars, Verdicts
<1>13. ASSUME NEW w \in Workers, Receive(w) PROVE TypeOK'
  <2>1. /\ Head(resChan) \in Response
        /\ resChan' \in Seq(Response)
    BY <1>13 DEF Receive
  <2>2. [phase |-> "lookup", sid |-> Head(resChan).sid,
         good |-> Head(resChan).good] \in Busy
    BY <2>1 DEF Response, Busy
  <2>3. job' \in [Workers -> Busy \cup {Idle}]
    BY <1>13, <2>2 DEF Receive
  <2>4. QED
    BY <1>13, <2>1, <2>3 DEF Receive, callerVars, serverVars
<1>14. ASSUME NEW w \in Workers, RecvDrop(w) PROVE TypeOK'
  BY <1>14 DEF RecvDrop, callerVars, serverVars
<1>15. ASSUME NEW w \in Workers, RecvClaim(w) PROVE TypeOK'
  <2>1. job[w] \in Busy
    BY <1>15 DEF RecvClaim, RecvTakes, Idle
  <2>2. [job[w] EXCEPT !.phase = "handle"] \in Busy
    BY <2>1 DEF Busy
  <2>3. job' \in [Workers -> Busy \cup {Idle}]
    BY <1>15, <2>2 DEF RecvClaim, RecvTakes
  <2>4. job[w].sid \in Ops
    BY <2>1 DEF Busy
  <2>5. QED
    BY <1>15, <2>3, <2>4 DEF RecvClaim, RecvTakes, StopTimer, callerVars, serverVars
<1>16. ASSUME NEW w \in Workers, RecvDiscard(w) PROVE TypeOK'
  BY <1>16 DEF RecvDiscard, callerVars, serverVars
<1>17. ASSUME NEW w \in Workers, RecvNotify(w) PROVE TypeOK'
  <2>1. job[w].sid \in Ops
    BY <1>17 DEF RecvNotify, RecvFinishes, Busy, Idle
  <2>2. Report(job[w].sid, "ok", FALSE)
    BY <1>17 DEF RecvNotify
  <2>3. job' \in [Workers -> Busy \cup {Idle}]
    BY <1>17 DEF RecvNotify, RecvFinishes
  <2>4. QED
    BY <1>17, <2>1, <2>2, <2>3, ReportType
       DEF RecvNotify, RecvFinishes, callerVars, serverVars, Verdicts
<1>18. ASSUME RunCallback PROVE TypeOK'
  <2>1. /\ Head(callbackChan) \in Callback
        /\ callbackChan' \in Seq(Callback)
    BY <1>18 DEF RunCallback
  <2>2. /\ Head(callbackChan).sid \in AsyncOps
        /\ Head(callbackChan).res \in Verdicts
    BY <2>1 DEF Callback
  <2>3. finished' \in [AsyncOps -> Seq(Verdicts)]
    BY <1>18, <2>2 DEF RunCallback
  <2>4. QED
    BY <1>18, <2>1, <2>3 DEF RunCallback, callerVars, serverVars
<1>19. ASSUME UNCHANGED vars PROVE TypeOK'
  BY <1>19 DEF vars, Busy
<1>20. QED
  BY <1>1, <1>2, <1>3, <1>4, <1>5, <1>6, <1>7, <1>8, <1>9, <1>10, <1>11, <1>12,
     <1>13, <1>14, <1>15, <1>16, <1>17, <1>18, <1>19
     DEF Next, Caller, TimerJob, RecvJob

\* Every variable keeps its type: in particular the channels tq and sync of a
\* session hold at most one value and OnFinished is only called for
\* asynchronous calls.
THEOREM TypeCorrect == Spec => []TypeOK
BY TypeInit, TypeStep, PTL DEF Spec

(***************************************************************************)
(* The inductive invariant: one lemma per group of steps, and for each     *)
(* step one case per conjunct.                                             *)
(***************************************************************************)

\* A claim excludes every other one, and the record in smap.
LEMMA ClaimExcludes ==
  ASSUME NEW s \in Ops, OneClaim(s)
  PROVE  /\ Signalled(s) => /\ s \notin smap /\ ~TimerHolds(s) /\ ~Queued(s)
                            /\ \A w \in Workers : ~JobHolds(w, s)
         /\ Queued(s) => /\ s \notin smap /\ ~TimerHolds(s) /\ ~Signalled(s)
                         /\ \A w \in Workers : ~JobHolds(w, s)
BY DEF OneClaim, Claimed

USE DEF Claimed, JobHolds, TimerHolds, Queued, Signalled

\* In the first states no call has begun, and nothing of it exists.
LEMMA InductiveInit == Init => Inductive
BY DEF Init, Inductive, OneOutcome, OneClaim, OneVerdict, Lifecycle, GaveUp,
       ResponsesWereAsked, FailedSendHasNoResult, NoResult, Settled, Verdict, Idle

\* The steps of a caller.
LEMMA CallerPreserves ==
  ASSUME TypeOK, Inductive, NEW s \in Ops, Caller(s)
  PROVE  Inductive'
<1> USE DEF TypeOK, Inductive
<1>1. ASSUME Reject(s) PROVE Inductive'
  <2> USE DEF Reject, Return, callerVars, serverVars
  <2>1. OneOutcome'
    BY <1>1 DEF OneOutcome, OneClaim, OneVerdict, Lifecycle, GaveUp, Settled, Verdict
  <2>2. \A t \in Ops : Lifecycle(t)'
    BY <1>1 DEF OneOutcome, OneClaim, OneVerdict, Lifecycle, GaveUp, Settled, Verdict
  <2>3. ResponsesWereAsked'
    BY <1>1 DEF ResponsesWereAsked, Lifecycle, GaveUp, Busy, Idle
  <2>4. FailedSendHasNoResult'
    BY <1>1 DEF FailedSendHasNoResult, NoResult, Verdict, Lifecycle, GaveUp
  <2>5. QED
    BY <2>1, <2>2, <2>3, <2>4
<1>2. ASSUME Register(s) PROVE Inductive'
  <2> USE DEF Register, callerVars, serverVars
  <2>1. OneOutcome'
    BY <1>2 DEF OneOutcome, OneClaim, OneVerdict, Lifecycle, GaveUp, Settled, Verdict
  <2>2. \A t \in Ops : Lifecycle(t)'
    BY <1>2 DEF OneOutcome, OneClaim, OneVerdict, Lifecycle, GaveUp, Settled, Verdict
  <2>3. ResponsesWereAsked'
    BY <1>2 DEF ResponsesWereAsked, Lifecycle, GaveUp, Busy, Idle
  <2>4. FailedSendHasNoResult'
    BY <1>2 DEF FailedSendHasNoResult, NoResult, Verdict, Lifecycle, GaveUp
  <2>5. QED
    BY <2>1, <2>2, <2>3, <2>4
<1>3. ASSUME StartTimer(s) PROVE Inductive'
  <2> USE DEF StartTimer, callerVars, serverVars
  <2>1. OneOutcome'
    BY <1>3 DEF OneOutcome, OneClaim, OneVerdict, Lifecycle, GaveUp, Settled, Verdict
  <2>2. \A t \in Ops : Lifecycle(t)'
    BY <1>3 DEF OneOutcome, OneClaim, OneVerdict, Lifecycle, GaveUp, Settled, Verdict
  <2>3. ResponsesWereAsked'
    BY <1>3 DEF ResponsesWereAsked, Lifecycle, GaveUp, Busy, Idle
  <2>4. FailedSendHasNoResult'
    BY <1>3 DEF FailedSendHasNoResult, NoResult, Verdict, Lifecycle, GaveUp
  <2>5. QED
    BY <2>1, <2>2, <2>3, <2>4
<1>4. ASSUME SendFail(s) PROVE Inductive'
  <2> USE DEF SendFail, SendFails, Return, callerVars, serverVars
  <2>1. OneOutcome'
    BY <1>4 DEF OneOutcome, OneClaim, OneVerdict, Lifecycle, GaveUp, Settled, Verdict
  <2>2. \A t \in Ops : Lifecycle(t)'
    BY <1>4 DEF OneOutcome, OneClaim, OneVerdict, Lifecycle, GaveUp, Settled, Verdict
  <2>3. ResponsesWereAsked'
    BY <1>4 DEF ResponsesWereAsked, Lifecycle, GaveUp, Busy, Idle
  <2>4. FailedSendHasNoResult'
    BY <1>4 DEF FailedSendHasNoResult, NoResult, Verdict, Lifecycle, GaveUp
  <2>5. QED
    BY <2>1, <2>2, <2>3, <2>4
<1>5. ASSUME SendOk(s) PROVE Inductive'
  <2> USE DEF SendOk, SendFrom, Return, callerVars, serverVars
  <2>1. OneOutcome'
    BY <1>5 DEF OneOutcome, OneClaim, OneVerdict, Lifecycle, GaveUp, Settled, Verdict
  <2>2. \A t \in Ops : Lifecycle(t)'
    BY <1>5 DEF Lifecycle, GaveUp, Settled, Verdict, Ops
  <2>3. ResponsesWereAsked'
    BY <1>5 DEF ResponsesWereAsked, Lifecycle, GaveUp, Busy, Idle
  <2>4. FailedSendHasNoResult'
    BY <1>5 DEF FailedSendHasNoResult, NoResult, Verdict, Lifecycle, GaveUp
  <2>5. QED
    BY <2>1, <2>2, <2>3, <2>4
<1>6. ASSUME SyncReturn(s) PROVE Inductive'
  <2> USE DEF SyncReturn, Return, callerVars, serverVars
  <2>1. \A t \in Ops : OneClaim(t)'
    BY <1>6 DEF OneOutcome, OneClaim
  <2>2. ~Claimed(s)' /\ s \notin smap /\ s \in sent
    <3>1. OneClaim(s) /\ Lifecycle(s) /\ Signalled(s)
      BY <1>6 DEF OneOutcome
    <3>2. s \notin smap /\ s \in sent
      BY <1>6, <3>1 DEF OneClaim, Lifecycle, GaveUp
    <3>3. ~TimerHolds(s) /\ ~Queued(s) /\ \A w \in Workers : ~JobHolds(w, s)
      BY <3>1, ClaimExcludes
    <3>4. sync'[s] = 0
      BY <1>6
    <3>5. QED
      BY <1>6, <3>2, <3>3, <3>4
  <2>3. \A t \in Ops : OneVerdict(t)'
    BY <1>6, <2>2 DEF OneOutcome, OneVerdict, Settled, Verdict
  <2>4. OneOutcome'
    BY <2>1, <2>3 DEF OneOutcome
  <2>5. \A t \in Ops : Lifecycle(t)'
    BY <1>6, <2>2 DEF Lifecycle, GaveUp
  <2>6. ResponsesWereAsked'
    BY <1>6 DEF ResponsesWereAsked
  <2>7. FailedSendHasNoResult'
    BY <1>6, <2>2 DEF FailedSendHasNoResult, NoResult, Verdict
  <2>8. QED
    BY <2>4, <2>5, <2>6, <2>7
<1>7. QED
  BY <1>1, <1>2, <1>3, <1>4, <1>5, <1>6 DEF Caller

\* The server answers, or time passes.
LEMMA WorldPreserves ==
  ASSUME TypeOK, Inductive, NEW s \in Ops, Reply(s) \/ TimerExpires(s)
  PROVE  Inductive'
<1> USE DEF TypeOK, Inductive
<1>1. ASSUME Reply(s) PROVE Inductive'
  <2> USE DEF Reply, callerVars, serverVars
  <2>1. OneOutcome'
    BY <1>1 DEF OneOutcome, OneClaim, OneVerdict, Lifecycle, GaveUp, Settled, Verdict
  <2>2. \A t \in Ops : Lifecycle(t)'
    BY <1>1 DEF OneOutcome, OneClaim, OneVerdict, Lifecycle, GaveUp, Settled, Verdict
  <2>3. ResponsesWereAsked'
    BY <1>1 DEF ResponsesWereAsked, Lifecycle, GaveUp, Busy, Idle
  <2>4. FailedSendHasNoResult'
    BY <1>1 DEF FailedSendHasNoResult, NoResult, Verdict, Lifecycle, GaveUp
  <2>5. QED
    BY <2>1, <2>2, <2>3, <2>4
<1>2. ASSUME TimerExpires(s) PROVE Inductive'
  <2> USE DEF TimerExpires, callerVars, serverVars
  <2>1. OneOutcome'
    BY <1>2 DEF OneOutcome, OneClaim, OneVerdict, Lifecycle, GaveUp, Settled, Verdict
  <2>2. \A t \in Ops : Lifecycle(t)'
    BY <1>2 DEF OneOutcome, OneClaim, OneVerdict, Lifecycle, GaveUp, Settled, Verdict
  <2>3. ResponsesWereAsked'
    BY <1>2 DEF ResponsesWereAsked, Lifecycle, GaveUp, Busy, Idle
  <2>4. FailedSendHasNoResult'
    BY <1>2 DEF FailedSendHasNoResult, NoResult, Verdict, Lifecycle, GaveUp
  <2>5. QED
    BY <2>1, <2>2, <2>3, <2>4
<1>3. QED
  BY <1>1, <1>2

\* The steps of a timer goroutine.
LEMMA TimerPreserves ==
  ASSUME TypeOK, Inductive, NEW s \in Ops, TimerJob(s)
  PROVE  Inductive'
<1> USE DEF TypeOK, Inductive
<1>1. ASSUME TimerQuit(s) PROVE Inductive'
  <2> USE DEF TimerQuit, callerVars, serverVars
  <2>1. OneOutcome'
    BY <1>1 DEF OneOutcome, OneClaim, OneVerdict, Lifecycle, GaveUp, Settled, Verdict
  <2>2. \A t \in Ops : Lifecycle(t)'
    BY <1>1 DEF OneOutcome, OneClaim, OneVerdict, Lifecycle, GaveUp, Settled, Verdict
  <2>3. ResponsesWereAsked'
    BY <1>1 DEF ResponsesWereAsked, Lifecycle, GaveUp, Busy, Idle
  <2>4. FailedSendHasNoResult'
    BY <1>1 DEF FailedSendHasNoResult, NoResult, Verdict, Lifecycle, GaveUp
  <2>5. QED
    BY <2>1, <2>2, <2>3, <2>4
<1>2. ASSUME TimerTick(s) PROVE Inductive'
  <2> USE DEF TimerTick, callerVars, serverVars
  <2>1. OneOutcome'
    BY <1>2 DEF OneOutcome, OneClaim, OneVerdict, Lifecycle, GaveUp, Settled, Verdict
  <2>2. \A t \in Ops : Lifecycle(t)'
    BY <1>2 DEF OneOutcome, OneClaim, OneVerdict, Lifecycle, GaveUp, Settled, Verdict
  <2>3. ResponsesWereAsked'
    BY <1>2 DEF ResponsesWereAsked, Lifecycle, GaveUp, Busy, Idle
  <2>4. FailedSendHasNoResult'
    BY <1>2 DEF FailedSendHasNoResult, NoResult, Verdict, Lifecycle, GaveUp
  <2>5. QED
    BY <2>1, <2>2, <2>3, <2>4
<1>3. ASSUME TimerClaim(s) PROVE Inductive'
  <2> USE DEF TimerClaim, TimerRemoves, callerVars, serverVars
  <2>1. OneOutcome'
    BY <1>3 DEF OneOutcome, OneClaim, OneVerdict, Lifecycle, GaveUp, Settled, Verdict
  <2>2. \A t \in Ops : Lifecycle(t)'
    BY <1>3 DEF OneOutcome, OneClaim, OneVerdict, Lifecycle, GaveUp, Settled, Verdict
  <2>3. ResponsesWereAsked'
    BY <1>3 DEF ResponsesWereAsked, Lifecycle, GaveUp, Busy, Idle
  <2>4. FailedSendHasNoResult'
    BY <1>3 DEF FailedSendHasNoResult, NoResult, Verdict, Lifecycle, GaveUp
  <2>5. QED
    BY <2>1, <2>2, <2>3, <2>4
<1>4. ASSUME TimerNotify(s) PROVE Inductive'
  <2> USE DEF TimerNotify, TimerReports, callerVars, serverVars
  <2>1. CASE s \in AsyncOps /\ PushCallback(s, "timeout")
    <3>1. /\ callbackChan' = Append(callbackChan, [sid |-> s, res |-> "timeout"])
          /\ UNCHANGED <<sync, serr>>
      BY <2>1 DEF PushCallback
    <3>2. OneOutcome'
      BY <1>4, <3>1 DEF OneOutcome, OneClaim, OneVerdict, Settled, Verdict
    <3>3. \A t \in Ops : Lifecycle(t)'
      BY <1>4, <3>1 DEF Lifecycle, GaveUp
    <3>4. ResponsesWereAsked'
      BY <1>4, <3>1 DEF ResponsesWereAsked
    <3>5. FailedSendHasNoResult'
      BY <1>4, <3>1 DEF FailedSendHasNoResult, NoResult, Verdict
    <3>6. QED
      BY <3>2, <3>3, <3>4, <3>5
  <2>2. CASE ~(s \in AsyncOps /\ PushCallback(s, "timeout"))
    <3>1. /\ UNCHANGED callbackChan
          /\ sync' = [sync EXCEPT ![s] = 1]
          /\ serr' = [serr EXCEPT ![s] = @ \/ TRUE]
      BY <1>4, <2>2 DEF Report
    <3>2. OneOutcome'
      BY <1>4, <3>1 DEF OneOutcome, OneClaim, OneVerdict, Settled, Verdict
    <3>3. \A t \in Ops : Lifecycle(t)'
      BY <1>4, <3>1 DEF Lifecycle, GaveUp, OneOutcome, OneClaim
    <3>4. ResponsesWereAsked'
      BY <1>4, <3>1 DEF ResponsesWereAsked
    <3>5. FailedSendHasNoResult'
      BY <1>4, <3>1 DEF FailedSendHasNoResult, NoResult, Verdict
    <3>6. QED
      BY <3>2, <3>3, <3>4, <3>5
  <2>3. QED
    BY <2>1, <2>2
<1>5. QED
  BY <1>1, <1>2, <1>3, <1>4 DEF TimerJob

\* The steps of a receiving goroutine.
LEMMA ReceiverPreserves ==
  ASSUME TypeOK, Inductive, NEW w \in Workers, RecvJob(w)
  PROVE  Inductive'
<1> USE DEF TypeOK, Inductive
<1>1. ASSUME Receive(w) PROVE Inductive'
  <2> USE DEF Receive, callerVars, serverVars
  <2>1. /\ Head(resChan) \in Response
        /\ Head(resChan) = resChan[1]
        /\ \A i \in DOMAIN resChan' : i + 1 \in DOMAIN resChan /\ resChan'[i] = resChan[i + 1]
    BY <1>1
  <2>2. OneOutcome'
    BY <1>1 DEF OneOutcome, OneClaim, OneVerdict, Settled, Verdict, Idle
  <2>3. \A t \in Ops : Lifecycle(t)'
    BY <1>1 DEF Lifecycle, GaveUp, Idle
  <2>4. ResponsesWereAsked'
    BY <1>1, <2>1 DEF ResponsesWereAsked, Idle
  <2>5. FailedSendHasNoResult'
    BY <1>1 DEF FailedSendHasNoResult, NoResult, Verdict
  <2>6. QED
    BY <2>2, <2>3, <2>4, <2>5
<1>2. ASSUME RecvDrop(w) PROVE Inductive'
  <2> USE DEF RecvDrop, callerVars, serverVars
  <2>1. \A v \in Workers : \A t \in Ops : JobHolds(v, t)' => JobHolds(v, t)
    BY <1>2 DEF Idle
  <2> HIDE DEF JobHolds
  <2>2. OneOutcome'
    BY <1>2, <2>1 DEF OneOutcome, OneClaim, OneVerdict, Settled, Verdict
  <2>3. \A t \in Ops : Lifecycle(t)'
    BY <1>2, <2>1 DEF Lifecycle, GaveUp
  <2>4. ResponsesWereAsked'
    BY <1>2 DEF ResponsesWereAsked, Idle
  <2>5. FailedSendHasNoResult'
    BY <1>2 DEF FailedSendHasNoResult, NoResult, Verdict
  <2>6. QED
    BY <2>2, <2>3, <2>4, <2>5
<1>3. ASSUME RecvClaim(w) PROVE Inductive'
  <2> USE DEF RecvClaim, RecvTakes, StopTimer, callerVars, serverVars
  <2>1. OneOutcome'
    BY <1>3 DEF OneOutcome, OneClaim, OneVerdict, Lifecycle, GaveUp, Settled, Verdict
  <2>2. \A t \in Ops : Lifecycle(t)'
    BY <1>3 DEF OneOutcome, OneClaim, OneVerdict, Lifecycle, GaveUp, Settled, Verdict
  <2>3. ResponsesWereAsked'
    BY <1>3 DEF ResponsesWereAsked, Lifecycle, GaveUp, Busy, Idle
  <2>4. FailedSendHasNoResult'
    BY <1>3 DEF FailedSendHasNoResult, NoResult, Verdict, Lifecycle, GaveUp
  <2>5. QED
    BY <2>1, <2>2, <2>3, <2>4
<1>4. ASSUME RecvDiscard(w) PROVE Inductive'
  <2> USE DEF RecvDiscard, callerVars, serverVars
  <2>1. \A v \in Workers : \A t \in Ops : JobHolds(v, t)' => JobHolds(v, t)
    BY <1>4 DEF Idle
  <2> HIDE DEF JobHolds
  <2>2. OneOutcome'
    BY <1>4, <2>1 DEF OneOutcome, OneClaim, OneVerdict, Settled, Verdict
  <2>3. \A t \in Ops : Lifecycle(t)'
    BY <1>4, <2>1 DEF Lifecycle, GaveUp
  <2>4. ResponsesWereAsked'
    BY <1>4 DEF ResponsesWereAsked, Idle
  <2>5. FailedSendHasNoResult'
    BY <1>4 DEF FailedSendHasNoResult, NoResult, Verdict
  <2>6. QED
    BY <2>2, <2>3, <2>4, <2>5
<1>5. ASSUME RecvNotify(w) PROVE Inductive'
  <2> USE DEF RecvNotify, RecvFinishes, callerVars, serverVars
  <2>0. job[w].sid \in Ops /\ job[w].sid \in sent /\ job[w] # Idle
    BY <1>5 DEF ResponsesWereAsked, Busy, Idle
  <2>9. /\ \A v \in Workers : \A t \in Ops : JobHolds(v, t)' <=> v # w /\ JobHolds(v, t)
        /\ JobHolds(w, job[w].sid)
    BY <1>5 DEF Idle
  <2> HIDE DEF JobHolds
  <2>1. CASE job[w].sid \in AsyncOps /\ PushCallback(job[w].sid, "ok")
    <3>1. /\ callbackChan' = Append(callbackChan, [sid |-> job[w].sid, res |-> "ok"])
          /\ UNCHANGED <<sync, serr>>
      BY <2>1 DEF PushCallback
    <3>2. OneOutcome'
      BY <1>5, <2>0, <2>9, <3>1 DEF OneOutcome, OneClaim, OneVerdict, Settled, Verdict
    <3>3. \A t \in Ops : Lifecycle(t)'
      BY <1>5, <2>0, <2>9, <3>1 DEF Lifecycle, GaveUp
    <3>4. ResponsesWereAsked'
      BY <1>5, <2>0, <2>9, <3>1 DEF ResponsesWereAsked, Idle
    <3>5. FailedSendHasNoResult'
      BY <1>5, <2>0, <2>9, <3>1 DEF FailedSendHasNoResult, NoResult, Verdict
    <3>6. QED
      BY <3>2, <3>3, <3>4, <3>5
  <2>2. CASE ~(job[w].sid \in AsyncOps /\ PushCallback(job[w].sid, "ok"))
    <3>1. /\ UNCHANGED callbackChan
          /\ sync' = [sync EXCEPT ![job[w].sid] = 1]
          /\ serr' = [serr EXCEPT ![job[w].sid] = @ \/ FALSE]
      BY <1>5, <2>2 DEF Report
    <3>2. OneOutcome'
      BY <1>5, <2>0, <2>9, <3>1 DEF OneOutcome, OneClaim, OneVerdict, Settled, Verdict
    <3>3. \A t \in Ops : Lifecycle(t)'
      BY <1>5, <2>0, <2>9, <3>1 DEF Lifecycle, GaveUp, OneOutcome, OneClaim
    <3>4. ResponsesWereAsked'
      BY <1>5, <2>0, <2>9, <3>1 DEF ResponsesWereAsked, Idle
    <3>5. FailedSendHasNoResult'
      BY <1>5, <2>0, <2>9, <3>1 DEF FailedSendHasNoResult, NoResult, Verdict
    <3>6. QED
      BY <3>2, <3>3, <3>4, <3>5
  <2>3. QED
    BY <2>1, <2>2
<1>6. QED
  BY <1>1, <1>2, <1>3, <1>4, <1>5 DEF RecvJob

\* callbackJob runs a callback: the claim at the head of the queue becomes the
\* verdict of its call.
LEMMA CallbackPreserves ==
  ASSUME TypeOK, Inductive, RunCallback
  PROVE  Inductive'
<1> USE DEF TypeOK, Inductive, RunCallback, callerVars, serverVars
<1> DEFINE c == Head(callbackChan)
<1>1. /\ c \in Callback
      /\ c = callbackChan[1] /\ 1 \in DOMAIN callbackChan
      /\ \A i \in DOMAIN callbackChan' :
           i + 1 \in DOMAIN callbackChan /\ callbackChan'[i] = callbackChan[i + 1]
  OBVIOUS
<1>2. c.sid \in AsyncOps /\ c.sid \in Ops /\ c.res \in Verdicts
  BY <1>1 DEF Callback, Ops
<1>3. finished[c.sid] = <<>>
  <2>1. ~Settled(c.sid)
    BY <1>1, <1>2 DEF OneOutcome, OneVerdict
  <2>2. finished[c.sid] \in Seq(Verdicts)
    BY <1>2
  <2>3. finished[c.sid] # <<>> => Head(finished[c.sid]) \in Verdicts
    BY <2>2
  <2>4. QED
    BY <1>2, <2>1, <2>3 DEF Settled, Verdict, Verdicts
<1>4. finished' = [finished EXCEPT ![c.sid] = <<c.res>>]
  BY <1>2, <1>3
<1>5. \A t \in Ops : ~Queued(t) => ~Queued(t)'
  BY <1>1
<1>6. ASSUME NEW t \in Ops, t = c.sid PROVE ~Queued(t)'
  <2> SUFFICES ASSUME Queued(t)' PROVE FALSE
    OBVIOUS
  <2>1. PICK i \in DOMAIN callbackChan' : callbackChan'[i].sid = t
    OBVIOUS
  <2>2. i + 1 \in DOMAIN callbackChan /\ callbackChan[i + 1].sid = t /\ i + 1 # 1
    BY <1>1, <2>1
  <2>3. \A j, k \in DOMAIN callbackChan :
           callbackChan[j].sid = t /\ callbackChan[k].sid = t => j = k
    BY DEF OneOutcome, OneClaim
  <2>4. QED
    BY <1>1, <1>6, <2>2, <2>3
<1>7. OneOutcome'
  <2>1. \A t \in Ops : OneClaim(t)'
    BY <1>1, <1>5 DEF OneOutcome, OneClaim
  <2>2. \A t \in Ops : OneVerdict(t)'
    <3> SUFFICES ASSUME NEW t \in Ops PROVE OneVerdict(t)'
      OBVIOUS
    <3>1. CASE t = c.sid
      <4>1. Queued(t) /\ OneClaim(t)
        BY <1>1, <1>2, <3>1 DEF OneOutcome
      <4>2. /\ ~TimerHolds(t) /\ ~Signalled(t) /\ t \notin smap
            /\ \A w \in Workers : ~JobHolds(w, t)
        BY <4>1, ClaimExcludes
      <4>3. ~(t \in smap \/ Claimed(t))'
        BY <1>6, <3>1, <4>2
      <4>4. finished'[t] = <<c.res>>
        BY <1>2, <1>4, <3>1
      <4>5. Len(finished'[t]) = 1
        <5>1. Len(<<c.res>>) = 1
          OBVIOUS
        <5>2. QED
          BY <4>4, <5>1, Zenon
      <4>6. (t \in AsyncOps => Len(finished[t]) <= 1)'
        <5> HIDE DEF RunCallback, TypeOK, c
        <5>1. QED
          BY <4>5
      <4>7. QED
        BY <4>3, <4>6 DEF OneVerdict
    <3>2. CASE t # c.sid
      <4>1. t \in AsyncOps => finished'[t] = finished[t]
        BY <1>2, <1>4, <3>2
      <4>2. Settled(t)' <=> Settled(t)
        BY <4>1 DEF Settled, Verdict
      <4>3. Claimed(t)' => Claimed(t)
        BY <1>5
      <4>4. QED
        BY <4>1, <4>2, <4>3 DEF OneOutcome, OneVerdict
    <3>3. QED
      BY <3>1, <3>2
  <2>3. QED
    BY <2>1, <2>2 DEF OneOutcome
<1>8. \A t \in Ops : Lifecycle(t)'
  BY <1>1, <1>2, <1>4, <1>5 DEF Lifecycle, GaveUp
<1>9. ResponsesWereAsked'
  BY DEF ResponsesWereAsked
<1>10. FailedSendHasNoResult'
  BY <1>1, <1>2, <1>4 DEF FailedSendHasNoResult, NoResult, Verdict
<1>11. QED
  BY <1>7, <1>8, <1>9, <1>10

\* Every step keeps the invariant, one lemma per group of actions.
LEMMA InductiveStep == TypeOK /\ Inductive /\ [Next]_vars => Inductive'
<1> SUFFICES ASSUME TypeOK, Inductive, [Next]_vars PROVE Inductive'
  OBVIOUS
<1>1. CASE Next
  BY <1>1, CallerPreserves, WorldPreserves, TimerPreserves, ReceiverPreserves,
     CallbackPreserves DEF Next
<1>2. CASE UNCHANGED vars
  BY <1>2 DEF vars, Inductive, OneOutcome, OneClaim, OneVerdict, Lifecycle, GaveUp,
              ResponsesWereAsked, FailedSendHasNoResult, NoResult, Settled, Verdict
<1>3. QED
  BY <1>1, <1>2

\* The invariant holds in every reachable state.
THEOREM InductiveCorrect == Spec => []Inductive
BY TypeCorrect, InductiveInit, InductiveStep, PTL DEF Spec

(***************************************************************************)
(* The properties.                                                         *)
(***************************************************************************)

\* At most one party answers a call, whatever the interleaving of responses,
\* timers and failed sends, and OnFinished runs at most once.
THEOREM OneOutcomeCorrect == Spec => []OneOutcome
BY InductiveCorrect, PTL DEF Inductive

\* The sends on tq (under smLock) and sync never block.
THEOREM SignalsNeverBlockCorrect == Spec => []SignalsNeverBlock
<1>1. TypeOK /\ Inductive => SignalsNeverBlock
  <2> SUFFICES ASSUME TypeOK, Inductive PROVE SignalsNeverBlock
    OBVIOUS
  <2>1. \A w \in Workers : job[w].phase \in {"lookup", "handle"} => job[w].sid \in Ops
    BY DEF TypeOK, Busy, Idle
  <2>2. QED
    BY <2>1 DEF TypeOK, Inductive, SignalsNeverBlock, OneOutcome, OneClaim, Lifecycle, GaveUp
<1>2. QED
  BY <1>1, TypeCorrect, InductiveCorrect, PTL

\* A response always finds the timer of its session created.
THEOREM ReplyFindsTimerCorrect == Spec => []ReplyFindsTimer
<1>1. TypeOK /\ Inductive => ReplyFindsTimer
  BY DEF TypeOK, Inductive, ReplyFindsTimer, ResponsesWereAsked, Lifecycle, GaveUp, Idle
<1>2. QED
  BY <1>1, TypeCorrect, InductiveCorrect, PTL

(***************************************************************************)
(* Refinement: DataSession implements CallPromise.  Every step moves at    *)
(* most one call, and moves it along the stages of CallPromise.            *)
(***************************************************************************)

HIDE DEF Claimed, JobHolds, TimerHolds, Queued, Signalled

Same(t) == /\ Verdict(t)' = Verdict(t)
           /\ Claimed(t)' <=> Claimed(t)
           /\ ClaimExpired(t)' <=> ClaimExpired(t)
           /\ (t \in smap)' <=> t \in smap
           /\ (pc[t] = "idle")' <=> pc[t] = "idle"

\* A call of which nothing changes stays at its stage.
LEMMA SameStage ==
  ASSUME NEW t \in Ops, Same(t)
  PROVE  Stage(t)' = Stage(t)
BY DEF Same, Stage, Settled

\* A step that keeps all stages stutters in the abstract specification.
LEMMA StutterStep ==
  ASSUME \A t \in Ops : Stage(t)' = Stage(t)
  PROVE  UNCHANGED AbstractCall
BY DEF AbstractCall

\* A step that changes one stage moves that call in the abstract specification.
LEMMA MoveStep ==
  ASSUME NEW s \in Ops, NEW from, NEW to,
         Stage(s) = from, Stage(s)' = to,
         \A t \in Ops \ {s} : Stage(t)' = Stage(t)
  PROVE  Promise!Move(s, from, to)
<1>1. AbstractCall[s] = from
  BY DEF AbstractCall
<1>2. AbstractCall' = [t \in Ops |-> Stage(t)']
  BY DEF AbstractCall
<1>3. AbstractCall' = [AbstractCall EXCEPT ![s] = to]
  BY <1>2 DEF AbstractCall
<1>4. QED
  BY <1>1, <1>3 DEF Promise!Move

\* The claim a receiving goroutine holds is not the timer's.
LEMMA JobClaim ==
  ASSUME Inductive, NEW s \in Ops, NEW w \in Workers, JobHolds(w, s)
  PROVE  /\ Stage(s) = "answered"
         /\ Claimed(s) /\ ~Settled(s) /\ ~ClaimExpired(s) /\ s \notin smap
         /\ pc[s] # "idle" /\ ~serr[s]
         /\ ~TimerHolds(s) /\ ~Queued(s) /\ ~Signalled(s)
         /\ \A v \in Workers : JobHolds(v, s) => v = w
<1>1. Claimed(s)
  BY DEF Claimed
<1>2. OneClaim(s) /\ OneVerdict(s) /\ Lifecycle(s)
  BY DEF Inductive, OneOutcome
<1>3. /\ ~Settled(s) /\ s \notin smap /\ pc[s] # "idle" /\ ~serr[s]
      /\ ~TimerHolds(s) /\ ~Queued(s) /\ ~Signalled(s)
      /\ \A v \in Workers : JobHolds(v, s) => v = w
  BY <1>1, <1>2 DEF OneClaim, OneVerdict, Lifecycle, GaveUp
<1>4. ~ClaimExpired(s)
  BY <1>3 DEF ClaimExpired, Queued
<1>5. QED
  BY <1>1, <1>3, <1>4 DEF Stage

\* A recorded session is an open call.
LEMMA RecordedIsOpen ==
  ASSUME Inductive, NEW s \in Ops, s \in smap
  PROVE  /\ Stage(s) = "open"
         /\ ~Claimed(s) /\ ~Settled(s) /\ ~serr[s] /\ pc[s] # "idle"
BY DEF Inductive, OneOutcome, OneClaim, OneVerdict, Lifecycle, GaveUp, Stage

\* Steps that touch no claim, verdict or record.
LEMMA QuietStep ==
  ASSUME TypeOK, Inductive,
         \/ \E s \in Ops : \/ StartTimer(s) \/ SendOk(s) \/ Reply(s)
                          \/ TimerExpires(s) \/ TimerQuit(s) \/ TimerTick(s)
         \/ \E w \in Workers : Receive(w) \/ RecvDrop(w)
         \/ UNCHANGED vars
  PROVE  UNCHANGED AbstractCall
<1> SUFFICES ASSUME NEW t \in Ops PROVE Same(t)
  BY SameStage, StutterStep
<1> USE DEF TypeOK, Same, Verdict, Claimed, ClaimExpired, TimerHolds, JobHolds,
            Queued, Signalled, callerVars, serverVars
<1>1. ASSUME NEW s \in Ops, StartTimer(s) PROVE Same(t)
  BY <1>1 DEF StartTimer, Inductive, Lifecycle, GaveUp
<1>2. ASSUME NEW s \in Ops, SendOk(s) PROVE Same(t)
  BY <1>2 DEF SendOk, SendFrom, Return, Inductive, Lifecycle, GaveUp
<1>3. ASSUME NEW s \in Ops, Reply(s) PROVE Same(t)
  BY <1>3 DEF Reply
<1>4. ASSUME NEW s \in Ops, TimerExpires(s) PROVE Same(t)
  BY <1>4 DEF TimerExpires
<1>5. ASSUME NEW s \in Ops, TimerQuit(s) PROVE Same(t)
  BY <1>5 DEF TimerQuit
<1>6. ASSUME NEW s \in Ops, TimerTick(s) PROVE Same(t)
  BY <1>6 DEF TimerTick
<1>7. ASSUME NEW w \in Workers, Receive(w) PROVE Same(t)
  BY <1>7 DEF Receive, Idle
<1>8. ASSUME NEW w \in Workers, RecvDrop(w) PROVE Same(t)
  BY <1>8 DEF RecvDrop, Idle
<1>9. CASE UNCHANGED vars
  BY <1>9 DEF vars
<1>10. QED
  BY <1>1, <1>2, <1>3, <1>4, <1>5, <1>6, <1>7, <1>8, <1>9

\* A call begins, or is refused.
LEMMA BeginStep ==
  ASSUME TypeOK, Inductive, NEW s \in Ops, Reject(s) \/ Register(s)
  PROVE  Promise!Next
<1> USE DEF TypeOK, callerVars, serverVars
<1>1. /\ Stage(s) = "idle"
      /\ ~Claimed(s) /\ Verdict(s) = "none" /\ s \notin smap
  BY DEF Reject, Register, Inductive, Lifecycle, GaveUp, Stage, Settled, Verdict
<1>2. /\ Claimed(s)' <=> Claimed(s)
      /\ Verdict(s)' = "none"
  BY <1>1 DEF Reject, Register, Return, Claimed, TimerHolds, JobHolds, Queued,
              Signalled, Verdict
<1>3. ASSUME NEW t \in Ops \ {s} PROVE Stage(t)' = Stage(t)
  <2>1. Same(t)
    BY DEF Reject, Register, Return, Same, Verdict, Claimed, ClaimExpired,
           TimerHolds, JobHolds, Queued, Signalled
  <2>2. QED
    BY <2>1, SameStage
<1>4. CASE Reject(s)
  <2>1. Stage(s)' = "abandoned"
    BY <1>1, <1>2, <1>4 DEF Reject, Return, Stage, Settled
  <2>2. Promise!Move(s, "idle", "abandoned")
    BY <1>1, <1>3, <2>1, MoveStep
  <2>3. QED
    BY <2>2 DEF Promise!Next, Promise!Refuse
<1>5. CASE Register(s)
  <2>1. Stage(s)' = "open"
    BY <1>1, <1>2, <1>5 DEF Register, Stage, Settled
  <2>2. Promise!Move(s, "idle", "open")
    BY <1>1, <1>3, <2>1, MoveStep
  <2>3. QED
    BY <2>2 DEF Promise!Next, Promise!Open
<1>6. QED
  BY <1>4, <1>5

\* A failed sender withdraws the call, unless it has already been claimed.
LEMMA SendFailStep ==
  ASSUME TypeOK, Inductive, NEW s \in Ops, SendFail(s)
  PROVE  Promise!Next \/ UNCHANGED AbstractCall
<1> USE DEF TypeOK
<1>1. PICK value \in {"err", "nil"} : Return(s, value)
  BY DEF SendFail, SendFails
<1>2. /\ smap' = smap \ {s} /\ pc[s] = "armed" /\ ret[s] = "none"
      /\ UNCHANGED <<tg, sync, serr, job, callbackChan, finished>>
  BY DEF SendFail, SendFails, Inductive, Lifecycle, GaveUp
<1>3. ASSUME NEW t \in Ops
      PROVE  /\ Verdict(t)' = Verdict(t)
             /\ Claimed(t)' <=> Claimed(t)
             /\ ClaimExpired(t)' <=> ClaimExpired(t)
             /\ (pc[t] = "idle")' <=> pc[t] = "idle"
  BY <1>1, <1>2 DEF Return, Verdict, Claimed, ClaimExpired, TimerHolds,
                    JobHolds, Queued, Signalled
<1>4. ASSUME NEW t \in Ops \ {s} PROVE Stage(t)' = Stage(t)
  <2>1. Same(t)
    BY <1>2, <1>3 DEF Same
  <2>2. QED
    BY <2>1, SameStage
<1>5. CASE s \in smap
  <2>1. Stage(s) = "open" /\ ~Claimed(s) /\ ~Settled(s)
    BY <1>5, RecordedIsOpen
  <2>2. ~Claimed(s)' /\ ~Settled(s)' /\ s \notin smap' /\ pc'[s] # "idle"
    BY <1>2, <1>3, <2>1 DEF Settled
  <2>3. Stage(s)' = "abandoned"
    BY <2>2 DEF Stage
  <2>4. Promise!Move(s, "open", "abandoned")
    BY <1>4, <2>1, <2>3, MoveStep
  <2>5. QED
    BY <2>4 DEF Promise!Next, Promise!Withdraw
<1>6. CASE s \notin smap
  <2>1. Same(s)
    BY <1>2, <1>3, <1>6 DEF Same
  <2>2. \A t \in Ops : Stage(t)' = Stage(t)
    BY <1>4, <2>1, SameStage
  <2>3. QED
    BY <2>2, StutterStep
<1>7. QED
  BY <1>5, <1>6

\* A synchronous caller receives the verdict that its claim announced.
LEMMA SyncReturnStep ==
  ASSUME TypeOK, Inductive, NEW s \in Ops, SyncReturn(s)
  PROVE  Promise!Next
<1> USE DEF TypeOK
<1>1. /\ pc[s] = "waiting" /\ Signalled(s) /\ ret[s] = "none"
      /\ sync' = [sync EXCEPT ![s] = 0]
      /\ pc' = [pc EXCEPT ![s] = "returned"]
      /\ ret' = [ret EXCEPT ![s] = IF serr[s] THEN "timeout" ELSE "result"]
      /\ UNCHANGED <<smap, tg, serr, job, callbackChan, finished>>
  BY DEF SyncReturn, Return, Signalled, Inductive, Lifecycle, GaveUp
<1>2. ASSUME NEW t \in Ops \ {s} PROVE Stage(t)' = Stage(t)
  <2>1. Same(t)
    BY <1>1 DEF Same, Verdict, Claimed, ClaimExpired, TimerHolds, JobHolds,
                Queued, Signalled
  <2>2. QED
    BY <2>1, SameStage
<1>3. Claimed(s) /\ ~Settled(s) /\ ~TimerHolds(s) /\ ~Queued(s)
  BY <1>1, ClaimExcludes DEF Claimed, Inductive, OneOutcome, OneVerdict
<1>4. s \notin AsyncOps
  BY <1>1, OpsAssumption DEF Inductive, Lifecycle, GaveUp
<1>5. CASE serr[s]
  <2>1. Stage(s) = "expired"
    BY <1>1, <1>3, <1>5 DEF Stage, ClaimExpired
  <2>2. Verdict(s)' = "timeout"
    BY <1>1, <1>4, <1>5 DEF Verdict
  <2>3. Stage(s)' = "timeout"
    BY <2>2 DEF Stage, Settled
  <2>4. Promise!Move(s, "expired", "timeout")
    BY <1>2, <2>1, <2>3, MoveStep
  <2>5. QED
    BY <2>4 DEF Promise!Next, Promise!Deliver
<1>6. CASE ~serr[s]
  <2>1. ~ClaimExpired(s)
    BY <1>3, <1>6 DEF ClaimExpired, Queued
  <2>2. Stage(s) = "answered"
    BY <1>3, <2>1 DEF Stage
  <2>3. Verdict(s)' = "result"
    BY <1>1, <1>4, <1>6 DEF Verdict
  <2>4. Stage(s)' = "result"
    BY <2>3 DEF Stage, Settled
  <2>5. Promise!Move(s, "answered", "result")
    BY <1>2, <2>2, <2>4, MoveStep
  <2>6. QED
    BY <2>5 DEF Promise!Next, Promise!Deliver
<1>7. QED
  BY <1>5, <1>6

\* The timer goroutine that finds the session recorded claims the call.
LEMMA TimerClaimStep ==
  ASSUME TypeOK, Inductive, NEW s \in Ops, TimerClaim(s)
  PROVE  Promise!Next \/ UNCHANGED AbstractCall
<1> USE DEF TypeOK
<1>1. /\ smap' = smap \ {s} /\ tg[s] = "expired"
      /\ tg' = [tg EXCEPT ![s] = IF s \in smap THEN "notify" ELSE "exit"]
      /\ UNCHANGED <<pc, ret, sync, serr, job, callbackChan, finished>>
  BY DEF TimerClaim, TimerRemoves, callerVars
<1>2. ASSUME NEW t \in Ops \ {s} PROVE Same(t)
  BY <1>1 DEF Same, Verdict, Claimed, ClaimExpired, TimerHolds, JobHolds,
              Queued, Signalled
<1>3. \A t \in Ops \ {s} : Stage(t)' = Stage(t)
  BY <1>2, SameStage
<1>4. Verdict(s)' = Verdict(s)
  BY <1>1 DEF Verdict
<1>5. CASE s \in smap
  <2>1. Stage(s) = "open" /\ ~Settled(s)
    BY <1>5, RecordedIsOpen
  <2>2. TimerHolds(s)'
    BY <1>1, <1>5 DEF TimerHolds
  <2>3. Claimed(s)' /\ ClaimExpired(s)' /\ ~Settled(s)'
    BY <1>4, <2>1, <2>2 DEF Claimed, ClaimExpired, Settled
  <2>4. Stage(s)' = "expired"
    BY <2>3 DEF Stage
  <2>5. Promise!Move(s, "open", "expired")
    BY <1>3, <2>1, <2>4, MoveStep
  <2>6. QED
    BY <2>5 DEF Promise!Next, Promise!Expire
<1>6. CASE s \notin smap
  <2>1. Same(s)
    BY <1>1, <1>4, <1>6 DEF Same, Claimed, ClaimExpired, TimerHolds, JobHolds,
                            Queued, Signalled
  <2>2. \A t \in Ops : Stage(t)' = Stage(t)
    BY <1>3, <2>1, SameStage
  <2>3. QED
    BY <2>2, StutterStep
<1>7. QED
  BY <1>5, <1>6

\* How the report of an outcome changes the entries of callbackChan.
LEMMA PushStep ==
  ASSUME TypeOK, NEW s \in AsyncOps, NEW res \in Verdicts, PushCallback(s, res)
  PROVE  /\ UNCHANGED <<sync, serr>>
         /\ \A t \in Ops : Queued(t)' <=> (Queued(t) \/ t = s)
         /\ \A t \in Ops :
              (\E i \in DOMAIN callbackChan : /\ callbackChan[i].sid = t
                                              /\ callbackChan[i].res = "timeout")'
              <=> \/ \E i \in DOMAIN callbackChan :
                        callbackChan[i].sid = t /\ callbackChan[i].res = "timeout"
                  \/ t = s /\ res = "timeout"
<1> DEFINE c == [sid |-> s, res |-> res]
<1>1. callbackChan' = Append(callbackChan, c) /\ UNCHANGED <<sync, serr>>
  BY DEF PushCallback
<1>2. callbackChan \in Seq(Callback) /\ c \in Callback
  BY DEF TypeOK, Callback
<1>3. /\ DOMAIN callbackChan' = DOMAIN callbackChan \cup {Len(callbackChan) + 1}
      /\ \A i \in DOMAIN callbackChan : callbackChan'[i] = callbackChan[i]
      /\ callbackChan'[Len(callbackChan) + 1] = c
  BY <1>1, <1>2
<1>4. ASSUME NEW t \in Ops PROVE Queued(t)' <=> (Queued(t) \/ t = s)
  BY <1>3 DEF Queued
<1>5. ASSUME NEW t \in Ops
      PROVE  (\E i \in DOMAIN callbackChan : /\ callbackChan[i].sid = t
                                             /\ callbackChan[i].res = "timeout")'
              <=> \/ \E i \in DOMAIN callbackChan :
                        callbackChan[i].sid = t /\ callbackChan[i].res = "timeout"
                  \/ t = s /\ res = "timeout"
  BY <1>3
<1>6. QED
  BY <1>1, <1>4, <1>5

\* The timer goroutine passes its claim on: the call stays expired.
LEMMA TimerNotifyStep ==
  ASSUME TypeOK, Inductive, NEW s \in Ops, TimerNotify(s)
  PROVE  UNCHANGED AbstractCall
<1> USE DEF TypeOK
<1>1. /\ tg[s] = "notify" /\ tg' = [tg EXCEPT ![s] = "exit"]
      /\ UNCHANGED <<pc, ret, smap, job, finished>>
      /\ \/ s \in AsyncOps /\ PushCallback(s, "timeout")
         \/ /\ s \in SyncOps /\ sync' = [sync EXCEPT ![s] = 1]
            /\ serr' = [serr EXCEPT ![s] = TRUE] /\ UNCHANGED callbackChan
  BY DEF TimerNotify, TimerReports, Report, callerVars
<1>2. ASSUME NEW t \in Ops PROVE Verdict(t)' = Verdict(t)
  BY <1>1 DEF Verdict
<1>3. Claimed(s) /\ ClaimExpired(s)
  BY <1>1 DEF Claimed, ClaimExpired, TimerHolds
<1>4. CASE s \in AsyncOps /\ PushCallback(s, "timeout")
  <2> USE DEF Verdicts
  <2>1. ASSUME NEW t \in Ops \ {s} PROVE Same(t)
    BY <1>1, <1>2, <1>4, PushStep DEF Same, Claimed, ClaimExpired, TimerHolds,
                                      JobHolds, Signalled
  <2>2. Claimed(s)' /\ ClaimExpired(s)'
    BY <1>4, PushStep, OpsAssumption DEF Claimed, ClaimExpired, Ops
  <2>3. Same(s)
    BY <1>1, <1>2, <1>3, <2>2 DEF Same
  <2>4. QED
    BY <2>1, <2>3, SameStage, StutterStep
<1>5. CASE /\ s \in SyncOps /\ sync' = [sync EXCEPT ![s] = 1]
           /\ serr' = [serr EXCEPT ![s] = TRUE] /\ UNCHANGED callbackChan
  <2>1. ASSUME NEW t \in Ops \ {s} PROVE Same(t)
    BY <1>1, <1>2, <1>5 DEF Same, Claimed, ClaimExpired, TimerHolds,
                            JobHolds, Signalled, Queued
  <2>2. Claimed(s)' /\ ClaimExpired(s)'
    BY <1>5 DEF Claimed, ClaimExpired, Signalled
  <2>3. Same(s)
    BY <1>1, <1>2, <1>3, <2>2 DEF Same
  <2>4. QED
    BY <2>1, <2>3, SameStage, StutterStep
<1>6. QED
  BY <1>1, <1>4, <1>5

\* The receiving goroutine that finds the session recorded claims the call.
LEMMA RecvClaimStep ==
  ASSUME TypeOK, Inductive, NEW w \in Workers, RecvClaim(w)
  PROVE  Promise!Next
<1> DEFINE s == job[w].sid
<1> USE DEF TypeOK
<1>1. /\ job[w].phase = "lookup" /\ s \in smap /\ s \in Ops
      /\ smap' = smap \ {s}
      /\ job' = [job EXCEPT ![w].phase = "handle"]
      /\ UNCHANGED <<pc, ret, tg, sync, serr, callbackChan, finished>>
  BY DEF RecvClaim, RecvTakes, callerVars
<1>2. PICK c \in Ops : c = s
  BY <1>1
<1>3. ASSUME NEW t \in Ops, NEW v \in Workers
      PROVE  JobHolds(v, t)' <=> JobHolds(v, t) \/ (v = w /\ t = c)
  BY <1>1, <1>2 DEF JobHolds, Busy, Idle
<1>4. ASSUME NEW t \in Ops
      PROVE  /\ Verdict(t)' = Verdict(t)
             /\ ClaimExpired(t)' <=> ClaimExpired(t)
             /\ Claimed(t)' <=> Claimed(t) \/ t = c
             /\ (pc[t] = "idle")' <=> pc[t] = "idle"
             /\ t # c => ((t \in smap)' <=> t \in smap)
  BY <1>1, <1>2, <1>3 DEF Verdict, Claimed, ClaimExpired, TimerHolds, Queued,
                          Signalled
<1>5. ASSUME NEW t \in Ops \ {c} PROVE Stage(t)' = Stage(t)
  BY <1>4, SameStage DEF Same
<1>6. Stage(c) = "open" /\ ~Claimed(c) /\ ~Settled(c)
  BY <1>1, <1>2, RecordedIsOpen
<1>7. ~ClaimExpired(c)
  BY <1>6 DEF Claimed, ClaimExpired, Queued
<1>8. Stage(c)' = "answered"
  BY <1>4, <1>6, <1>7 DEF Stage, Settled
<1>9. Promise!Move(c, "open", "answered")
  BY <1>5, <1>6, <1>8, MoveStep
<1>10. QED
  BY <1>9 DEF Promise!Next, Promise!Answer

\* The goroutine w lets go of its response.
LEMMA JobEnds ==
  ASSUME TypeOK, Inductive, NEW w \in Workers, NEW s \in Ops,
         JobHolds(w, s), job' = [job EXCEPT ![w] = Idle]
  PROVE  \A t \in Ops : \A v \in Workers :
           JobHolds(v, t)' <=> JobHolds(v, t) /\ t # s
<1>1. \A v \in Workers : JobHolds(v, s) => v = w
  BY JobClaim
<1>2. QED
  BY <1>1 DEF TypeOK, JobHolds, Idle

\* An unusable response is dropped: nobody is told.
LEMMA RecvDiscardStep ==
  ASSUME TypeOK, Inductive, NEW w \in Workers, RecvDiscard(w)
  PROVE  Promise!Next
<1> USE DEF TypeOK
<1>1. PICK s \in Ops : JobHolds(w, s)
  BY SMTT(30) DEF RecvDiscard, JobHolds, Busy, Idle
<1>2. /\ job' = [job EXCEPT ![w] = Idle]
      /\ UNCHANGED <<pc, ret, smap, tg, sync, serr, callbackChan, finished>>
  BY DEF RecvDiscard, callerVars
<1>3. \A t \in Ops : \A v \in Workers : JobHolds(v, t)' <=> JobHolds(v, t) /\ t # s
  BY <1>1, <1>2, JobEnds
<1>4. ASSUME NEW t \in Ops \ {s} PROVE Stage(t)' = Stage(t)
  <2>1. Same(t)
    BY <1>2, <1>3 DEF Same, Verdict, Claimed, ClaimExpired, TimerHolds, Queued,
                      Signalled
  <2>2. QED
    BY <2>1, SameStage
<1>5. /\ Stage(s) = "answered" /\ ~Settled(s) /\ s \notin smap
      /\ pc[s] # "idle" /\ ~TimerHolds(s) /\ ~Queued(s) /\ ~Signalled(s)
  BY <1>1, JobClaim
<1>6. ~TimerHolds(s)' /\ ~Queued(s)' /\ ~Signalled(s)'
  BY <1>2, <1>5 DEF TimerHolds, Queued, Signalled
<1>7. ~Claimed(s)'
  BY <1>3, <1>6 DEF Claimed
<1>8. ~Settled(s)' /\ s \notin smap' /\ pc'[s] # "idle"
  BY <1>2, <1>5 DEF Settled, Verdict
<1>9. Stage(s)' = "abandoned"
  BY <1>7, <1>8 DEF Stage
<1>10. Promise!Move(s, "answered", "abandoned")
  BY <1>4, <1>5, <1>9, MoveStep
<1>11. QED
  BY <1>10 DEF Promise!Next, Promise!Discard

\* The receiving goroutine passes its claim on: the call stays answered.
LEMMA RecvNotifyStep ==
  ASSUME TypeOK, Inductive, NEW w \in Workers, RecvNotify(w)
  PROVE  UNCHANGED AbstractCall
<1> USE DEF TypeOK
<1>1. PICK s \in Ops : s = job[w].sid /\ JobHolds(w, s)
  BY DEF RecvNotify, RecvFinishes, JobHolds, Busy, Idle
<1>2. /\ job' = [job EXCEPT ![w] = Idle]
      /\ UNCHANGED <<pc, ret, smap, tg, finished>>
      /\ \/ s \in AsyncOps /\ PushCallback(s, "ok")
         \/ /\ s \in SyncOps /\ sync' = [sync EXCEPT ![s] = 1]
            /\ serr' = [serr EXCEPT ![s] = @ \/ FALSE] /\ UNCHANGED callbackChan
  BY <1>1 DEF RecvNotify, RecvFinishes, Report, callerVars
<1>3. \A t \in Ops : \A v \in Workers : JobHolds(v, t)' <=> JobHolds(v, t) /\ t # s
  BY <1>1, <1>2, JobEnds
<1>4. ASSUME NEW t \in Ops
      PROVE  /\ Verdict(t)' = Verdict(t)
             /\ (t \in smap)' <=> t \in smap
             /\ (pc[t] = "idle")' <=> pc[t] = "idle"
             /\ TimerHolds(t)' <=> TimerHolds(t)
  BY <1>2 DEF Verdict, TimerHolds
<1>5. Claimed(s) /\ ~ClaimExpired(s) /\ ~TimerHolds(s) /\ ~Queued(s) /\ ~serr[s]
      /\ ~Signalled(s)
  BY <1>1, JobClaim
<1>6. CASE s \in AsyncOps /\ PushCallback(s, "ok")
  <2> USE DEF Verdicts
  <2>1. ASSUME NEW t \in Ops
        PROVE  /\ Signalled(t)' <=> Signalled(t)
               /\ serr'[t] <=> serr[t]
               /\ Queued(t)' <=> Queued(t) \/ t = s
               /\ ClaimExpired(t)' <=> ClaimExpired(t)
    BY <1>4, <1>6, PushStep DEF ClaimExpired, Signalled
  <2>2. ASSUME NEW t \in Ops \ {s} PROVE Claimed(t)' <=> Claimed(t)
    BY <1>3, <1>4, <2>1 DEF Claimed
  <2>3. Claimed(s)'
    BY <2>1 DEF Claimed
  <2>4. ASSUME NEW t \in Ops PROVE Same(t)
    BY <1>4, <1>5, <2>1, <2>2, <2>3 DEF Same
  <2>5. QED
    BY <2>4, SameStage, StutterStep
<1>7. CASE /\ s \in SyncOps /\ sync' = [sync EXCEPT ![s] = 1]
           /\ serr' = [serr EXCEPT ![s] = @ \/ FALSE] /\ UNCHANGED callbackChan
  <2>1. ASSUME NEW t \in Ops
        PROVE  /\ Signalled(t)' <=> Signalled(t) \/ t = s
               /\ serr'[t] <=> serr[t]
               /\ Queued(t)' <=> Queued(t)
    BY <1>7 DEF Signalled, Queued
  <2>2. ASSUME NEW t \in Ops PROVE ClaimExpired(t)' <=> ClaimExpired(t)
    BY <1>4, <1>5, <1>7, <2>1 DEF ClaimExpired
  <2>3. ASSUME NEW t \in Ops \ {s} PROVE Claimed(t)' <=> Claimed(t)
    BY <1>3, <1>4, <2>1 DEF Claimed
  <2>4. Claimed(s)'
    BY <2>1 DEF Claimed
  <2>5. ASSUME NEW t \in Ops PROVE Same(t)
    BY <1>4, <1>5, <2>2, <2>3, <2>4 DEF Same
  <2>6. QED
    BY <2>5, SameStage, StutterStep
<1>8. QED
  BY <1>2, <1>6, <1>7

\* callbackJob delivers the outcome at the head of callbackChan.
LEMMA RunCallbackStep ==
  ASSUME TypeOK, Inductive, RunCallback
  PROVE  Promise!Next
<1> USE DEF TypeOK
<1>1. /\ callbackChan # <<>> /\ callbackChan' = Tail(callbackChan)
      /\ callbackChan \in Seq(Callback)
      /\ UNCHANGED <<pc, ret, smap, tg, sync, serr, job>>
  BY DEF RunCallback, callerVars
<1>2. PICK c \in Callback : c = Head(callbackChan)
  BY <1>1
<1>3. PICK s \in AsyncOps : s = c.sid
  BY DEF Callback
<1>4. /\ s \in Ops /\ c.res \in Verdicts
      /\ finished' = [finished EXCEPT ![s] = Append(@, c.res)]
  BY <1>2, <1>3 DEF RunCallback, Callback, Ops
<1>5. /\ 1 \in DOMAIN callbackChan /\ callbackChan[1] = c
      /\ \A i \in DOMAIN callbackChan' :
           i + 1 \in DOMAIN callbackChan \ {1} /\ callbackChan'[i] = callbackChan[i + 1]
      /\ \A i \in DOMAIN callbackChan \ {1} :
           i - 1 \in DOMAIN callbackChan' /\ callbackChan'[i - 1] = callbackChan[i]
  <2>1. /\ Len(callbackChan) \in Nat \ {0}
        /\ DOMAIN callbackChan = 1 .. Len(callbackChan)
        /\ DOMAIN callbackChan' = 1 .. Len(callbackChan) - 1
    BY <1>1
  <2>2. \A i \in 1 .. Len(callbackChan) - 1 : callbackChan'[i] = callbackChan[i + 1]
    BY <1>1, <2>1
  <2>3. callbackChan[1] = c
    BY <1>1, <1>2
  <2>4. ASSUME NEW i \in DOMAIN callbackChan \ {1}
        PROVE  i - 1 \in DOMAIN callbackChan' /\ callbackChan'[i - 1] = callbackChan[i]
    <3>1. i - 1 \in 1 .. Len(callbackChan) - 1 /\ (i - 1) + 1 = i
      BY <2>1
    <3>2. QED
      BY <2>1, <2>2, <3>1
  <2>5. QED
    BY <2>1, <2>2, <2>3, <2>4
<1>6. Queued(s)
  BY <1>3, <1>5 DEF Queued
<1>7. /\ ~Settled(s) /\ ~TimerHolds(s) /\ ~Signalled(s) /\ Claimed(s)
      /\ \A w \in Workers : ~JobHolds(w, s)
      /\ s \notin smap
      /\ \A i \in DOMAIN callbackChan : callbackChan[i].sid = s => i = 1
  <2>1. Claimed(s)
    BY <1>6 DEF Claimed
  <2>2. OneClaim(s) /\ OneVerdict(s)
    BY <1>4 DEF Inductive, OneOutcome
  <2>3. QED
    BY <1>3, <1>5, <1>6, <2>1, <2>2 DEF OneClaim, OneVerdict
<1>8. ClaimExpired(s) <=> c.res = "timeout"
  BY <1>3, <1>5, <1>7 DEF ClaimExpired
<1>9. ~Queued(s)'
  BY <1>5, <1>7 DEF Queued
<1>10. ~Claimed(s)'
  BY <1>1, <1>7, <1>9 DEF Claimed, TimerHolds, Signalled, JobHolds
<1>11. finished[s] = <<>> /\ s \in AsyncOps
  <2>1. finished[s] # <<>> => Head(finished[s]) \in Verdicts
    OBVIOUS
  <2>2. QED
    BY <1>3, <1>7, <2>1 DEF Settled, Verdict, Verdicts
<1>12. Verdict(s)' = c.res
  BY <1>4, <1>11 DEF Verdict
<1>13. ASSUME NEW t \in Ops \ {s} PROVE Stage(t)' = Stage(t)
  <2>1. Verdict(t)' = Verdict(t)
    BY <1>1, <1>4 DEF Verdict
  <2>2. Queued(t)' <=> Queued(t)
    <3>1. t # c.sid
      BY <1>3
    <3>2. Queued(t) => Queued(t)'
      BY <1>5, <3>1, SMTT(30) DEF Queued
    <3>3. Queued(t)' => Queued(t)
      BY <1>5, <3>1 DEF Queued
    <3>4. QED
      BY <3>2, <3>3
  <2>3. (\E i \in DOMAIN callbackChan : /\ callbackChan[i].sid = t
                                        /\ callbackChan[i].res = "timeout")'
        <=> \E i \in DOMAIN callbackChan :
              callbackChan[i].sid = t /\ callbackChan[i].res = "timeout"
    BY <1>3, <1>5
  <2>4. Same(t)
    BY <1>1, <2>1, <2>2, <2>3 DEF Same, Claimed, ClaimExpired, TimerHolds,
                                  Signalled, JobHolds
  <2>5. QED
    BY <2>4, SameStage
<1>14. CASE c.res = "timeout"
  <2>1. Stage(s) = "expired"
    BY <1>7, <1>8, <1>14 DEF Stage
  <2>2. Stage(s)' = "timeout"
    BY <1>12, <1>14 DEF Stage, Settled
  <2>3. Promise!Move(s, "expired", "timeout")
    BY <1>4, <1>13, <2>1, <2>2, MoveStep
  <2>4. QED
    BY <1>4, <2>3 DEF Promise!Next, Promise!Deliver
<1>15. CASE c.res = "ok"
  <2>1. Stage(s) = "answered"
    BY <1>7, <1>8, <1>15 DEF Stage
  <2>2. Stage(s)' = "result"
    BY <1>12, <1>15 DEF Stage, Settled
  <2>3. Promise!Move(s, "answered", "result")
    BY <1>4, <1>13, <2>1, <2>2, MoveStep
  <2>4. QED
    BY <1>4, <2>3 DEF Promise!Next, Promise!Deliver
<1>16. QED
  BY <1>4, <1>14, <1>15 DEF Verdicts

\* No call has begun in an initial state.
LEMMA RefinesInit == Init => Promise!Init
<1> SUFFICES ASSUME Init PROVE AbstractCall = [s \in Ops |-> "idle"]
  BY DEF Promise!Init
<1>1. ASSUME NEW s \in Ops PROVE Stage(s) = "idle"
  BY DEF Init, Stage, Settled, Verdict, Claimed, JobHolds, TimerHolds, Queued,
         Signalled, Idle, Ops
<1>2. QED
  BY <1>1 DEF AbstractCall

\* Every step of the goroutines is a step of the promise, or none.
LEMMA RefinesStep ==
  ASSUME TypeOK, Inductive, [Next]_vars
  PROVE  [Promise!Next]_AbstractCall
<1>1. ASSUME NEW s \in Ops, Caller(s) PROVE [Promise!Next]_AbstractCall
  BY <1>1, BeginStep, SendFailStep, SyncReturnStep, QuietStep DEF Caller
<1>2. ASSUME NEW s \in Ops, Reply(s) \/ TimerExpires(s)
      PROVE  [Promise!Next]_AbstractCall
  BY <1>2, QuietStep
<1>3. ASSUME NEW s \in Ops, TimerJob(s) PROVE [Promise!Next]_AbstractCall
  BY <1>3, TimerClaimStep, TimerNotifyStep, QuietStep DEF TimerJob
<1>4. ASSUME NEW w \in Workers, RecvJob(w) PROVE [Promise!Next]_AbstractCall
  BY <1>4, RecvClaimStep, RecvDiscardStep, RecvNotifyStep, QuietStep DEF RecvJob
<1>5. CASE RunCallback
  BY <1>5, RunCallbackStep
<1>6. CASE UNCHANGED vars
  BY <1>6, QuietStep
<1>7. QED
  BY <1>1, <1>2, <1>3, <1>4, <1>5, <1>6 DEF Next

\* The request/response engine implements CallPromise: each call is claimed at
\* most once, its verdict is that of its claim, and it is final.
THEOREM RefinesPromise == Spec => KeepsPromise
<1>1. Init => Promise!Init
  BY RefinesInit
<1>2. TypeOK /\ Inductive /\ [Next]_vars => [Promise!Next]_AbstractCall
  BY RefinesStep
<1>3. QED
  BY <1>1, <1>2, TypeCorrect, InductiveCorrect, PTL
     DEF Spec, KeepsPromise, Promise!Spec

(***************************************************************************)
(* A failed send is final.                                                 *)
(***************************************************************************)

\* The last stages of the promise are never left.
LEMMA LastStageStays ==
  ASSUME [Promise!Next]_AbstractCall, NEW s \in Ops,
         Stage(s) \in {"abandoned", "result", "timeout"}
  PROVE  Stage(s)' = Stage(s)
<1>1. AbstractCall[s] = Stage(s) /\ AbstractCall'[s] = Stage(s)'
  BY DEF AbstractCall
<1>2. ASSUME NEW t \in Ops, NEW from \in {"idle", "open", "answered", "expired"},
             NEW to, Promise!Move(t, from, to)
      PROVE  AbstractCall'[s] = AbstractCall[s]
  BY <1>1, <1>2 DEF Promise!Move, AbstractCall
<1>3. CASE Promise!Next
  BY <1>1, <1>2, <1>3
     DEF Promise!Next, Promise!Open, Promise!Refuse, Promise!Answer, Promise!Expire,
         Promise!Withdraw, Promise!Discard, Promise!Deliver
<1>4. QED
  BY <1>1, <1>3

\* The caller of a failed send has returned, and its request stays unsent.
LEMMA GaveUpStays ==
  ASSUME TypeOK, [Next]_vars, NEW s \in Ops, GaveUp(s)
  PROVE  GaveUp(s)'
<1> USE DEF TypeOK, GaveUp, callerVars, serverVars
<1>1. ASSUME NEW t \in Ops, Caller(t) PROVE GaveUp(s)'
  BY <1>1 DEF Caller, Reject, Register, StartTimer, SendFail, SendFails, SendOk,
              SendFrom, SyncReturn, Return
<1>2. ASSUME NEW t \in Ops, Reply(t) \/ TimerExpires(t) \/ TimerJob(t)
      PROVE  GaveUp(s)'
  BY <1>2 DEF Reply, TimerExpires, TimerJob, TimerQuit, TimerTick, TimerClaim,
              TimerRemoves, TimerNotify, TimerReports
<1>3. ASSUME NEW w \in Workers, RecvJob(w) PROVE GaveUp(s)'
  BY <1>3 DEF RecvJob, Receive, RecvDrop, RecvClaim, RecvTakes, RecvDiscard,
              RecvNotify, RecvFinishes
<1>4. CASE RunCallback
  BY <1>4 DEF RunCallback
<1>5. CASE UNCHANGED vars
  BY <1>5 DEF vars
<1>6. QED
  BY <1>1, <1>2, <1>3, <1>4, <1>5 DEF Next

\* After a failed send has returned nothing new is reported, and never a result.
LEMMA FailedSendStep ==
  ASSUME TypeOK, Inductive, [Next]_vars, NEW s \in Ops, GaveUp(s)
  PROVE  /\ ~Claimed(s) => ~Claimed(s)' /\ Verdict(s)' = Verdict(s)
         /\ Verdict(s)' \in {"none", "timeout"}
<1>1. TypeOK' /\ Inductive' /\ GaveUp(s)'
  BY TypeStep, InductiveStep, GaveUpStays
<1>2. Verdict(s) \in {"none", "timeout"} /\ Verdict(s)' \in {"none", "timeout"}
  BY <1>1 DEF Inductive, FailedSendHasNoResult, NoResult, GaveUp
<1>3. ASSUME ~Claimed(s)
      PROVE  ~Claimed(s)' /\ Verdict(s)' = Verdict(s)
  <2>1. s \notin smap /\ pc[s] # "idle"
    BY DEF Inductive, Lifecycle, GaveUp
  <2>2. Stage(s) \in {"abandoned", "timeout"}
    BY <1>2, <1>3, <2>1 DEF Stage, Settled
  <2>3. Stage(s)' = Stage(s)
    BY <2>2, RefinesStep, LastStageStays
  <2>4. CASE Settled(s)
    <3>1. Verdict(s) = "timeout" /\ Stage(s) = "timeout"
      BY <1>2, <2>4 DEF Settled, Stage
    <3>2. Settled(s)' /\ Verdict(s)' = "timeout"
      BY <1>2, <2>3, <3>1 DEF Stage, Settled
    <3>3. ~Claimed(s)'
      BY <1>1, <3>2 DEF Inductive, OneOutcome, OneVerdict
    <3>4. QED
      BY <3>1, <3>2, <3>3
  <2>5. CASE ~Settled(s)
    <3>1. Stage(s) = "abandoned"
      BY <1>3, <2>1, <2>5 DEF Stage
    <3>2. ~Settled(s)' /\ ~Claimed(s)'
      BY <2>3, <3>1 DEF Stage
    <3>3. QED
      BY <2>5, <3>2 DEF Settled
  <2>6. QED
    BY <2>4, <2>5
<1>4. QED
  BY <1>2, <1>3

\* Once a call whose request was not sent has returned, it is reported nothing
\* but the timeout its timer may have claimed before.
THEOREM FailedSendCorrect == Spec => FailedSendIsFinal
<1>1. TypeOK /\ Inductive /\ [Next]_vars =>
        [\A s \in Ops : GaveUp(s) =>
           /\ ~Claimed(s) => ~Claimed(s)' /\ Verdict(s)' = Verdict(s)
           /\ Verdict(s)' \in {"none", "timeout"}]_vars
  BY FailedSendStep
<1>2. QED
  BY <1>1, TypeCorrect, InductiveCorrect, PTL DEF Spec, FailedSendIsFinal
=============================================================================
