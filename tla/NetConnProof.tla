---------------------------- MODULE NetConnProof ----------------------------
(***************************************************************************)
(* Proofs about one network connection (NetConn), for any number of calls  *)
(* of Close and SendMsg, any capacities and any number of messages.        *)
(***************************************************************************)
EXTENDS NetConn, FiniteSetTheorems, SequenceTheorems, TLAPS

(***************************************************************************)
(* Type correctness.                                                       *)
(***************************************************************************)

\* What the operations on a bounded channel (safechan.go) return.
LEMMA WrittenType ==
  ASSUME NEW S, NEW ch \in Chan(S), NEW v \in S
  PROVE  /\ Written(ch, v) \in Chan(S)
         /\ Written(ch, v).buf = Append(ch.buf, v)
         /\ Written(ch, v).open = ch.open
<1>1. Append(ch.buf, v) \in Seq(S)
  BY AppendProperties DEF Chan
<1>2. QED
  BY <1>1 DEF Chan, Written

LEMMA ConsumedType ==
  ASSUME NEW S, NEW ch \in Chan(S), CanRead(ch)
  PROVE  /\ Consumed(ch) \in Chan(S)
         /\ Consumed(ch).buf = Tail(ch.buf)
         /\ Consumed(ch).open = ch.open
         /\ NextValue(ch) \in S
<1>1. ch.buf \in Seq(S) /\ ch.buf # <<>>
  BY DEF Chan, CanRead
<1>2. Tail(ch.buf) \in Seq(S) /\ Head(ch.buf) \in S
  BY <1>1, HeadTailProperties
<1>3. QED
  BY <1>2 DEF Chan, Consumed, NextValue

LEMMA ClosedType ==
  ASSUME NEW S, NEW ch \in Chan(S)
  PROVE  /\ Closed(ch) \in Chan(S)
         /\ Closed(ch).buf = ch.buf
         /\ Closed(ch).open = FALSE
BY DEF Chan, Closed

\* The moves of an actor in closeNow concern that actor only.
LEMMA GotoMoves ==
  ASSUME TypeOK, NEW a \in Actors, NEW s \in Statements, Goto(a, s)
  PROVE  /\ at' \in [Actors -> Statements]
         /\ at'[a] = s
         /\ \A b \in Actors \ {a} : at'[b] = at[b]
BY DEF TypeOK, Goto

LEMMA LeaveMoves ==
  ASSUME TypeOK, NEW a \in Actors, Leave(a)
  PROVE  /\ at' \in [Actors -> Statements] /\ why' \in [Actors -> Reasons]
         /\ at'[a] = "out"
         /\ \A b \in Actors \ {a} : at'[b] = at[b] /\ why'[b] = why[b]
BY DEF TypeOK, Leave, Leaves, Goto, Statements, Reasons

LEMMA CallMoves ==
  ASSUME TypeOK, NEW a \in Actors, NEW reason \in Reasons, Call(a, reason)
  PROVE  /\ at' \in [Actors -> Statements] /\ why' \in [Actors -> Reasons]
         /\ at[a] = "out" /\ at'[a] = "test" /\ why'[a] = reason
         /\ \A b \in Actors \ {a} : at'[b] = at[b] /\ why'[b] = why[b]
         /\ asked' \subseteq Actors
         /\ asked' = IF reason = "by_self" THEN asked \cup {a} ELSE asked
BY DEF TypeOK, Call, Statements

\* What the steps outside of recv leave alone.
LEMMA StepOfOthers ==
  ASSUME Next, ~Recv
  PROVE  UNCHANGED recvVars
<1>1. ASSUME NEW a \in Actors, CloseNow(a) PROVE UNCHANGED recvVars
  BY <1>1 DEF CloseNow, CloseTest, CloseSocket, ClosesSocket, CloseMark, CloseIn, CloseOut,
              CloseCallback
<1>2. ASSUME NEW m \in Msgs, SendMsg(m) PROVE UNCHANGED recvVars
  BY <1>2 DEF SendMsg, SendTest, SendAccept, SendRefuse, SendMoves
<1>3. CASE Send
  BY <1>3 DEF Send, SendTop, SendTops, SendTake, SendTakeEmpty, SendTakeClosed, SendWrite,
              SendWriteFail, SendJobMoves
<1>4. QED
  BY <1>1, <1>2, <1>3 DEF Next, Close, RecvMsg, Stop, StopReturn, PeerSends, PeerCloses, Listen,
             ListenTop, ListenAccept, ListenMoves

LEMMA TypeInit == Init => TypeOK
<1> SUFFICES ASSUME Init PROVE TypeOK
  OBVIOUS
<1>1. NewChan \in Chan(1 .. MaxIn) /\ NewChan \in Chan(Msgs)
  BY DEF NewChan, Chan
<1>2. /\ at \in [Actors -> Statements] /\ why \in [Actors -> Reasons]
      /\ mpc \in [Msgs -> {"idle", "write", "accepted", "refused"}]
  BY DEF Init, Statements, Reasons
<1>3. spc \in {"top", "take", "write", "end"} /\ fromPeer \in 0 .. MaxIn
  BY ConnAssumption DEF ConnAssumption, Init
<1>4. /\ batch \in Seq(1 .. MaxIn) /\ inSocket \in Seq(1 .. MaxIn)
      /\ taken \in Seq(1 .. MaxIn)
      /\ sendbuf \in Seq(Msgs) /\ toPeer \in Seq(Msgs) /\ accepted \in Seq(Msgs)
  BY EmptySeq DEF Init
<1>5. QED
  BY <1>1, <1>2, <1>3, <1>4 DEF Init, TypeOK

\* recv is about to put a message into inPipe only when it has one.
HasBatch == rpc = "push" => batch # <<>>

LEMMA TypeStep == TypeOK /\ HasBatch /\ [Next]_vars => TypeOK'
<1> SUFFICES ASSUME TypeOK, HasBatch, [Next]_vars PROVE TypeOK'
  OBVIOUS
<1> USE ConnAssumption DEF ConnAssumption, TypeOK, flags, closing, recvVars, sendVars,
        peerVars, outcome
<1>1. ASSUME NEW a \in Actors, CloseTest(a) PROVE TypeOK'
  <2>1. CASE isClosed
    BY <1>1, <2>1, LeaveMoves DEF CloseTest
  <2>2. CASE ~isClosed /\ why[a] = "by_self" /\ ~aboutToClose
    <3>1. Len(accepted) \in Nat
      BY LenProperties
    <3>2. QED
      BY <1>1, <2>2, <3>1, LeaveMoves DEF CloseTest
  <2>3. CASE ~isClosed /\ ~(why[a] = "by_self" /\ ~aboutToClose)
    BY <1>1, <2>3, GotoMoves DEF CloseTest, Statements
  <2>4. QED
    BY <2>1, <2>2, <2>3
<1>2. ASSUME NEW a \in Actors, CloseSocket(a) PROVE TypeOK'
  <2>1. CASE sock = "open"
    BY <1>2, <2>1, GotoMoves DEF CloseSocket, ClosesSocket, Statements
  <2>2. CASE sock # "open"
    BY <1>2, <2>2, LeaveMoves DEF CloseSocket, ClosesSocket
  <2>3. QED
    BY <2>1, <2>2
<1>3. ASSUME NEW a \in Actors, CloseMark(a) PROVE TypeOK'
  BY <1>3, GotoMoves DEF CloseMark, Statements
<1>4. ASSUME NEW a \in Actors, CloseIn(a) PROVE TypeOK'
  <2>1. Closed(inPipe) \in Chan(1 .. MaxIn)
    BY ClosedType
  <2>2. QED
    BY <1>4, <2>1, GotoMoves DEF CloseIn, Statements
<1>5. ASSUME NEW a \in Actors, CloseOut(a) PROVE TypeOK'
  <2>1. Closed(outPipe) \in Chan(Msgs)
    BY ClosedType
  <2>2. QED
    BY <1>5, <2>1, GotoMoves DEF CloseOut, Statements
<1>6. ASSUME NEW a \in Actors, CloseCallback(a) PROVE TypeOK'
  BY <1>6, LeaveMoves DEF CloseCallback
<1>7. ASSUME NEW u \in Closers, Close(u) PROVE TypeOK'
  <2>1. u \in Actors /\ "by_self" \in Reasons
    BY DEF Actors, Reasons
  <2>2. QED
    BY <1>7, <2>1, CallMoves DEF Close
<1>8. ASSUME NEW m \in Msgs, SendMsg(m) PROVE TypeOK'
  <2>1. CASE SendTest(m)
    BY <2>1 DEF SendTest, SendMoves
  <2>2. CASE SendAccept(m)
    BY <2>2, WrittenType, AppendProperties DEF SendAccept, SendMoves
  <2>3. CASE SendRefuse(m)
    BY <2>3 DEF SendRefuse, SendMoves
  <2>4. QED
    BY <1>8, <2>1, <2>2, <2>3 DEF SendMsg
<1>9. CASE RecvMsg
  <2>1. /\ Consumed(inPipe) \in Chan(1 .. MaxIn)
        /\ NextValue(inPipe) \in 1 .. MaxIn
    BY <1>9, ConsumedType DEF RecvMsg
  <2>2. QED
    BY <1>9, <2>1, AppendProperties DEF RecvMsg
<1>10. CASE Stop
  BY <1>10, ZenonT(60) DEF Stop
<1>11. CASE StopReturn
  BY <1>11 DEF StopReturn
<1>12. CASE Recv
  <2>1. "recv" \in Actors /\ Reasons = {"by_self", "by_other", "by_accident"}
    BY DEF Actors, Reasons
  <2>2. CASE RecvTop
    BY <2>1, <2>2, CallMoves DEF RecvTop, RecvTops, RecvMoves, Continue
  <2>3. CASE RecvCheck
    BY <2>3 DEF RecvCheck, RecvMoves, Continue
  <2>4. CASE RecvRead
    <3>1. CASE inSocket # <<>>
      <4>1. PICK n \in 1 .. Len(inSocket) :
              /\ batch' = SubSeq(inSocket, 1, n)
              /\ inSocket' = SubSeq(inSocket, n + 1, Len(inSocket))
        BY <2>4, <3>1 DEF RecvRead
      <4>2. batch' \in Seq(1 .. MaxIn) /\ inSocket' \in Seq(1 .. MaxIn)
        <5>1. n \in 1 .. Len(inSocket) /\ Len(inSocket) \in Nat
          BY <4>1, LenProperties
        <5>2. \A i \in 1 .. Len(inSocket) : inSocket[i] \in 1 .. MaxIn
          BY ElementOfSeq
        <5>3. SubSeq(inSocket, 1, n) \in Seq(1 .. MaxIn)
          BY <5>1, <5>2, SubSeqProperties
        <5>4. SubSeq(inSocket, n + 1, Len(inSocket)) \in Seq(1 .. MaxIn)
          BY <5>1, <5>2, SubSeqProperties
        <5>5. QED
          BY <4>1, <5>3, <5>4
      <4>3. QED
        BY <2>4, <3>1, <4>2, ZenonT(60) DEF RecvRead, RecvMoves
    <3>2. CASE inSocket = <<>>
      BY <2>4, <3>2 DEF RecvRead, RecvMoves
    <3>3. QED
      BY <3>1, <3>2
  <2>5. CASE RecvEOF
    BY <2>1, <2>5, CallMoves DEF RecvEOF, RecvMoves
  <2>6. CASE RecvFail
    BY <2>1, <2>6, CallMoves DEF RecvFail, RecvMoves
  <2>7. CASE RecvPush
    <3>1. RecvMoves("push", IF Len(batch) = 1 THEN "top" ELSE "push")
      BY <2>7 DEF RecvPush
    <3>2. batch # <<>>
      BY <3>1 DEF RecvMoves, HasBatch
    <3>3. /\ inPipe' \in Chan(1 .. MaxIn) /\ batch' \in Seq(1 .. MaxIn)
          /\ rpc' \in {"top", "check", "read", "push", "end"}
      BY <2>7, <3>1, <3>2, WrittenType, HeadTailProperties DEF RecvPush, RecvMoves
    <3>4. UNCHANGED <<flags, outPipe, closing, sendVars, mpc, stop, listener, peerVars, taken,
                      toPeer, accepted, outcome>>
      BY <2>7, <3>1 DEF RecvPush, RecvMoves
    <3>5. QED
      BY <3>3, <3>4
  <2>8. CASE RecvPushClosed
    BY <2>8 DEF RecvPushClosed, RecvMoves
  <2>9. QED
    BY <1>12, <2>2, <2>3, <2>4, <2>5, <2>6, <2>7, <2>8 DEF Recv
<1>13. CASE Send
  <2>1. "send" \in Actors /\ Reasons = {"by_self", "by_other", "by_accident"}
    BY DEF Actors, Reasons
  <2>2. CASE SendTop
    BY <2>1, <2>2, CallMoves DEF SendTop, SendTops, SendJobMoves
  <2>3. CASE SendTake
    <3>1. Consumed(outPipe) \in Chan(Msgs) /\ NextValue(outPipe) \in Msgs
      BY <2>3, ConsumedType DEF SendTake
    <3>2. QED
      BY <2>3, <3>1, AppendProperties DEF SendTake, SendJobMoves
  <2>4. CASE SendTakeEmpty
    BY <2>4 DEF SendTakeEmpty, SendJobMoves
  <2>5. CASE SendTakeClosed
    BY <2>5 DEF SendTakeClosed, SendJobMoves
  <2>6. CASE SendWrite
    BY <2>6, ConcatProperties DEF SendWrite, SendJobMoves
  <2>7. CASE SendWriteFail
    BY <2>1, <2>7, CallMoves DEF SendWriteFail, SendJobMoves
  <2>8. QED
    BY <1>13, <2>2, <2>3, <2>4, <2>5, <2>6, <2>7 DEF Send
<1>14. CASE PeerSends
  BY <1>14, AppendProperties DEF PeerSends
<1>15. CASE PeerCloses
  BY <1>15 DEF PeerCloses
<1>16. CASE Listen
  BY <1>16 DEF Listen, ListenTop, ListenAccept, ListenMoves
<1>17. CASE UNCHANGED vars
  BY <1>17 DEF vars
<1>18. QED
  BY <1>1, <1>2, <1>3, <1>4, <1>5, <1>6, <1>7, <1>8, <1>9, <1>10, <1>11, <1>12,
     <1>13, <1>14, <1>15, <1>16, <1>17 DEF Next, CloseNow

LEMMA BatchStep == TypeOK /\ HasBatch /\ [Next]_vars => HasBatch'
<1> SUFFICES ASSUME TypeOK, HasBatch, [Next]_vars PROVE HasBatch'
  OBVIOUS
<1>1. CASE UNCHANGED recvVars
  BY <1>1 DEF HasBatch, recvVars
<1>2. CASE Recv
  <2>1. CASE RecvRead
    <3>1. CASE inSocket # <<>>
      <4>1. PICK n \in 1 .. Len(inSocket) : batch' = SubSeq(inSocket, 1, n)
        BY <2>1, <3>1 DEF RecvRead
      <4>2. inSocket \in Seq(1 .. MaxIn)
        BY DEF TypeOK
      <4>3. /\ Len(inSocket) \in Nat
            /\ \A i \in 1 .. Len(inSocket) : inSocket[i] \in 1 .. MaxIn
        BY <4>2, LenProperties, ElementOfSeq
      <4>4. Len(batch') = n
        BY <4>1, <4>3, SubSeqProperties
      <4>5. n # 0 /\ Len(<<>>) = 0
        BY <4>1, <4>3
      <4>6. QED
        BY <4>4, <4>5 DEF HasBatch
    <3>2. CASE inSocket = <<>>
      BY <2>1, <3>2 DEF RecvRead, RecvMoves, HasBatch
    <3>3. QED
      BY <3>1, <3>2
  <2>2. CASE RecvPush
    <3>1. /\ rpc = "push" /\ batch' = Tail(batch)
          /\ rpc' = (IF Len(batch) = 1 THEN "top" ELSE "push")
      BY <2>2 DEF RecvPush, RecvMoves
    <3>2. batch \in Seq(1 .. MaxIn) /\ batch # <<>>
      BY <3>1 DEF TypeOK, HasBatch
    <3>3. Len(batch') = Len(batch) - 1 /\ Len(batch) \in Nat
      BY <3>1, <3>2, HeadTailProperties, LenProperties
    <3>4. QED
      <4>1. CASE rpc' = "push"
        <5>1. Len(batch') # 0 /\ Len(<<>>) = 0
          BY <3>1, <3>3, <4>1
        <5>2. QED
          BY <5>1 DEF HasBatch
      <4>2. CASE rpc' # "push"
        BY <4>2 DEF HasBatch
      <4>3. QED
        BY <4>1, <4>2
  <2>3. CASE RecvTop \/ RecvCheck \/ RecvEOF \/ RecvFail \/ RecvPushClosed
    BY <2>3 DEF RecvTop, RecvTops, RecvCheck, Continue, RecvEOF, RecvFail,
                RecvPushClosed, RecvMoves, HasBatch
  <2>4. QED
    BY <1>2, <2>1, <2>2, <2>3 DEF Recv
<1>3. ASSUME Next, ~Recv PROVE UNCHANGED recvVars
  BY <1>3, StepOfOthers
<1>4. QED
  BY <1>1, <1>2, <1>3 DEF vars, recvVars

\* Every reachable state of a connection is well typed.
THEOREM TypeCorrect == Spec => []TypeOK
<1>1. Init => HasBatch
  BY DEF Init, HasBatch
<1>2. QED
  BY <1>1, TypeInit, TypeStep, BatchStep, PTL DEF Spec

(***************************************************************************)
(* closeNow: the pipes are closed once.                                    *)
(***************************************************************************)

\* closeNow beyond the socket's Close.
Past == {"mark", "inPipe", "outPipe", "callback"}

\* Only one actor gets there.
OnePasses == \A a, b \in Actors : at[a] \in Past /\ at[b] \in Past => a = b

\* Until the socket is closed nothing of the connection is.
OpenUntilSocket ==
  sock = "open" => /\ ~isClosed /\ inPipe.open /\ outPipe.open /\ callbacks = 0
                   /\ \A a \in Actors : at[a] \notin Past

\* How far the one that has closed the socket has come.
HowFar ==
  \A a \in Actors :
    /\ at[a] \in Past => /\ callbacks = 0
                         /\ isClosed <=> at[a] # "mark"
                         /\ inPipe.open <=> at[a] \in {"mark", "inPipe"}
                         /\ outPipe.open <=> at[a] # "callback"

ReasonGiven == isClosed <=> closeReason # "none"

Closing == OnePasses /\ OpenUntilSocket /\ HowFar /\ ReasonGiven /\ ClosedOnce

\* A step that has no part in what follows the socket's Close.
KeepsClosing ==
  /\ UNCHANGED <<isClosed, closeReason, sock, panicked, callbacks>>
  /\ inPipe'.open = inPipe.open /\ outPipe'.open = outPipe.open
  /\ \A a \in Actors : at'[a] \in Past => at'[a] = at[a]

LEMMA CallKeepsClosing ==
  ASSUME TypeOK, NEW a \in Actors, NEW reason \in Reasons, Call(a, reason)
  PROVE  \A b \in Actors : at'[b] \in Past => at'[b] = at[b]
BY CallMoves DEF Past

LEMMA CloseTestKeepsClosing ==
  ASSUME TypeOK, NEW a \in Actors, CloseTest(a)
  PROVE  KeepsClosing
<1>1. /\ UNCHANGED <<isClosed, closeReason, sock, panicked, callbacks, inPipe, outPipe>>
      /\ Leave(a) \/ Goto(a, "socket")
  BY DEF CloseTest
<1>2. CASE Leave(a)
  BY <1>1, <1>2, LeaveMoves DEF KeepsClosing, Past
<1>3. CASE Goto(a, "socket")
  <2>1. "socket" \in Statements
    BY DEF Statements
  <2>2. QED
    BY <1>1, <1>3, <2>1, GotoMoves DEF KeepsClosing, Past
<1>4. QED
  BY <1>1, <1>2, <1>3

\* Neither the callers, nor recv, nor send, nor the other end close a pipe.
LEMMA OthersKeepClosing ==
  ASSUME TypeOK, HasBatch,
         \/ \E u \in Closers : Close(u)
         \/ \E m \in Msgs : SendMsg(m)
         \/ RecvMsg \/ Stop \/ StopReturn \/ Recv \/ Send
         \/ PeerSends \/ PeerCloses \/ Listen \/ UNCHANGED vars
  PROVE  KeepsClosing
<1> USE DEF flags, closing, recvVars, sendVars, peerVars, outcome, KeepsClosing
<1>1. /\ inPipe \in Chan(1 .. MaxIn) /\ outPipe \in Chan(Msgs)
      /\ "recv" \in Actors /\ "send" \in Actors /\ Closers \subseteq Actors
      /\ {"by_self", "by_other", "by_accident"} = Reasons
  BY DEF TypeOK, Actors, Reasons
<1>2. ASSUME NEW u \in Closers, Close(u) PROVE KeepsClosing
  BY <1>1, <1>2, CallKeepsClosing DEF Close
<1>3. ASSUME NEW m \in Msgs, SendMsg(m) PROVE KeepsClosing
  <2>1. Written(outPipe, m).open = outPipe.open
    BY <1>1, WrittenType
  <2>2. QED
    BY <1>3, <2>1 DEF SendMsg, SendTest, SendAccept, SendRefuse, SendMoves
<1>4. CASE RecvMsg
  BY <1>1, <1>4, ConsumedType DEF RecvMsg
<1>5. CASE Recv
  <2>1. /\ UNCHANGED <<isClosed, closeReason, sock, panicked, callbacks, outPipe>>
        /\ inPipe' = inPipe \/ RecvPush
        /\ UNCHANGED at \/ \E reason \in Reasons : Call("recv", reason)
    BY <1>1, <1>5 DEF Recv, RecvTop, RecvTops, RecvCheck, RecvRead, RecvEOF, RecvFail, RecvPush,
                      RecvPushClosed, RecvMoves
  <2>2. inPipe'.open = inPipe.open
    <3>1. CASE RecvPush
      <4>1. batch \in Seq(1 .. MaxIn) /\ batch # <<>> /\ inPipe' = Written(inPipe, Head(batch))
        BY <3>1 DEF RecvPush, RecvMoves, HasBatch, TypeOK
      <4>2. Head(batch) \in 1 .. MaxIn
        BY <4>1, HeadTailProperties
      <4>3. QED
        BY <1>1, <4>1, <4>2, WrittenType
    <3>2. QED
      BY <2>1, <3>1
  <2>3. QED
    BY <1>1, <2>1, <2>2, CallKeepsClosing
<1>6. CASE Send
  <2>1. /\ UNCHANGED <<isClosed, closeReason, sock, panicked, callbacks, inPipe>>
        /\ outPipe' = outPipe \/ SendTake
        /\ UNCHANGED at \/ \E reason \in Reasons : Call("send", reason)
    BY <1>1, <1>6 DEF Send, SendTop, SendTops, SendTake, SendTakeEmpty, SendTakeClosed,
                      SendWrite, SendWriteFail, SendJobMoves
  <2>2. outPipe'.open = outPipe.open
    BY <1>1, <2>1, ConsumedType DEF SendTake
  <2>3. QED
    BY <1>1, <2>1, <2>2, CallKeepsClosing
<1>7. CASE Stop \/ StopReturn \/ PeerSends \/ PeerCloses \/ Listen \/ UNCHANGED vars
  BY <1>7 DEF Stop, StopReturn, PeerSends, PeerCloses, Listen,
             ListenTop, ListenAccept, ListenMoves, vars
<1>8. QED
  BY <1>2, <1>3, <1>4, <1>5, <1>6, <1>7

LEMMA KeepsClosingStep ==
  ASSUME TypeOK, Closing, KeepsClosing
  PROVE  Closing'
BY DEF Closing, KeepsClosing, OnePasses, OpenUntilSocket, HowFar, ReasonGiven, ClosedOnce

\* The statements of closeNow, for the one actor whose Close of the socket succeeds.
LEMMA CloseNowStep ==
  ASSUME TypeOK, Closing, NEW a \in Actors, CloseNow(a)
  PROVE  Closing'
<1> USE DEF Closing, OnePasses, OpenUntilSocket, HowFar, ReasonGiven, ClosedOnce, flags
<1>1. CASE CloseTest(a)
  BY <1>1, CloseTestKeepsClosing, KeepsClosingStep
<1>2. CASE CloseSocket(a)
  <2>1. CASE sock = "open"
    BY <1>2, <2>1, GotoMoves DEF CloseSocket, ClosesSocket, Statements, Past, outcome
  <2>2. CASE sock # "open"
    BY <1>2, <2>2, LeaveMoves, ZenonT(60) DEF CloseSocket, ClosesSocket, Past, outcome, TypeOK
  <2>3. QED
    BY <2>1, <2>2
<1>3. CASE CloseMark(a)
  <2>1. why[a] # "none"
    BY DEF TypeOK, Reasons
  <2>2. QED
    BY <1>3, <2>1, GotoMoves DEF CloseMark, Statements, Past, outcome
<1>4. CASE CloseIn(a)
  <2>1. inPipe'.open = FALSE
    BY <1>4, ClosedType DEF CloseIn, TypeOK
  <2>2. QED
    BY <1>4, <2>1, GotoMoves, ZenonT(60) DEF CloseIn, Statements, Past
<1>5. CASE CloseOut(a)
  <2>1. outPipe'.open = FALSE
    BY <1>5, ClosedType DEF CloseOut, TypeOK
  <2>2. QED
    BY <1>5, <2>1, GotoMoves DEF CloseOut, Statements, Past
<1>6. CASE CloseCallback(a)
  BY <1>6, LeaveMoves DEF CloseCallback, Past
<1>7. QED
  BY <1>1, <1>2, <1>3, <1>4, <1>5, <1>6 DEF CloseNow

LEMMA ClosingStep == TypeOK /\ HasBatch /\ Closing /\ [Next]_vars => Closing'
BY OthersKeepClosing, KeepsClosingStep, CloseNowStep DEF Next

LEMMA Typed == Spec => [](TypeOK /\ HasBatch)
<1>1. Init => HasBatch
  BY DEF Init, HasBatch
<1>2. QED
  BY <1>1, TypeInit, TypeStep, BatchStep, PTL DEF Spec

LEMMA ClosingCorrect == Spec => []Closing
<1>1. Init => Closing
  BY DEF Init, Closing, OnePasses, OpenUntilSocket, HowFar, ReasonGiven, ClosedOnce, Past, NewChan
<1>2. QED
  BY <1>1, Typed, ClosingStep, PTL DEF Spec

\* Whoever executes closeNow, and however often, no pipe is closed twice, the owner is
\* told at most once, and when it is told everything has been closed.
THEOREM ClosedOnceCorrect == Spec => []ClosedOnce
BY ClosingCorrect, PTL DEF Closing

(***************************************************************************)
(* Messages arrive in order, in both directions.                           *)
(***************************************************************************)

\* What the goroutine send has taken from outPipe and not yet written.
Unwritten == IF spc = "top" THEN <<>> ELSE sendbuf

\* What waits in the two pipes.
Queued == outPipe.buf
Arrived == inPipe.buf

\* Until send ends, what was accepted is written, in its hands, or in outPipe.
OutOrder ==
  /\ Len(toPeer) <= Len(accepted)
  /\ \A i \in 1 .. Len(toPeer) : toPeer[i] = accepted[i]
  /\ spc # "end" =>
       /\ Len(accepted) = Len(toPeer) + Len(Unwritten) + Len(Queued)
       /\ \A i \in 1 .. Len(Unwritten) : Unwritten[i] = accepted[Len(toPeer) + i]
       /\ \A i \in 1 .. Len(Queued) :
            Queued[i] = accepted[Len(toPeer) + Len(Unwritten) + i]

\* The messages of the other end are numbered.  Until recv ends each of them is
\* taken, in inPipe, in the hands of recv, or in the socket, in this order.
Received == Len(taken) + Len(Arrived)
InNumbers ==
  /\ \A i \in 1 .. Len(taken) : taken[i] = i
  /\ \A i \in 1 .. Len(Arrived) : Arrived[i] = Len(taken) + i
  /\ rpc # "end" =>
       /\ \A i \in 1 .. Len(batch) : batch[i] = Received + i
       /\ \A i \in 1 .. Len(inSocket) : inSocket[i] = Received + Len(batch) + i
       /\ fromPeer = Received + Len(batch) + Len(inSocket)
  /\ rpc # "push" /\ rpc # "end" => batch = <<>>

\* The sequences of a connection, for the facts about sequences.
LEMMA SeqTypes ==
  ASSUME TypeOK
  PROVE  /\ toPeer \in Seq(Msgs) /\ accepted \in Seq(Msgs) /\ sendbuf \in Seq(Msgs)
         /\ outPipe \in Chan(Msgs) /\ Queued \in Seq(Msgs) /\ Unwritten \in Seq(Msgs)
         /\ inPipe \in Chan(1 .. MaxIn) /\ Arrived \in Seq(1 .. MaxIn)
         /\ taken \in Seq(1 .. MaxIn) /\ batch \in Seq(1 .. MaxIn)
         /\ inSocket \in Seq(1 .. MaxIn)
<1>1. <<>> \in Seq(Msgs)
  BY EmptySeq
<1>2. QED
  BY <1>1 DEF TypeOK, Chan, Unwritten, Queued, Arrived

LEMMA LenTypes ==
  ASSUME TypeOK
  PROVE  /\ Len(toPeer) \in Nat /\ Len(accepted) \in Nat /\ Len(sendbuf) \in Nat
         /\ Len(Queued) \in Nat /\ Len(Unwritten) \in Nat
         /\ Len(Arrived) \in Nat /\ Len(taken) \in Nat /\ Len(batch) \in Nat
         /\ Len(inSocket) \in Nat
<1>1. ASSUME NEW S, NEW s \in Seq(S) PROVE Len(s) \in Nat
  BY <1>1, LenProperties
<1>2. QED
  BY <1>1, SeqTypes

\* Only send and an accepted SendMsg move packets, only recv, RecvMsg and the other end
\* move messages.
LEMMA OutUnmoved ==
  ASSUME TypeOK, Next, ~Send, \A m \in Msgs : ~SendAccept(m)
  PROVE  UNCHANGED <<sendVars, toPeer, accepted>> /\ Queued' = Queued
<1> USE DEF sendVars, Queued, Arrived
<1>1. ASSUME NEW a \in Actors, CloseNow(a)
      PROVE  UNCHANGED <<sendVars, toPeer, accepted>> /\ Queued' = Queued
  <2>1. /\ UNCHANGED <<sendVars, toPeer, accepted>>
        /\ outPipe' = outPipe \/ outPipe' = Closed(outPipe)
    BY <1>1 DEF CloseNow, CloseTest, CloseSocket, ClosesSocket, CloseMark, CloseIn, CloseOut,
                CloseCallback
  <2>2. QED
    BY <2>1, SeqTypes, ClosedType DEF Queued, Arrived
<1>2. ASSUME NEW m \in Msgs, SendMsg(m)
      PROVE  UNCHANGED <<sendVars, toPeer, accepted>> /\ Queued' = Queued
  BY <1>2 DEF SendMsg, SendTest, SendRefuse, SendMoves
<1>3. CASE Recv
  BY <1>3 DEF Recv, RecvTop, RecvTops, RecvCheck, RecvRead, RecvEOF, RecvFail, RecvPush,
              RecvPushClosed, RecvMoves
<1>4. QED
  BY <1>1, <1>2, <1>3 DEF Next, Close, RecvMsg, Stop, StopReturn, PeerSends, PeerCloses, Listen,
             ListenTop, ListenAccept, ListenMoves

LEMMA InUnmoved ==
  ASSUME TypeOK, Next, ~Recv, ~RecvMsg, ~PeerSends
  PROVE  UNCHANGED <<recvVars, inSocket, fromPeer, taken>> /\ Arrived' = Arrived
<1> USE DEF recvVars, peerVars, Queued, Arrived
<1>1. ASSUME NEW a \in Actors, CloseNow(a)
      PROVE  UNCHANGED <<recvVars, inSocket, fromPeer, taken>> /\ Arrived' = Arrived
  <2>1. /\ UNCHANGED <<recvVars, inSocket, fromPeer, taken>>
        /\ inPipe' = inPipe \/ inPipe' = Closed(inPipe)
    BY <1>1 DEF CloseNow, CloseTest, CloseSocket, ClosesSocket, CloseMark, CloseIn, CloseOut,
                CloseCallback
  <2>2. QED
    BY <2>1, SeqTypes, ClosedType DEF Queued, Arrived
<1>2. ASSUME NEW m \in Msgs, SendMsg(m)
      PROVE  UNCHANGED <<recvVars, inSocket, fromPeer, taken>> /\ Arrived' = Arrived
  BY <1>2 DEF SendMsg, SendTest, SendAccept, SendRefuse, SendMoves
<1>3. CASE Send
  BY <1>3 DEF Send, SendTop, SendTops, SendTake, SendTakeEmpty, SendTakeClosed, SendWrite,
              SendWriteFail, SendJobMoves
<1>4. QED
  BY <1>1, <1>2, <1>3 DEF Next, Close, Stop, StopReturn, PeerCloses, Listen,
             ListenTop, ListenAccept, ListenMoves

\* An accepted packet is the last one of outPipe.
LEMMA AcceptOrder ==
  ASSUME TypeOK, OutOrder, NEW m \in Msgs, SendAccept(m)
  PROVE  OutOrder'
<1>0. /\ Len(toPeer) \in Nat /\ Len(accepted) \in Nat /\ Len(sendbuf) \in Nat
      /\ Len(Queued) \in Nat /\ Len(Unwritten) \in Nat
  BY LenTypes
<1>1. /\ UNCHANGED <<spc, sendbuf, toPeer>>
      /\ accepted' = Append(accepted, m) /\ outPipe' = Written(outPipe, m)
  BY DEF SendAccept, SendMoves, sendVars
<1>2. Queued' = Append(Queued, m)
  BY <1>1, SeqTypes, WrittenType DEF Queued
<1>3. Unwritten' = Unwritten /\ toPeer' = toPeer /\ spc' = spc
  BY <1>1 DEF Unwritten
<1>4. /\ Len(accepted') = Len(accepted) + 1
      /\ \A i \in 1 .. Len(accepted) : accepted'[i] = accepted[i]
      /\ accepted'[Len(accepted) + 1] = m
  BY <1>1, SeqTypes, AppendProperties
<1>5. /\ Len(Queued') = Len(Queued) + 1
      /\ \A i \in 1 .. Len(Queued) : Queued'[i] = Queued[i]
      /\ Queued'[Len(Queued) + 1] = m
  BY <1>2, SeqTypes, AppendProperties
<1>6. Len(toPeer') <= Len(accepted') /\ \A i \in 1 .. Len(toPeer') : toPeer'[i] = accepted'[i]
  BY <1>1, <1>4, LenTypes DEF OutOrder
<1>7. ASSUME spc' # "end"
      PROVE  /\ Len(accepted') = Len(toPeer') + Len(Unwritten') + Len(Queued')
             /\ \A i \in 1 .. Len(Unwritten') : Unwritten'[i] = accepted'[Len(toPeer') + i]
             /\ \A i \in 1 .. Len(Queued') :
                  Queued'[i] = accepted'[Len(toPeer') + Len(Unwritten') + i]
  <2>1. Len(accepted) = Len(toPeer) + Len(Unwritten) + Len(Queued)
    BY <1>1, <1>7 DEF OutOrder
  <2>2. ASSUME NEW i \in 1 .. Len(Unwritten)
        PROVE  Unwritten'[i] = accepted'[Len(toPeer') + i]
    <3>1. Len(toPeer) + i \in 1 .. Len(accepted)
      BY <2>1, <1>0
    <3>2. Unwritten[i] = accepted[Len(toPeer) + i]
      BY <1>1, <1>7 DEF OutOrder
    <3>3. QED
      BY <1>3, <1>4, <3>1, <3>2
  <2>3. ASSUME NEW i \in 1 .. Len(Queued) + 1
        PROVE  Queued'[i] = accepted'[Len(toPeer') + Len(Unwritten') + i]
    <3>1. CASE i = Len(Queued) + 1
      <4>1. Len(toPeer) + Len(Unwritten) + i = Len(accepted) + 1
        BY <2>1, <3>1, <1>0
      <4>2. QED
        BY <1>3, <1>4, <1>5, <3>1, <4>1
    <3>2. CASE i # Len(Queued) + 1
      <4>1. i \in 1 .. Len(Queued)
        BY <3>2, <1>0
      <4>2. Len(toPeer) + Len(Unwritten) + i \in 1 .. Len(accepted)
        BY <2>1, <4>1, <1>0
      <4>3. Queued[i] = accepted[Len(toPeer) + Len(Unwritten) + i]
        BY <1>1, <1>7, <4>1 DEF OutOrder
      <4>4. QED
        BY <1>3, <1>4, <1>5, <4>1, <4>2, <4>3
    <3>3. QED
      BY <3>1, <3>2
  <2>4. Len(accepted') = Len(toPeer') + Len(Unwritten') + Len(Queued')
    BY <1>0, <1>3, <1>4, <1>5, <2>1
  <2>5. QED
    BY <1>3, <1>5, <2>2, <2>3, <2>4
<1>8. QED
  BY <1>6, <1>7 DEF OutOrder

\* send passes packets on from outPipe to the socket.
LEMMA SendOrder ==
  ASSUME TypeOK, OutOrder, Send
  PROVE  OutOrder'
<1> USE DEF OutOrder
<1>0. /\ Len(toPeer) \in Nat /\ Len(accepted) \in Nat /\ Len(sendbuf) \in Nat
      /\ Len(Queued) \in Nat /\ Len(Unwritten) \in Nat
  BY LenTypes
<1>1. UNCHANGED accepted
  BY DEF Send, SendTop, SendTops, SendTake, SendTakeEmpty, SendTakeClosed, SendWrite,
         SendWriteFail, SendJobMoves
<1>2. CASE SendTop
  <2>1. UNCHANGED <<outPipe, toPeer>> /\ spc = "top" /\ sendbuf' = <<>>
    BY <1>2 DEF SendTop, SendTops, SendJobMoves
  <2>2. Unwritten' = Unwritten /\ Queued' = Queued
    BY <2>1 DEF Unwritten, Queued
  <2>3. QED
    BY <1>1, <2>1, <2>2
<1>3. CASE SendTake
  <2>1. /\ UNCHANGED toPeer /\ spc = "take" /\ spc' \in {"take", "write"}
        /\ CanRead(outPipe) /\ outPipe' = Consumed(outPipe)
        /\ sendbuf' = Append(sendbuf, NextValue(outPipe))
    BY <1>3 DEF SendTake, SendJobMoves
  <2>2. Unwritten = sendbuf /\ Unwritten' = sendbuf'
    BY <2>1 DEF Unwritten
  <2>3. /\ Queued # <<>> /\ Queued' = Tail(Queued)
        /\ NextValue(outPipe) \in Msgs /\ NextValue(outPipe) = Queued[1]
    BY <2>1, SeqTypes, ConsumedType DEF CanRead, NextValue, Queued
  <2>4. /\ Len(Queued') = Len(Queued) - 1
        /\ \A i \in 1 .. Len(Queued') : Queued'[i] = Queued[i + 1]
    BY <2>3, SeqTypes, HeadTailProperties
  <2>5. /\ Len(sendbuf') = Len(sendbuf) + 1
        /\ \A i \in 1 .. Len(sendbuf) : sendbuf'[i] = sendbuf[i]
        /\ sendbuf'[Len(sendbuf) + 1] = Queued[1]
    BY <2>1, <2>3, SeqTypes, AppendProperties
  <2>6. Len(Queued) >= 1
    BY <2>3, SeqTypes, EmptySeq, LenTypes
  <2>7. Queued[1] = accepted[Len(toPeer) + Len(sendbuf) + 1]
    <3>1. 1 \in 1 .. Len(Queued)
      BY <2>6, <1>0
    <3>2. QED
      BY <2>1, <2>2, <3>1
  <2>8. \A i \in 1 .. Len(sendbuf') : sendbuf'[i] = accepted[Len(toPeer) + i]
    <3>1. TAKE i \in 1 .. Len(sendbuf')
    <3>2. CASE i = Len(sendbuf) + 1
      BY <2>5, <2>7, <3>2, LenTypes
    <3>3. CASE i # Len(sendbuf) + 1
      <4>1. i \in 1 .. Len(sendbuf)
        BY <2>5, <3>3, LenTypes
      <4>2. QED
        BY <2>1, <2>2, <2>5, <4>1
    <3>4. QED
      BY <3>2, <3>3
  <2>9. \A i \in 1 .. Len(Queued') :
          Queued'[i] = accepted[Len(toPeer) + Len(sendbuf') + i]
    <3>1. TAKE i \in 1 .. Len(Queued')
    <3>2. i + 1 \in 1 .. Len(Queued)
      BY <2>4, LenTypes
    <3>3. Queued[i + 1] = accepted[Len(toPeer) + Len(sendbuf) + (i + 1)]
      BY <2>1, <2>2, <3>2
    <3>4. Len(toPeer) + Len(sendbuf) + (i + 1) = Len(toPeer) + Len(sendbuf') + i
      BY <2>5, LenTypes
    <3>5. QED
      BY <2>4, <3>3, <3>4
  <2>10. Len(accepted) = Len(toPeer) + Len(sendbuf') + Len(Queued')
    <3>1. Len(accepted) = Len(toPeer) + Len(sendbuf) + Len(Queued)
      BY <2>1, <2>2
    <3>2. QED
      BY <1>0, <2>4, <2>5, <3>1
  <2>11. QED
    BY <1>1, <2>1, <2>2, <2>8, <2>9, <2>10
<1>4. CASE SendTakeEmpty
  <2>1. /\ UNCHANGED <<outPipe, sendbuf, toPeer>> /\ spc = "take"
        /\ spc' = (IF sendbuf = <<>> THEN "top" ELSE "write")
    BY <1>4 DEF SendTakeEmpty, SendJobMoves
  <2>2. Unwritten' = Unwritten /\ Queued' = Queued
    BY <2>1 DEF Unwritten, Queued
  <2>3. QED
    BY <1>1, <2>1, <2>2
<1>5. CASE SendWrite
  <2>1. /\ UNCHANGED outPipe /\ spc = "write" /\ spc' = "top"
        /\ toPeer' = toPeer \o sendbuf
    BY <1>5 DEF SendWrite, SendJobMoves
  <2>2. Unwritten = sendbuf /\ Unwritten' = <<>> /\ Len(<<>>) = 0 /\ Queued' = Queued
    BY <2>1 DEF Unwritten, Queued
  <2>3. /\ Len(toPeer') = Len(toPeer) + Len(sendbuf)
        /\ \A i \in 1 .. Len(toPeer) + Len(sendbuf) :
             toPeer'[i] = IF i <= Len(toPeer) THEN toPeer[i] ELSE sendbuf[i - Len(toPeer)]
    BY <2>1, SeqTypes, ConcatProperties
  <2>4. \A i \in 1 .. Len(toPeer') : toPeer'[i] = accepted[i]
    <3>1. TAKE i \in 1 .. Len(toPeer')
    <3>2. CASE i <= Len(toPeer)
      BY <2>3, <3>2, LenTypes
    <3>3. CASE ~(i <= Len(toPeer))
      <4>1. i - Len(toPeer) \in 1 .. Len(sendbuf) /\ Len(toPeer) + (i - Len(toPeer)) = i
        BY <2>3, <3>3, LenTypes
      <4>2. sendbuf[i - Len(toPeer)] = accepted[i]
        BY <2>1, <2>2, <4>1
      <4>3. QED
        BY <2>3, <3>3, <4>2
    <3>4. QED
      BY <3>2, <3>3
  <2>5. Len(accepted) = Len(toPeer) + Len(sendbuf) + Len(Queued)
    BY <2>1, <2>2
  <2>6. Len(toPeer') + Len(Unwritten') = Len(toPeer) + Len(sendbuf)
    <3>1. Len(Unwritten') = 0
      BY <2>2
    <3>2. QED
      BY <2>3, <3>1, <1>0
  <2>7. /\ Len(toPeer') <= Len(accepted)
        /\ Len(accepted) = Len(toPeer') + Len(Unwritten') + Len(Queued)
    <3>1. Len(accepted) = Len(toPeer') + Len(Unwritten') + Len(Queued)
      BY <2>5, <2>6
    <3>2. Len(toPeer') <= Len(accepted)
      BY <1>0, <2>3, <2>5
    <3>3. QED
      BY <3>1, <3>2
  <2>8. \A i \in 1 .. Len(Queued) :
          Queued[i] = accepted[Len(toPeer') + Len(Unwritten') + i]
    BY <2>1, <2>2, <2>6
  <2>9. \A i \in 1 .. Len(Unwritten') : FALSE
    BY <2>2
  <2>10. QED
    BY <1>1, <2>1, <2>2, <2>4, <2>7, <2>8, <2>9
<1>6. CASE SendTakeClosed \/ SendWriteFail
  BY <1>1, <1>6 DEF SendTakeClosed, SendWriteFail, SendJobMoves
<1>7. QED
  BY <1>2, <1>3, <1>4, <1>5, <1>6 DEF Send

LEMMA OutStep == TypeOK /\ OutOrder /\ [Next]_vars => OutOrder'
<1> SUFFICES ASSUME TypeOK, OutOrder, [Next]_vars PROVE OutOrder'
  OBVIOUS
<1>1. ASSUME UNCHANGED <<sendVars, toPeer, accepted>>, Queued' = Queued
      PROVE  OutOrder'
  BY <1>1 DEF OutOrder, Unwritten, sendVars
<1>2. CASE UNCHANGED vars
  BY <1>1, <1>2 DEF vars, sendVars, Queued
<1>3. QED
  BY <1>1, <1>2, OutUnmoved, AcceptOrder, SendOrder

\* RecvMsg takes the first message of inPipe.
LEMMA TakeOrder ==
  ASSUME TypeOK, InNumbers, RecvMsg
  PROVE  InNumbers'
<1>0. Len(taken) \in Nat /\ Len(Arrived) \in Nat /\ Len(batch) \in Nat /\ Len(inSocket) \in Nat
  BY LenTypes
<1>1. /\ UNCHANGED <<recvVars, inSocket, fromPeer>> /\ CanRead(inPipe)
      /\ taken' = Append(taken, NextValue(inPipe)) /\ inPipe' = Consumed(inPipe)
  BY DEF RecvMsg, peerVars
<1>2. /\ Arrived # <<>> /\ Arrived' = Tail(Arrived)
      /\ NextValue(inPipe) \in 1 .. MaxIn /\ NextValue(inPipe) = Arrived[1]
  <2>1. inPipe \in Chan(1 .. MaxIn) /\ inPipe.buf \in Seq(1 .. MaxIn)
    BY SeqTypes DEF TypeOK, Chan
  <2>2. inPipe.buf # <<>> /\ inPipe'.buf = Tail(inPipe.buf) /\ NextValue(inPipe) \in 1 .. MaxIn
    BY <1>1, <2>1, ConsumedType DEF CanRead
  <2>3. Head(inPipe.buf) = inPipe.buf[1]
    BY <2>1, <2>2
  <2>4. QED
    BY <2>2, <2>3 DEF NextValue, Arrived
<1>3. /\ Len(Arrived') = Len(Arrived) - 1
      /\ \A i \in 1 .. Len(Arrived') : Arrived'[i] = Arrived[i + 1]
  BY <1>2, SeqTypes, HeadTailProperties
<1>4. /\ Len(taken') = Len(taken) + 1
      /\ \A i \in 1 .. Len(taken) : taken'[i] = taken[i]
      /\ taken'[Len(taken) + 1] = Arrived[1]
  BY <1>1, <1>2, SeqTypes, AppendProperties
<1>5. Len(Arrived) >= 1
  BY <1>2, SeqTypes, EmptySeq, <1>0
<1>6. Received' = Received
  BY <1>0, <1>3, <1>4 DEF Received
<1>7. \A i \in 1 .. Len(taken') : taken'[i] = i
  <2>1. Arrived[1] = Len(taken) + 1
    BY <1>0, <1>5 DEF InNumbers
  <2>2. \A i \in 1 .. Len(taken) : taken'[i] = i
    BY <1>4 DEF InNumbers
  <2>3. QED
    BY <1>0, <1>4, <2>1, <2>2
<1>8. \A i \in 1 .. Len(Arrived') : Arrived'[i] = Len(taken') + i
  <2>1. TAKE i \in 1 .. Len(Arrived')
  <2>2. i + 1 \in 1 .. Len(Arrived)
    BY <1>0, <1>3
  <2>3. Arrived[i + 1] = Len(taken) + (i + 1)
    BY <2>2 DEF InNumbers
  <2>4. QED
    BY <1>0, <1>3, <1>4, <2>3
<1>9. QED
  BY <1>1, <1>6, <1>7, <1>8 DEF InNumbers, recvVars

\* The other end sends the next number.
LEMMA PeerOrder ==
  ASSUME TypeOK, InNumbers, PeerSends
  PROVE  InNumbers'
<1>0. /\ Len(taken) \in Nat /\ Len(Arrived) \in Nat /\ Len(batch) \in Nat
      /\ Len(inSocket) \in Nat /\ Received \in Nat
  BY LenTypes DEF Received
<1>1. /\ UNCHANGED <<recvVars, inPipe, taken>> /\ fromPeer < MaxIn
      /\ fromPeer' = fromPeer + 1 /\ inSocket' = Append(inSocket, fromPeer + 1)
  BY DEF PeerSends
<1>2. fromPeer + 1 \in 1 .. MaxIn
  BY <1>1, ConnAssumption DEF TypeOK, ConnAssumption
<1>3. /\ Len(inSocket') = Len(inSocket) + 1
      /\ \A i \in 1 .. Len(inSocket) : inSocket'[i] = inSocket[i]
      /\ inSocket'[Len(inSocket) + 1] = fromPeer + 1
  BY <1>1, <1>2, SeqTypes, AppendProperties
<1>4. Received' = Received /\ Arrived' = Arrived /\ batch' = batch /\ rpc' = rpc
  BY <1>1 DEF Received, Arrived, recvVars
<1>5. ASSUME rpc # "end"
      PROVE  /\ \A i \in 1 .. Len(inSocket') : inSocket'[i] = Received + Len(batch) + i
             /\ fromPeer' = Received + Len(batch) + Len(inSocket')
  <2>1. /\ \A i \in 1 .. Len(inSocket) : inSocket[i] = Received + Len(batch) + i
        /\ fromPeer = Received + Len(batch) + Len(inSocket)
    BY <1>5 DEF InNumbers
  <2>2. fromPeer' = Received + Len(batch) + Len(inSocket')
    BY <1>0, <1>1, <1>3, <2>1
  <2>3. ASSUME NEW i \in 1 .. Len(inSocket')
        PROVE  inSocket'[i] = Received + Len(batch) + i
    <3>1. CASE i = Len(inSocket) + 1
      BY <1>0, <1>3, <2>1, <3>1
    <3>2. CASE i # Len(inSocket) + 1
      <4>1. i \in 1 .. Len(inSocket)
        BY <1>0, <1>3, <3>2
      <4>2. QED
        BY <1>3, <2>1, <4>1
    <3>3. QED
      BY <3>1, <3>2
  <2>4. QED
    BY <2>2, <2>3
<1>6. QED
  BY <1>1, <1>4, <1>5 DEF InNumbers

\* recv reads a batch from the socket.
LEMMA ReadOrder ==
  ASSUME TypeOK, InNumbers, RecvRead
  PROVE  InNumbers'
<1>0. /\ Len(taken) \in Nat /\ Len(Arrived) \in Nat /\ Len(batch) \in Nat
      /\ Len(inSocket) \in Nat /\ Received \in Nat
  BY LenTypes DEF Received
<1>1. UNCHANGED <<inPipe, taken, fromPeer>> /\ rpc = "read"
  BY DEF RecvRead, RecvMoves
<1>2. Received' = Received /\ Arrived' = Arrived
  BY <1>1 DEF Received, Arrived
<1>3. /\ batch = <<>> /\ Len(<<>>) = 0
      /\ \A i \in 1 .. Len(inSocket) : inSocket[i] = Received + Len(batch) + i
      /\ fromPeer = Received + Len(batch) + Len(inSocket)
  BY <1>1 DEF InNumbers
<1>4. CASE inSocket # <<>>
  <2>1. PICK n \in 1 .. Len(inSocket) :
          /\ rpc' = "push"
          /\ batch' = SubSeq(inSocket, 1, n)
          /\ inSocket' = SubSeq(inSocket, n + 1, Len(inSocket))
    BY <1>4 DEF RecvRead, RecvMoves
  <2>2. \A i \in 1 .. Len(inSocket) : inSocket[i] \in 1 .. MaxIn
    BY SeqTypes, ElementOfSeq
  <2>3. /\ Len(batch') = n
        /\ \A i \in 1 .. n : batch'[i] = inSocket[i]
    BY <1>0, <2>1, <2>2, SubSeqProperties
  <2>4. /\ Len(inSocket') = Len(inSocket) - n
        /\ \A i \in 1 .. Len(inSocket) - n : inSocket'[i] = inSocket[n + i]
    BY <1>0, <2>1, <2>2, SubSeqProperties
  <2>5. \A i \in 1 .. Len(batch') : batch'[i] = Received' + i
    BY <1>0, <1>2, <1>3, <2>3
  <2>6. \A i \in 1 .. Len(inSocket') : inSocket'[i] = Received' + Len(batch') + i
    <3>1. TAKE i \in 1 .. Len(inSocket')
    <3>2. n + i \in 1 .. Len(inSocket)
      BY <1>0, <2>4
    <3>3. inSocket[n + i] = Received + Len(batch) + (n + i)
      BY <1>3, <3>2
    <3>4. QED
      BY <1>0, <1>2, <1>3, <2>3, <2>4, <3>3
  <2>7. fromPeer' = Received' + Len(batch') + Len(inSocket')
    BY <1>0, <1>1, <1>2, <1>3, <2>3, <2>4
  <2>8. QED
    BY <1>1, <1>2, <2>1, <2>5, <2>6, <2>7 DEF InNumbers
<1>5. CASE inSocket = <<>>
  <2>1. UNCHANGED <<batch, inSocket>> /\ rpc' = "top"
    BY <1>5 DEF RecvRead, RecvMoves
  <2>2. QED
    BY <1>1, <1>2, <2>1 DEF InNumbers
<1>6. QED
  BY <1>4, <1>5

\* recv puts the first message of the batch into inPipe.
LEMMA PushOrder ==
  ASSUME TypeOK, HasBatch, InNumbers, RecvPush
  PROVE  InNumbers'
<1>0. /\ Len(taken) \in Nat /\ Len(Arrived) \in Nat /\ Len(batch) \in Nat
      /\ Len(inSocket) \in Nat /\ Received \in Nat
  BY LenTypes DEF Received
<1>1. /\ UNCHANGED <<inSocket, taken, fromPeer>> /\ rpc = "push"
      /\ rpc' = (IF Len(batch) = 1 THEN "top" ELSE "push")
      /\ inPipe' = Written(inPipe, Head(batch)) /\ batch' = Tail(batch)
  BY DEF RecvPush, RecvMoves
<1>2. batch # <<>>
  BY <1>1 DEF HasBatch
<1>3. /\ Head(batch) \in 1 .. MaxIn /\ Head(batch) = batch[1]
      /\ batch' \in Seq(1 .. MaxIn)
      /\ Len(batch') = Len(batch) - 1
      /\ \A i \in 1 .. Len(batch') : batch'[i] = batch[i + 1]
  <2>1. batch \in Seq(1 .. MaxIn)
    BY SeqTypes
  <2>2. Head(batch) = batch[1]
    BY <1>2, <2>1
  <2>3. QED
    BY <1>1, <1>2, <2>1, <2>2, HeadTailProperties
<1>4. Len(batch) >= 1
  <2>1. batch \in Seq(1 .. MaxIn)
    BY SeqTypes
  <2>2. QED
    BY <1>0, <1>2, <2>1
<1>5. Arrived' = Append(Arrived, batch[1])
  <2>1. inPipe \in Chan(1 .. MaxIn)
    BY SeqTypes
  <2>2. Written(inPipe, Head(batch)).buf = Append(inPipe.buf, Head(batch))
    BY <1>3, <2>1, WrittenType
  <2>3. QED
    BY <1>1, <1>3, <2>2 DEF Arrived
<1>6. /\ Len(Arrived') = Len(Arrived) + 1
      /\ \A i \in 1 .. Len(Arrived) : Arrived'[i] = Arrived[i]
      /\ Arrived'[Len(Arrived) + 1] = batch[1]
  BY <1>3, <1>5, SeqTypes, AppendProperties
<1>7. /\ \A i \in 1 .. Len(batch) : batch[i] = Received + i
      /\ \A i \in 1 .. Len(inSocket) : inSocket[i] = Received + Len(batch) + i
      /\ fromPeer = Received + Len(batch) + Len(inSocket)
  BY <1>1 DEF InNumbers
<1>8. Received' = Received + 1 /\ Received = Len(taken) + Len(Arrived)
  BY <1>0, <1>1, <1>6 DEF Received
<1>9. \A i \in 1 .. Len(Arrived') : Arrived'[i] = Len(taken) + i
  <2>1. batch[1] = Received + 1
    BY <1>0, <1>4, <1>7
  <2>2. TAKE i \in 1 .. Len(Arrived')
  <2>3. CASE i = Len(Arrived) + 1
    BY <1>0, <1>6, <1>8, <2>1, <2>3
  <2>4. CASE i # Len(Arrived) + 1
    <3>1. i \in 1 .. Len(Arrived)
      BY <1>0, <1>6, <2>4
    <3>2. QED
      BY <1>6, <3>1 DEF InNumbers
  <2>5. QED
    BY <2>3, <2>4
<1>10. \A i \in 1 .. Len(batch') : batch'[i] = Received' + i
  <2>1. TAKE i \in 1 .. Len(batch')
  <2>2. i + 1 \in 1 .. Len(batch)
    BY <1>0, <1>3
  <2>3. QED
    BY <1>0, <1>3, <1>7, <1>8, <2>2
<1>11. /\ \A i \in 1 .. Len(inSocket) : inSocket[i] = Received' + Len(batch') + i
       /\ fromPeer = Received' + Len(batch') + Len(inSocket)
  <2>1. Received' + Len(batch') = Received + Len(batch)
    BY <1>0, <1>3, <1>8
  <2>2. QED
    BY <1>7, <2>1
<1>12. rpc' # "push" => batch' = <<>>
  <2>1. HAVE rpc' # "push"
  <2>2. Len(batch') = 0
    BY <1>0, <1>1, <1>3, <2>1
  <2>3. QED
    BY <1>3, <2>2, EmptySeq
<1>13. QED
  BY <1>1, <1>9, <1>10, <1>11, <1>12 DEF InNumbers

LEMMA InStep == TypeOK /\ HasBatch /\ InNumbers /\ [Next]_vars => InNumbers'
<1> SUFFICES ASSUME TypeOK, HasBatch, InNumbers, [Next]_vars PROVE InNumbers'
  OBVIOUS
<1>1. ASSUME UNCHANGED <<recvVars, inSocket, fromPeer, taken>>, Arrived' = Arrived
      PROVE  InNumbers'
  BY <1>1 DEF InNumbers, Received, recvVars
<1>2. CASE UNCHANGED vars
  BY <1>1, <1>2 DEF vars, recvVars, Arrived
<1>3. CASE RecvTop \/ RecvCheck
  <2>1. /\ UNCHANGED <<batch, inSocket, fromPeer, taken, inPipe>>
        /\ rpc \notin {"push", "end"} /\ rpc' # "push"
    BY <1>3 DEF RecvTop, RecvTops, RecvCheck, RecvMoves, Continue
  <2>2. QED
    BY <2>1 DEF InNumbers, Received, Arrived
<1>4. CASE RecvEOF \/ RecvFail \/ RecvPushClosed
  BY <1>4 DEF RecvEOF, RecvFail, RecvPushClosed, RecvMoves, InNumbers, Received, Arrived
<1>5. CASE Recv
  BY <1>3, <1>4, <1>5, ReadOrder, PushOrder DEF Recv
<1>6. QED
  BY <1>1, <1>2, <1>5, InUnmoved, TakeOrder, PeerOrder

LEMMA Ordered == Spec => [](TypeOK /\ OutOrder /\ InNumbers)
<1>1. Init => OutOrder /\ InNumbers
  <2>1. HAVE Init
  <2>2. /\ toPeer = <<>> /\ accepted = <<>> /\ sendbuf = <<>> /\ Queued = <<>> /\ taken = <<>>
        /\ batch = <<>> /\ inSocket = <<>> /\ Arrived = <<>> /\ fromPeer = 0 /\ Unwritten = <<>>
    BY <2>1 DEF Init, NewChan, Queued, Arrived, Unwritten
  <2>3. Len(<<>>) = 0 /\ \A i \in 1 .. 0 : FALSE
    OBVIOUS
  <2>4. QED
    BY <2>2, <2>3 DEF OutOrder, InNumbers, Received
<1>2. QED
  BY <1>1, Typed, OutStep, InStep, PTL DEF Spec

\* What SendMsg accepts is written in order, without gaps or duplicates, and RecvMsg
\* returns what the other end sent, in order.
THEOREM InOrderCorrect == Spec => []InOrder
<1>1. TypeOK /\ OutOrder /\ InNumbers => InOrder
  <2> SUFFICES ASSUME TypeOK, OutOrder, InNumbers PROVE InOrder
    OBVIOUS
  <2>2. Len(toPeer) \in Nat /\ Len(accepted) \in Nat /\ Len(toPeer) <= Len(accepted)
    BY LenTypes DEF OutOrder
  <2>3. /\ \A i \in 1 .. Len(toPeer) : toPeer[i] \in Msgs
        /\ \A i \in 1 .. Len(toPeer) : accepted[i] \in Msgs
    BY <2>2, SeqTypes, ElementOfSeq
  <2>4. SubSeq(toPeer, 1, Len(toPeer)) = SubSeq(accepted, 1, Len(toPeer))
    <3> DEFINE s == SubSeq(toPeer, 1, Len(toPeer))
               t == SubSeq(accepted, 1, Len(toPeer))
    <3>1. /\ s \in Seq(Msgs) /\ Len(s) = Len(toPeer)
          /\ \A i \in 1 .. Len(toPeer) : s[i] = toPeer[i]
      BY <2>2, <2>3, SubSeqProperties
    <3>2. /\ t \in Seq(Msgs) /\ Len(t) = Len(toPeer)
          /\ \A i \in 1 .. Len(toPeer) : t[i] = accepted[i]
      BY <2>2, <2>3, SubSeqProperties
    <3>3. \A i \in 1 .. Len(s) : s[i] = t[i]
      BY <3>1, <3>2 DEF OutOrder
    <3> HIDE DEF s, t
    <3>4. s = t
      BY <3>1, <3>2, <3>3, SeqEqual
    <3>5. QED
      BY <3>4 DEF s, t
  <2>5. taken = [i \in 1 .. Len(taken) |-> i]
    <3>1. DOMAIN taken = 1 .. Len(taken) /\ taken \in [1 .. Len(taken) -> 1 .. MaxIn]
      BY SeqTypes, LenProperties
    <3>2. QED
      BY <3>1 DEF InNumbers
  <2>6. QED
    BY <2>2, <2>4, <2>5 DEF InOrder, IsPrefix
<1>2. QED
  BY <1>1, Ordered, PTL

(***************************************************************************)
(* A graceful close.                                                       *)
(***************************************************************************)

\* Actor a executes a normal close; the actors other than send that have begun one;
\* there is one of them at most.
Asks(a) == at[a] # "out" /\ why[a] = "by_self"
Askers == asked \ {"send"}
SoleAsker == \A a, b \in Askers : a = b

\* aboutToClose is set by one of the askers.  recv asks only once: it waits in "check"
\* for its closeNow to return, and then finds the connection about to close.
Asking ==
  /\ IsFiniteSet(asked)
  /\ \A a \in Actors : Asks(a) => a \in asked
  /\ aboutToClose => Askers # {}
  /\ "recv" \in asked => rpc \in {"check", "end"}
  /\ rpc = "check" => aboutToClose \/ isClosed \/ (at["recv"] = "test" /\ Asks("recv"))

\* send asks only when all that was promised is written, and the sole asker does no more
\* than announce the close.
Draining ==
  /\ promised <= Len(accepted)
  /\ Asks("send") => aboutToClose /\ promised <= Len(toPeer)
  /\ SoleAsker => /\ \A a \in Actors \ {"send"} :
                       Asks(a) => at[a] = "test" /\ ~aboutToClose
                  /\ DrainBeforeClose

Graceful == Asking /\ Draining

LEMMA SpecialActors ==
  /\ "send" \in Actors /\ "recv" \in Actors /\ Closers \subseteq Actors
  /\ "by_self" \in Reasons /\ "by_other" \in Reasons /\ "by_accident" \in Reasons
BY DEF Actors, Reasons

\* recv moves on without a call of closeNow.
RecvGoesOn == rpc' # "check" /\ ("recv" \in asked => rpc' = "end")

\* A step outside of closeNow.
LEMMA OutsideKeepsGraceful ==
  ASSUME TypeOK, TypeOK', Graceful,
         UNCHANGED <<at, why, asked, isClosed, aboutToClose, closeReason, promised>>,
         Len(toPeer) <= Len(toPeer'), Len(accepted) <= Len(accepted'),
         rpc' = rpc \/ RecvGoesOn
  PROVE  Graceful'
<1>1. Asking'
  BY DEF Graceful, Asking, Asks, Askers, RecvGoesOn
<1>2. Asks("send")' <=> Asks("send")
  BY DEF Asks
<1>3. /\ Len(toPeer) \in Nat /\ Len(toPeer') \in Nat /\ Len(accepted) \in Nat
      /\ Len(accepted') \in Nat /\ promised \in Nat
  <2>1. promised \in Nat
    BY DEF TypeOK
  <2>2. toPeer' \in Seq(Msgs) /\ accepted' \in Seq(Msgs)
    BY DEF TypeOK
  <2>3. Len(toPeer') \in Nat /\ Len(accepted') \in Nat
    BY <2>2, LenProperties
  <2>4. QED
    BY <2>1, <2>3, LenTypes
<1>4. promised' <= Len(accepted')
  BY <1>3 DEF Graceful, Draining
<1>5. Asks("send")' => aboutToClose' /\ promised' <= Len(toPeer')
  BY <1>2, <1>3 DEF Graceful, Draining
<1>6. DrainBeforeClose => DrainBeforeClose'
  BY <1>3 DEF DrainBeforeClose
<1>7. QED
  BY <1>1, <1>4, <1>5, <1>6 DEF Graceful, Draining, SoleAsker, Askers, Asks

\* Actor a calls closeNow.  An actor other than send begins one normal close at most.
LEMMA CallKeepsGraceful ==
  ASSUME TypeOK, Graceful, NEW a \in Actors, NEW reason \in Reasons, Call(a, reason),
         UNCHANGED <<isClosed, aboutToClose, closeReason, promised, toPeer, accepted>>,
         reason = "by_self" /\ a # "send" => a \notin asked,
         reason = "by_self" /\ a = "send" => aboutToClose /\ promised <= Len(toPeer),
         \/ rpc' = rpc /\ a # "recv"
         \/ rpc' = "end" /\ a = "recv" /\ reason # "by_self"
         \/ rpc' = "check" /\ a = "recv" /\ reason = "by_self"
  PROVE  Graceful'
<1>1. /\ at[a] = "out" /\ at'[a] = "test" /\ why'[a] = reason
      /\ \A b \in Actors \ {a} : at'[b] = at[b] /\ why'[b] = why[b]
      /\ asked' = IF reason = "by_self" THEN asked \cup {a} ELSE asked
      /\ asked \subseteq asked'
  BY CallMoves
<1>2. /\ Asks(a)' <=> reason = "by_self"
      /\ \A b \in Actors \ {a} : Asks(b)' <=> Asks(b)
  BY <1>1 DEF Asks
<1>3. Asking'
  <2>1. IsFiniteSet(asked')
    <3>1. CASE reason = "by_self"
      BY <1>1, <3>1, FS_AddElement DEF Graceful, Asking
    <3>2. CASE reason # "by_self"
      BY <1>1, <3>2 DEF Graceful, Asking
    <3>3. QED
      BY <3>1, <3>2
  <2>2. \A b \in Actors : Asks(b)' => b \in asked'
    BY <1>1, <1>2 DEF Graceful, Asking
  <2>3. aboutToClose' => Askers' # {}
    BY <1>1 DEF Graceful, Asking, Askers
  <2>4. "recv" \in asked' => rpc' \in {"check", "end"}
    BY <1>1 DEF Graceful, Asking
  <2>5. rpc' = "check" =>
          aboutToClose' \/ isClosed' \/ (at'["recv"] = "test" /\ Asks("recv")')
    BY <1>1, <1>2, SpecialActors DEF Graceful, Asking
  <2>6. QED
    BY <2>1, <2>2, <2>3, <2>4, <2>5 DEF Asking
<1>4. Draining'
  <2>1. promised' <= Len(accepted')
    BY DEF Graceful, Draining
  <2>2. Asks("send")' => aboutToClose' /\ promised' <= Len(toPeer')
    BY <1>2, SpecialActors DEF Graceful, Draining
  <2>3. SoleAsker' => SoleAsker
    BY <1>1 DEF SoleAsker, Askers
  <2>4. DrainBeforeClose' <=> DrainBeforeClose
    BY DEF DrainBeforeClose
  <2>5. ASSUME SoleAsker', NEW b \in Actors \ {"send"}, Asks(b)'
        PROVE  at'[b] = "test" /\ ~aboutToClose'
    <3>1. CASE b = a
      <4>1. a \in Askers' /\ a \notin asked
        BY <1>1, <1>2, <2>5, <3>1 DEF Askers
      <4>2. Askers = {}
        BY <1>1, <2>5, <4>1 DEF SoleAsker, Askers
      <4>3. QED
        BY <1>1, <3>1, <4>2 DEF Graceful, Asking
    <3>2. CASE b # a
      BY <1>1, <1>2, <2>3, <2>5, <3>2 DEF Graceful, Draining
    <3>3. QED
      BY <3>1, <3>2
  <2>6. QED
    BY <2>1, <2>2, <2>3, <2>4, <2>5 DEF Graceful, Draining
<1>5. QED
  BY <1>3, <1>4 DEF Graceful

\* A statement of closeNow that neither announces the close nor gives its reason: the
\* actor leaves, or goes on.  The sole asker does not go on.
LEMMA GoingOnKeepsGraceful ==
  ASSUME TypeOK, Graceful, NEW a \in Actors, Leave(a) \/ (\E s \in Statements : Goto(a, s) /\ UNCHANGED why),
         UNCHANGED <<asked, rpc, isClosed, aboutToClose, closeReason, promised, toPeer, accepted>>,
         at[a] # "out",
         a # "send" /\ Asks(a) /\ ~Leave(a) => at[a] # "test" \/ aboutToClose,
         at[a] = "test" => isClosed \/ aboutToClose \/ why[a] # "by_self"
  PROVE  Graceful'
<1>1. \A b \in Actors \ {a} : at'[b] = at[b] /\ why'[b] = why[b]
  BY LeaveMoves, GotoMoves
<1>2. \A b \in Actors \ {a} : Asks(b)' <=> Asks(b)
  BY <1>1 DEF Asks
<1>3. Asks(a)' => Asks(a)
  BY LeaveMoves DEF Asks
<1>4. Asking'
  <2>1. IsFiniteSet(asked') /\ (\A b \in Actors : Asks(b)' => b \in asked')
    BY <1>2, <1>3 DEF Graceful, Asking
  <2>2. /\ aboutToClose' => Askers' # {}
        /\ "recv" \in asked' => rpc' \in {"check", "end"}
    BY DEF Graceful, Asking, Askers
  <2>3. rpc' = "check" =>
          aboutToClose' \/ isClosed' \/ (at'["recv"] = "test" /\ Asks("recv")')
    <3>1. CASE a = "recv"
      BY <3>1 DEF Graceful, Asking, Asks
    <3>2. CASE a # "recv"
      BY <1>1, <1>2, <3>2, SpecialActors DEF Graceful, Asking
    <3>3. QED
      BY <3>1, <3>2
  <2>4. QED
    BY <2>1, <2>2, <2>3 DEF Asking
<1>5. Draining'
  <2>1. promised' <= Len(accepted')
    BY DEF Graceful, Draining
  <2>2. Asks("send")' => aboutToClose' /\ promised' <= Len(toPeer')
    BY <1>2, <1>3, SpecialActors DEF Graceful, Draining
  <2>3. /\ SoleAsker' <=> SoleAsker
        /\ DrainBeforeClose' <=> DrainBeforeClose
    BY DEF SoleAsker, Askers, DrainBeforeClose
  <2>4. ASSUME SoleAsker, NEW b \in Actors \ {"send"}, Asks(b)'
        PROVE  at'[b] = "test" /\ ~aboutToClose'
    <3>1. CASE b = a
      <4>1. Asks(a) /\ at[a] = "test" /\ ~aboutToClose
        BY <1>3, <2>4, <3>1 DEF Graceful, Draining
      <4>2. Leave(a)
        BY <2>4, <3>1, <4>1
      <4>3. QED
        BY <2>4, <3>1, <4>2, LeaveMoves DEF Asks
    <3>2. CASE b # a
      BY <1>1, <1>2, <2>4, <3>2 DEF Graceful, Draining
    <3>3. QED
      BY <3>1, <3>2
  <2>5. QED
    BY <2>1, <2>2, <2>3, <2>4 DEF Graceful, Draining
<1>6. QED
  BY <1>4, <1>5 DEF Graceful

\* The announcement: what has been accepted so far is promised.
LEMMA AnnounceKeepsGraceful ==
  ASSUME TypeOK, ReasonGiven, Graceful, NEW a \in Actors, Leave(a),
         at[a] = "test", why[a] = "by_self", ~isClosed, ~aboutToClose,
         aboutToClose' = TRUE, promised' = Len(accepted),
         UNCHANGED <<asked, rpc, isClosed, closeReason, toPeer, accepted>>
  PROVE  Graceful'
<1>1. /\ at'[a] = "out"
      /\ \A b \in Actors \ {a} : at'[b] = at[b] /\ why'[b] = why[b]
  BY LeaveMoves
<1>2. /\ ~Asks(a)'
      /\ \A b \in Actors \ {a} : Asks(b)' <=> Asks(b)
  BY <1>1 DEF Asks
<1>3. ~Asks("send") /\ a # "send" /\ Asks(a) /\ a \in Askers
  BY DEF Graceful, Asking, Draining, Asks, Askers
<1>4. Asking'
  <2>1. \A b \in Actors : Asks(b)' => b \in asked'
    BY <1>2 DEF Graceful, Asking
  <2>2. Askers' # {}
    BY <1>3 DEF Askers
  <2>3. QED
    BY <2>1, <2>2 DEF Graceful, Asking
<1>5. Draining'
  <2>1. promised' <= Len(accepted')
    BY LenTypes
  <2>2. ~Asks("send")'
    BY <1>2, <1>3, SpecialActors
  <2>3. DrainBeforeClose'
    BY DEF ReasonGiven, DrainBeforeClose
  <2>4. ASSUME SoleAsker', NEW b \in Actors \ {"send"}, Asks(b)'
        PROVE  FALSE
    <3>1. b # a /\ Asks(b)
      BY <1>2, <2>4
    <3>2. b \in Askers
      BY <3>1 DEF Graceful, Asking, Askers
    <3>3. QED
      BY <1>3, <2>4, <3>1, <3>2 DEF SoleAsker, Askers
  <2>5. QED
    BY <2>1, <2>2, <2>3, <2>4 DEF Draining
<1>6. QED
  BY <1>4, <1>5 DEF Graceful

\* The reason: a normal close that gets here is that of send.
LEMMA MarkKeepsGraceful ==
  ASSUME TypeOK, Graceful, NEW a \in Actors, CloseMark(a)
  PROVE  Graceful'
<1>1. /\ at[a] = "mark" /\ isClosed' = TRUE /\ closeReason' = why[a]
      /\ UNCHANGED <<why, asked, rpc, aboutToClose, promised, toPeer, accepted>>
      /\ Goto(a, "inPipe")
  BY DEF CloseMark, recvVars, outcome
<1>2. /\ at'[a] = "inPipe"
      /\ \A b \in Actors \ {a} : at'[b] = at[b]
  BY <1>1, GotoMoves DEF Statements
<1>3. \A b \in Actors : Asks(b)' <=> Asks(b)
  BY <1>1, <1>2 DEF Asks
<1>4. Asking'
  BY <1>1, <1>3 DEF Graceful, Asking, Askers
<1>5. Draining'
  <2>1. /\ promised' <= Len(accepted')
        /\ Asks("send")' => aboutToClose' /\ promised' <= Len(toPeer')
    BY <1>1, <1>3, SpecialActors DEF Graceful, Draining
  <2>2. SoleAsker' <=> SoleAsker
    BY <1>1 DEF SoleAsker, Askers
  <2>3. ASSUME SoleAsker PROVE ~(a # "send" /\ Asks(a))
    BY <1>1, <2>3 DEF Graceful, Draining
  <2>4. ASSUME SoleAsker PROVE DrainBeforeClose'
    <3>1. CASE why[a] # "by_self"
      BY <1>1, <3>1 DEF DrainBeforeClose
    <3>2. CASE why[a] = "by_self"
      <4>1. Asks("send")
        BY <1>1, <2>3, <2>4, <3>2 DEF Asks
      <4>2. promised <= Len(toPeer) /\ promised \in Nat /\ Len(toPeer) \in Nat
        BY <4>1, LenTypes DEF Graceful, Draining, TypeOK
      <4>3. QED
        BY <1>1, <4>2 DEF DrainBeforeClose
    <3>3. QED
      BY <3>1, <3>2
  <2>5. ASSUME SoleAsker, NEW b \in Actors \ {"send"}, Asks(b)'
        PROVE  at'[b] = "test" /\ ~aboutToClose'
    BY <1>1, <1>2, <1>3, <2>3, <2>5 DEF Graceful, Draining
  <2>6. QED
    BY <2>1, <2>2, <2>4, <2>5 DEF Draining
<1>6. QED
  BY <1>4, <1>5 DEF Graceful

LEMMA CloseNowKeepsGraceful ==
  ASSUME TypeOK, ReasonGiven, Graceful, NEW a \in Actors, CloseNow(a)
  PROVE  Graceful'
<1> USE DEF recvVars, outcome, flags
<1>1. CASE CloseTest(a)
  <2>1. CASE ~isClosed /\ why[a] = "by_self" /\ ~aboutToClose
    BY <1>1, <2>1, AnnounceKeepsGraceful DEF CloseTest
  <2>2. CASE isClosed
    BY <1>1, <2>2, GoingOnKeepsGraceful DEF CloseTest
  <2>3. CASE ~isClosed /\ ~(why[a] = "by_self" /\ ~aboutToClose)
    <3>1. Goto(a, "socket") /\ "socket" \in Statements /\ UNCHANGED why
      BY <1>1, <2>3 DEF CloseTest, Statements
    <3>2. at[a] = "test" /\ (Asks(a) => aboutToClose)
      BY <1>1, <2>3 DEF CloseTest, Asks
    <3>3. UNCHANGED <<asked, rpc, isClosed, aboutToClose, closeReason, promised, toPeer, accepted>>
      BY <1>1, <2>3 DEF CloseTest
    <3>4. QED
      BY <2>3, <3>1, <3>2, <3>3, GoingOnKeepsGraceful
  <2>4. QED
    BY <2>1, <2>2, <2>3
<1>2. CASE CloseMark(a)
  BY <1>2, MarkKeepsGraceful
<1>3. CASE CloseSocket(a) \/ CloseIn(a) \/ CloseOut(a) \/ CloseCallback(a)
  <2>1. /\ at[a] \notin {"out", "test"}
        /\ UNCHANGED <<asked, rpc, isClosed, aboutToClose, closeReason, promised, toPeer, accepted>>
        /\ Leave(a) \/ (\E s \in Statements : Goto(a, s) /\ UNCHANGED why)
    BY <1>3 DEF CloseSocket, ClosesSocket, CloseIn, CloseOut, CloseCallback, Statements
  <2>2. QED
    BY <2>1, GoingOnKeepsGraceful
<1>4. QED
  BY <1>1, <1>2, <1>3 DEF CloseNow

\* The callers, the other end, and the packets accepted.
LEMMA CallersKeepGraceful ==
  ASSUME TypeOK, TypeOK', Graceful,
         \/ \E u \in Closers : Close(u)
         \/ \E m \in Msgs : SendMsg(m)
         \/ RecvMsg \/ Stop \/ StopReturn \/ PeerSends \/ PeerCloses \/ Listen \/ UNCHANGED vars
  PROVE  Graceful'
<1> USE DEF flags, closing, recvVars, sendVars, peerVars, outcome
<1>1. Len(toPeer) \in Nat /\ Len(accepted) \in Nat
  BY LenTypes
<1>2. ASSUME NEW u \in Closers, Close(u) PROVE Graceful'
  <2>1. u \in Actors /\ u # "send" /\ u # "recv" /\ "by_self" \in Reasons
    BY SpecialActors, ConnAssumption DEF ConnAssumption
  <2>2. /\ Call(u, "by_self") /\ u \notin asked
        /\ UNCHANGED <<isClosed, aboutToClose, closeReason, promised, toPeer, accepted, rpc>>
    BY <1>2 DEF Close
  <2>3. QED
    BY <2>1, <2>2, CallKeepsGraceful
<1>3. ASSUME UNCHANGED <<at, why, asked, isClosed, aboutToClose, closeReason, promised, rpc>>,
             UNCHANGED toPeer,
             accepted' = accepted \/ \E m \in Msgs : accepted' = Append(accepted, m)
      PROVE  Graceful'
  <2>1. Len(accepted) <= Len(accepted')
    <3>1. CASE accepted' = accepted
      BY <1>1, <3>1
    <3>2. ASSUME NEW m \in Msgs, accepted' = Append(accepted, m)
          PROVE  Len(accepted) <= Len(accepted')
      <4>1. Len(Append(accepted, m)) = Len(accepted) + 1
        BY SeqTypes, AppendProperties
      <4>2. QED
        BY <1>1, <3>2, <4>1
    <3>3. QED
      BY <1>3, <3>1, <3>2
  <2>2. Len(toPeer) <= Len(toPeer')
    BY <1>1, <1>3
  <2>3. QED
    BY <1>3, <2>1, <2>2, OutsideKeepsGraceful
<1>4. ASSUME NEW m \in Msgs, SendMsg(m) PROVE Graceful'
  <2>1. /\ UNCHANGED <<at, why, asked, isClosed, aboutToClose, closeReason, promised, rpc>>
        /\ UNCHANGED toPeer
        /\ accepted' = accepted \/ accepted' = Append(accepted, m)
    BY <1>4 DEF SendMsg, SendTest, SendAccept, SendRefuse, SendMoves
  <2>2. QED
    BY <1>3, <2>1
<1>5. CASE RecvMsg \/ Stop \/ StopReturn \/ PeerSends \/ PeerCloses \/ Listen \/ UNCHANGED vars
  <2>1. /\ UNCHANGED <<at, why, asked, isClosed, aboutToClose, closeReason, promised, rpc>>
        /\ UNCHANGED toPeer /\ accepted' = accepted
    BY <1>5 DEF RecvMsg, Stop, StopReturn, PeerSends, PeerCloses, Listen,
             ListenTop, ListenAccept, ListenMoves, vars
  <2>2. QED
    BY <1>3, <2>1
<1>6. QED
  BY <1>2, <1>4, <1>5

\* recv asks when it is at the top of its loop, where it has never asked before.
LEMMA RecvKeepsGraceful ==
  ASSUME TypeOK, TypeOK', Graceful, Recv
  PROVE  Graceful'
<1> USE DEF flags, closing, recvVars, sendVars, peerVars, outcome
<1>1. UNCHANGED <<isClosed, aboutToClose, closeReason, promised, toPeer, accepted>>
  BY DEF Recv, RecvTop, RecvTops, RecvCheck, RecvRead, RecvEOF, RecvFail, RecvPush,
         RecvPushClosed, RecvMoves
<1>2. Len(toPeer) <= Len(toPeer') /\ Len(accepted) <= Len(accepted')
  BY <1>1, LenTypes
<1>3. CASE RecvTop /\ ~isEnabled
  <2>1. Call("recv", "by_self") /\ rpc = "top" /\ rpc' = "check"
    BY <1>3 DEF RecvTop, RecvTops, RecvMoves
  <2>2. "recv" \notin asked
    BY <2>1 DEF Graceful, Asking
  <2>3. QED
    BY <1>1, <2>1, <2>2, SpecialActors, CallKeepsGraceful
<1>4. CASE RecvEOF
  <2>1. Call("recv", "by_other") /\ rpc' = "end"
    BY <1>4 DEF RecvEOF, RecvMoves
  <2>2. QED
    BY <1>1, <2>1, SpecialActors, CallKeepsGraceful
<1>5. CASE RecvFail
  <2>1. Call("recv", "by_accident") /\ rpc' = "end"
    BY <1>5 DEF RecvFail, RecvMoves
  <2>2. QED
    BY <1>1, <2>1, SpecialActors, CallKeepsGraceful
<1>6. CASE RecvCheck
  <2>1. /\ UNCHANGED <<at, why, asked>> /\ at["recv"] = "out" /\ rpc = "check"
        /\ rpc' = Continue
    BY <1>6 DEF RecvCheck, RecvMoves
  <2>2. isClosed \/ aboutToClose
    BY <2>1 DEF Graceful, Asking
  <2>3. RecvGoesOn
    BY <2>1, <2>2 DEF RecvGoesOn, Continue
  <2>4. QED
    BY <1>1, <1>2, <2>1, <2>3, OutsideKeepsGraceful
<1>7. CASE (RecvTop /\ isEnabled) \/ RecvRead \/ RecvPush
  <2>1. UNCHANGED <<at, why, asked>> /\ rpc \in {"top", "read", "push"} /\ rpc' # "check"
    BY <1>7 DEF RecvTop, RecvTops, RecvRead, RecvPush, RecvMoves, Continue
  <2>2. RecvGoesOn
    BY <2>1 DEF Graceful, Asking, RecvGoesOn
  <2>3. QED
    BY <1>1, <1>2, <2>1, <2>2, OutsideKeepsGraceful
<1>8. CASE RecvPushClosed
  <2>1. UNCHANGED <<at, why, asked>> /\ rpc' = "end"
    BY <1>8 DEF RecvPushClosed, RecvMoves
  <2>2. QED
    BY <1>1, <1>2, <2>1, OutsideKeepsGraceful DEF RecvGoesOn
<1>9. QED
  BY <1>3, <1>4, <1>5, <1>6, <1>7, <1>8 DEF Recv

\* send asks when outPipe is empty and it has nothing in its hands.
LEMMA SendKeepsGraceful ==
  ASSUME TypeOK, TypeOK', OutOrder, Graceful, Send
  PROVE  Graceful'
<1> USE DEF flags, closing, recvVars, sendVars, peerVars, outcome
<1>1. UNCHANGED <<isClosed, aboutToClose, closeReason, promised, accepted, rpc>>
  BY DEF Send, SendTop, SendTops, SendTake, SendTakeEmpty, SendTakeClosed, SendWrite,
         SendWriteFail, SendJobMoves
<1>2. /\ Len(toPeer) \in Nat /\ Len(accepted) \in Nat /\ Len(sendbuf) \in Nat
      /\ Len(accepted) <= Len(accepted')
  BY <1>1, LenTypes
<1>3. CASE SendTop /\ Drained /\ ~isClosed
  <2>1. Call("send", "by_self") /\ UNCHANGED toPeer /\ spc = "top"
    BY <1>3 DEF SendTop, SendTops, SendJobMoves
  <2>2. Unwritten = <<>> /\ Queued = <<>> /\ aboutToClose
    BY <1>3, <2>1 DEF Unwritten, Queued, Drained
  <2>3. Len(Unwritten) = 0 /\ Len(Queued) = 0
    BY <2>2
  <2>4. Len(accepted) = Len(toPeer)
    <3>1. Len(accepted) = Len(toPeer) + Len(Unwritten) + Len(Queued)
      BY <2>1 DEF OutOrder
    <3>2. QED
      BY <1>2, <2>3, <3>1
  <2>5. promised <= Len(toPeer)
    BY <2>4 DEF Graceful, Draining
  <2>6. QED
    BY <1>1, <2>1, <2>2, <2>5, SpecialActors, CallKeepsGraceful
<1>4. CASE SendWriteFail /\ ~isClosed
  <2>1. Call("send", "by_accident") /\ UNCHANGED toPeer
    BY <1>4 DEF SendWriteFail
  <2>2. QED
    BY <1>1, <2>1, SpecialActors, CallKeepsGraceful
<1>5. CASE \/ SendTop /\ ~(Drained /\ ~isClosed)
           \/ SendTake \/ SendTakeEmpty \/ SendTakeClosed
           \/ SendWriteFail /\ isClosed
  <2>1. UNCHANGED <<at, why, asked>> /\ UNCHANGED toPeer
    BY <1>5 DEF SendTop, SendTops, SendTake, SendTakeEmpty, SendTakeClosed, SendWriteFail,
                SendJobMoves
  <2>2. Len(toPeer) <= Len(toPeer')
    BY <1>2, <2>1
  <2>3. QED
    BY <1>1, <1>2, <2>1, <2>2, OutsideKeepsGraceful
<1>6. CASE SendWrite
  <2>1. UNCHANGED <<at, why, asked>> /\ toPeer' = toPeer \o sendbuf
    BY <1>6 DEF SendWrite, SendJobMoves
  <2>2. Len(toPeer \o sendbuf) = Len(toPeer) + Len(sendbuf)
    BY SeqTypes, ConcatProperties
  <2>3. Len(toPeer) <= Len(toPeer')
    BY <1>2, <2>1, <2>2
  <2>4. QED
    BY <1>1, <1>2, <2>1, <2>3, OutsideKeepsGraceful
<1>7. QED
  BY <1>3, <1>4, <1>5, <1>6 DEF Send

LEMMA GracefulStep ==
  TypeOK /\ TypeOK' /\ OutOrder /\ ReasonGiven /\ Graceful /\ [Next]_vars => Graceful'
BY CloseNowKeepsGraceful, CallersKeepGraceful, RecvKeepsGraceful, SendKeepsGraceful DEF Next

LEMMA GracefulCorrect == Spec => [](TypeOK /\ Graceful)
<1>1. Init => Graceful
  <2> SUFFICES ASSUME Init PROVE Graceful
    OBVIOUS
  <2>1. /\ \A a \in Actors : ~Asks(a)
        /\ asked = {} /\ promised = 0 /\ accepted = <<>> /\ aboutToClose = FALSE
        /\ rpc = "top" /\ closeReason = "none"
    BY DEF Init, Asks
  <2>2. IsFiniteSet(asked) /\ Len(accepted) = 0
    BY <2>1, FS_EmptySet
  <2>3. QED
    BY <2>1, <2>2, SpecialActors DEF Graceful, Asking, Draining, DrainBeforeClose
<1>2. Closing => ReasonGiven
  BY DEF Closing
<1>3. QED
  BY <1>1, <1>2, Ordered, ClosingCorrect, GracefulStep, PTL DEF Spec

\* A connection that is asked to close once, by one call of Close or by Stop, has written
\* all that it had accepted when it says it was closed by this end.
THEOREM GracefulCloseCorrect == Spec => []GracefulClose
<1>1. TypeOK /\ Graceful => GracefulClose
  <2> SUFFICES ASSUME Graceful, Cardinality(asked \ {"send"}) = 1 PROVE DrainBeforeClose
    BY DEF GracefulClose
  <2>1. IsFiniteSet(Askers)
    BY FS_RemoveElement DEF Graceful, Asking, Askers
  <2>2. \E x : Askers = {x}
    BY <2>1, FS_Singleton DEF Askers
  <2>3. SoleAsker
    BY <2>2 DEF SoleAsker
  <2>4. QED
    BY <2>3 DEF Graceful, Draining
<1>2. QED
  BY <1>1, GracefulCorrect, PTL

(***************************************************************************)
(* Stop.                                                                   *)
(***************************************************************************)

\* send ends only when the connection is closed, or is about to be, by send itself.
SenderEnds ==
  spc = "end" /\ HasSender =>
    \/ sock = "closed"
    \/ at["send"] \in {"test", "socket"} /\ why["send"] = "by_accident"

StopWaits == stop = "returned" => spc = "end" /\ (HasSender => sock = "closed")

\* Whatever is not a step of send leaves send where it is.
LEMMA NotSend ==
  ASSUME TypeOK, Next, ~Send, ~CloseNow("send")
  PROVE  /\ spc' = spc /\ (sock = "closed" => sock' = "closed")
         /\ at'["send"] = at["send"] /\ why'["send"] = why["send"]
<1> USE DEF flags, closing, recvVars, sendVars, peerVars, outcome
<1>1. ASSUME NEW a \in Actors \ {"send"},
             Leave(a) \/ (\E s \in Statements : Goto(a, s) /\ UNCHANGED why)
      PROVE  at'["send"] = at["send"] /\ why'["send"] = why["send"]
  BY <1>1, SpecialActors, LeaveMoves, GotoMoves
<1>2. ASSUME NEW a \in Actors \ {"send"}, NEW reason \in Reasons, Call(a, reason)
      PROVE  at'["send"] = at["send"] /\ why'["send"] = why["send"]
  BY <1>2, SpecialActors, CallMoves
<1>3. ASSUME NEW a \in Actors \ {"send"}, CloseNow(a)
      PROVE  /\ spc' = spc /\ (sock = "closed" => sock' = "closed")
             /\ at'["send"] = at["send"] /\ why'["send"] = why["send"]
  <2>1. /\ spc' = spc /\ (sock = "closed" => sock' = "closed")
        /\ Leave(a) \/ (\E s \in Statements : Goto(a, s) /\ UNCHANGED why)
    BY <1>3 DEF CloseNow, CloseTest, CloseSocket, ClosesSocket, CloseMark, CloseIn, CloseOut,
                CloseCallback, Statements
  <2>2. QED
    BY <1>1, <2>1
<1>4. ASSUME NEW u \in Closers, Close(u)
      PROVE  /\ spc' = spc /\ sock' = sock
             /\ at'["send"] = at["send"] /\ why'["send"] = why["send"]
  <2>1. u \in Actors \ {"send"}
    BY SpecialActors, ConnAssumption DEF ConnAssumption
  <2>2. QED
    BY <1>2, <1>4, <2>1, SpecialActors DEF Close
<1>5. ASSUME NEW m \in Msgs, SendMsg(m)
      PROVE  UNCHANGED <<spc, sock, at, why>>
  BY <1>5 DEF SendMsg, SendTest, SendAccept, SendRefuse, SendMoves
<1>6. CASE Recv
  <2>1. "recv" \in Actors \ {"send"}
    BY SpecialActors
  <2>2. /\ UNCHANGED <<spc, sock>>
        /\ UNCHANGED <<at, why>> \/ \E reason \in Reasons : Call("recv", reason)
    BY <1>6, SpecialActors DEF Recv, RecvTop, RecvTops, RecvCheck, RecvRead, RecvEOF, RecvFail,
                               RecvPush, RecvPushClosed, RecvMoves
  <2>3. QED
    BY <1>2, <2>1, <2>2
<1>7. CASE RecvMsg \/ Stop \/ StopReturn \/ PeerSends \/ PeerCloses \/ Listen
  BY <1>7 DEF RecvMsg, Stop, StopReturn, PeerSends, PeerCloses, Listen,
             ListenTop, ListenAccept, ListenMoves
<1>8. QED
  BY <1>3, <1>4, <1>5, <1>6, <1>7 DEF Next

LEMMA SenderEndsStep ==
  ASSUME TypeOK, Closing, SenderEnds, [Next]_vars
  PROVE  SenderEnds' /\ (spc = "end" => spc' = "end") /\ (sock = "closed" => sock' = "closed")
<1> USE DEF flags, closing, recvVars, sendVars, peerVars, outcome
<1>1. /\ isClosed => sock = "closed"
      /\ ~outPipe.open => sock = "closed"
  BY DEF Closing, OpenUntilSocket, TypeOK
<1>2. CASE UNCHANGED vars
  BY <1>2 DEF vars, SenderEnds
<1>3. CASE CloseNow("send")
  <2>1. spc' = spc /\ (sock = "closed" => sock' = "closed")
    BY <1>3 DEF CloseNow, CloseTest, CloseSocket, ClosesSocket, CloseMark, CloseIn, CloseOut,
                CloseCallback
  <2>2. CASE CloseSocket("send")
    BY <2>2 DEF CloseSocket, ClosesSocket, SenderEnds
  <2>3. CASE CloseTest("send")
    <3>1. CASE isClosed \/ why["send"] = "by_self"
      BY <1>1, <2>1, <2>3, <3>1 DEF SenderEnds
    <3>2. CASE ~isClosed /\ why["send"] # "by_self"
      <4>1. Goto("send", "socket") /\ UNCHANGED why /\ "socket" \in Statements
        BY <2>3, <3>2 DEF CloseTest, Statements
      <4>2. at'["send"] = "socket"
        BY <4>1, SpecialActors, GotoMoves
      <4>3. QED
        BY <2>1, <4>1, <4>2 DEF SenderEnds
    <3>3. QED
      BY <3>1, <3>2
  <2>4. CASE ~CloseSocket("send") /\ ~CloseTest("send")
    <3>1. at["send"] \notin {"test", "socket"}
      BY <1>3, <2>4 DEF CloseNow, CloseMark, CloseIn, CloseOut, CloseCallback
    <3>2. QED
      BY <2>1, <3>1 DEF SenderEnds
  <2>5. QED
    BY <2>1, <2>2, <2>3, <2>4
<1>4. CASE Send
  <2>1. /\ UNCHANGED sock /\ spc # "end" /\ at["send"] = "out"
        /\ spc' = "end" => \/ isClosed
                           \/ ~outPipe.open
                           \/ Call("send", "by_accident")
    BY <1>4 DEF Send, SendTop, SendTops, SendTake, SendTakeEmpty, SendTakeClosed, SendWrite,
                SendWriteFail, SendJobMoves, ReadIsClosed
  <2>2. Call("send", "by_accident") => at'["send"] = "test" /\ why'["send"] = "by_accident"
    BY SpecialActors, CallMoves
  <2>3. QED
    BY <1>1, <2>1, <2>2 DEF SenderEnds
<1>5. CASE Next /\ ~Send /\ ~CloseNow("send")
  BY <1>5, NotSend DEF SenderEnds
<1>6. QED
  BY <1>2, <1>3, <1>4, <1>5

LEMMA StopWaitsStep ==
  ASSUME TypeOK, Closing, SenderEnds, StopWaits, [Next]_vars
  PROVE  StopWaits'
<1>1. CASE StopReturn
  <2>1. spc = "end" /\ at["send"] = "out" /\ UNCHANGED <<spc, sock>>
    BY <1>1 DEF StopReturn, Returned, sendVars, flags
  <2>2. QED
    BY <2>1 DEF StopWaits, SenderEnds
<1>2. CASE ~StopReturn
  <2>1. stop' = "returned" => stop = "returned"
    <3>1. ASSUME NEW a \in Actors, CloseNow(a) PROVE stop' = stop
      BY <3>1 DEF CloseNow, CloseTest, CloseSocket, ClosesSocket, CloseMark, CloseIn, CloseOut,
                  CloseCallback
    <3>2. ASSUME NEW m \in Msgs, SendMsg(m) PROVE stop' = stop
      BY <3>2 DEF SendMsg, SendTest, SendAccept, SendRefuse, SendMoves
    <3>3. CASE Recv
      BY <3>3 DEF Recv, RecvTop, RecvTops, RecvCheck, RecvRead, RecvEOF, RecvFail, RecvPush,
                  RecvPushClosed, RecvMoves
    <3>4. CASE Send
      BY <3>4 DEF Send, SendTop, SendTops, SendTake, SendTakeEmpty, SendTakeClosed, SendWrite,
                  SendWriteFail, SendJobMoves
    <3>5. QED
      BY <1>2, <3>1, <3>2, <3>3, <3>4
         DEF Next, Close, RecvMsg, Stop, PeerSends, PeerCloses, Listen,
             ListenTop, ListenAccept, ListenMoves, vars
  <2>2. QED
    BY <2>1, SenderEndsStep DEF StopWaits
<1>3. QED
  BY <1>1, <1>2

\* When Stop returns, a connection with a send goroutine is disconnected.  (A UDP server
\* has none, and Stop leaves its socket open.)
THEOREM StopDisconnectsCorrect ==
  ASSUME HasSender
  PROVE  Spec => []StopDisconnects
<1>1. Init => SenderEnds /\ StopWaits
  BY DEF Init, SenderEnds, StopWaits
<1>2. StopWaits => StopDisconnects
  BY DEF StopWaits, StopDisconnects
<1>3. QED
  BY <1>1, <1>2, Typed, ClosingCorrect, SenderEndsStep, StopWaitsStep, PTL DEF Spec
=============================================================================
