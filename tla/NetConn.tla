------------------------------ MODULE NetConn ------------------------------
(***************************************************************************)
(* One network connection (type Conn of component/net/net.go) and the      *)
(* shutdown of its communication instance (Commu.Stop).                    *)
(*                                                                         *)
(* A connection has a goroutine recv, which moves messages from the socket *)
(* to inPipe, and a goroutine send, which moves packets from outPipe to    *)
(* the socket.  Both of them, and any caller of Close, may execute         *)
(* closeNow at the same time.  closeNow takes no lock: a test of isClosed, *)
(* the assignment of aboutToClose and the result of the socket's own Close *)
(* are all that orders its callers, so it is modelled step by step.        *)
(*                                                                         *)
(* The flags isEnabled, isClosed and aboutToClose are assumed sequentially *)
(* consistent.  Tests of several flags that follow one another are one     *)
(* step; what depends on the result is a later one.                        *)
(***************************************************************************)
EXTENDS SafeChan, SequencesExt, FiniteSets

CONSTANTS
  Closers,     \* one element per call of Close
  Msgs,        \* one element per call of SendMsg
  IsTCP,       \* commu.isTCP
  IsServer,    \* commu.isServer
  InLimit,     \* capacity of inPipe: inMsgLimit
  OutLimit,    \* capacity of outPipe: outMsgLimit
  BatchLimit,  \* packets that fill half of the send buffer (SocketBufSize/2)
  MaxIn        \* bound: number of messages the other end sends

ASSUME ConnAssumption ==
  /\ IsTCP \in BOOLEAN /\ IsServer \in BOOLEAN
  /\ InLimit \in Nat \ {0} /\ OutLimit \in Nat \ {0} /\ BatchLimit \in Nat \ {0}
  /\ MaxIn \in Nat
  /\ "recv" \notin Closers /\ "send" \notin Closers

Actors == Closers \cup {"recv", "send"}

\* A UDP server only receives: newConn starts no send for it.
HasSender == IsTCP \/ ~IsServer

VARIABLES
  isEnabled,   \* commu.isEnabled
  isClosed,
  aboutToClose,
  closeReason,
  sock,        \* the state of the socket: "open" or "closed" by this end
  inPipe,
  outPipe,
  at,          \* the statement of closeNow each actor executes
  why,         \* the arguments it was called with, as the resulting reason
  rpc,         \* control of recv
  batch,       \* messages recv has read and not yet put in inPipe
  spc,         \* control of send
  sendbuf,     \* packets send has taken from outPipe and not yet written
  mpc,         \* control of each call of SendMsg
  stop,        \* control of the call of Commu.Stop
  listener,    \* control of the listeners of the instance; "end" if it has none
  \* the other end, the owner of the connection, and what they have observed
  peer,        \* "open" or "closed" by the other end
  fromPeer,    \* number of messages the other end has sent
  inSocket,    \* messages in flight to recv
  taken,       \* messages RecvMsg has returned
  toPeer,      \* packets written to the socket
  accepted,    \* packets SendMsg has put in outPipe
  promised,    \* number of packets accepted when aboutToClose was set
  asked,       \* actors that have called closeNow with normalClose
  panicked,    \* a closed pipe has been closed again
  callbacks    \* number of invocations of disconnCallbackFunc

flags == <<isEnabled, isClosed, aboutToClose, closeReason, sock>>
closing == <<at, why, asked>>
recvVars == <<rpc, batch>>
sendVars == <<spc, sendbuf>>
peerVars == <<peer, fromPeer, inSocket>>
outcome == <<promised, panicked, callbacks>>

vars == <<isEnabled, isClosed, aboutToClose, closeReason, sock, inPipe,
          outPipe, at, why, rpc, batch, spc, sendbuf, mpc, stop, listener,
          peer, fromPeer, inSocket, taken, toPeer, accepted, promised, asked,
          panicked, callbacks>>

-----------------------------------------------------------------------------
Reasons == {"by_self", "by_other", "by_accident"}
Statements == {"out", "test", "socket", "mark", "inPipe", "outPipe", "callback"}

TypeOK ==
  /\ isEnabled \in BOOLEAN /\ isClosed \in BOOLEAN /\ aboutToClose \in BOOLEAN
  /\ closeReason \in Reasons \cup {"none"}
  /\ sock \in {"open", "closed"}
  /\ inPipe \in Chan(1 .. MaxIn)
  /\ outPipe \in Chan(Msgs)
  /\ at \in [Actors -> Statements]
  /\ why \in [Actors -> Reasons]
  /\ rpc \in {"top", "check", "read", "push", "end"}
  /\ batch \in Seq(1 .. MaxIn)
  /\ spc \in {"top", "take", "write", "end"}
  /\ sendbuf \in Seq(Msgs)
  /\ mpc \in [Msgs -> {"idle", "write", "accepted", "refused"}]
  /\ stop \in {"idle", "waiting", "returned"}
  /\ listener \in {"top", "accept", "end"}
  /\ peer \in {"open", "closed"}
  /\ fromPeer \in 0 .. MaxIn
  /\ inSocket \in Seq(1 .. MaxIn)
  /\ taken \in Seq(1 .. MaxIn)
  /\ toPeer \in Seq(Msgs)
  /\ accepted \in Seq(Msgs)
  /\ promised \in Nat
  /\ asked \subseteq Actors
  /\ panicked \in BOOLEAN
  /\ callbacks \in Nat

\* newConn, which a listener of a TCP server has called.
Init ==
  /\ isEnabled = TRUE /\ isClosed = FALSE /\ aboutToClose = FALSE
  /\ closeReason = "none" /\ sock = "open"
  /\ inPipe = NewChan /\ outPipe = NewChan
  /\ at = [a \in Actors |-> "out"]
  /\ why = [a \in Actors |-> "by_self"]
  /\ rpc = "top" /\ batch = <<>>
  /\ spc = (IF HasSender THEN "top" ELSE "end") /\ sendbuf = <<>>
  /\ mpc = [m \in Msgs |-> "idle"]
  /\ stop = "idle" /\ listener = (IF IsTCP /\ IsServer THEN "top" ELSE "end")
  /\ peer = "open" /\ fromPeer = 0 /\ inSocket = <<>>
  /\ taken = <<>> /\ toPeer = <<>> /\ accepted = <<>>
  /\ promised = 0 /\ asked = {} /\ panicked = FALSE /\ callbacks = 0

-----------------------------------------------------------------------------
(* closeNow(normalClose, isEOF), executed by actor a.                      *)

\* Actor a calls closeNow.  The reason determines its two arguments.
Call(a, reason) ==
  /\ at[a] = "out"
  /\ at' = [at EXCEPT ![a] = "test"]
  /\ why' = [why EXCEPT ![a] = reason]
  /\ asked' = IF reason = "by_self" THEN asked \cup {a} ELSE asked

Goto(a, statement) == at' = [at EXCEPT ![a] = statement]

\* Actor a leaves closeNow.
Leaves(a, reason) == Goto(a, "out") /\ why' = [why EXCEPT ![a] = reason]
Leave(a) == Leaves(a, "by_self")

\* A closed connection is left alone.  The first normal close only announces
\* itself: send closes the connection when outPipe is empty.
CloseTest(a) ==
  /\ at[a] = "test"
  /\ IF isClosed
     THEN Leave(a) /\ UNCHANGED <<aboutToClose, promised>>
     ELSE IF why[a] = "by_self" /\ ~aboutToClose
     THEN Leave(a) /\ aboutToClose' = TRUE /\ promised' = Len(accepted)
     ELSE Goto(a, "socket") /\ UNCHANGED <<why, aboutToClose, promised>>
  /\ UNCHANGED <<isEnabled, isClosed, closeReason, sock, inPipe, outPipe,
                 asked, recvVars, sendVars, mpc, stop, listener, peerVars,
                 taken, toPeer, accepted, panicked, callbacks>>

\* c.conn.Close() returns an error when the socket has been closed before.
ClosesSocket(a, wins) ==
  /\ at[a] = "socket"
  /\ sock' = "closed"
  /\ IF wins THEN Goto(a, "mark") /\ UNCHANGED why ELSE Leave(a)
  /\ UNCHANGED <<isEnabled, isClosed, aboutToClose, closeReason, inPipe,
                 outPipe, asked, recvVars, sendVars, mpc, stop, listener,
                 peerVars, taken, toPeer, accepted, outcome>>
CloseSocketBlind(a) == ClosesSocket(a, TRUE)              \* faulty: err ignored
CloseSocket(a) == ClosesSocket(a, sock = "open")

CloseMark(a) ==
  /\ at[a] = "mark"
  /\ isClosed' = TRUE
  /\ closeReason' = why[a]
  /\ Goto(a, "inPipe")
  /\ UNCHANGED <<isEnabled, aboutToClose, sock, inPipe, outPipe, why, asked,
                 recvVars, sendVars, mpc, stop, listener, peerVars, taken,
                 toPeer, accepted, outcome>>

CloseIn(a) ==
  /\ at[a] = "inPipe"
  /\ inPipe' = Closed(inPipe)
  /\ panicked' = (panicked \/ ~inPipe.open)
  /\ Goto(a, "outPipe")
  /\ UNCHANGED <<flags, outPipe, why, asked, recvVars, sendVars, mpc, stop,
                 listener, peerVars, taken, toPeer, accepted, promised,
                 callbacks>>

CloseOut(a) ==
  /\ at[a] = "outPipe"
  /\ outPipe' = Closed(outPipe)
  /\ panicked' = (panicked \/ ~outPipe.open)
  /\ Goto(a, "callback")
  /\ UNCHANGED <<flags, inPipe, why, asked, recvVars, sendVars, mpc, stop,
                 listener, peerVars, taken, toPeer, accepted, promised,
                 callbacks>>

\* The owner has registered disconnCallbackFunc, which takes effect for TCP.
CloseCallback(a) ==
  /\ at[a] = "callback"
  /\ callbacks' = IF IsTCP THEN callbacks + 1 ELSE callbacks
  /\ Leave(a)
  /\ UNCHANGED <<flags, inPipe, outPipe, asked, recvVars, sendVars, mpc, stop,
                 listener, peerVars, taken, toPeer, accepted, promised,
                 panicked>>

CloseNow(a) == \/ CloseTest(a) \/ CloseSocket(a) \/ CloseMark(a)
               \/ CloseIn(a) \/ CloseOut(a) \/ CloseCallback(a)

-----------------------------------------------------------------------------
(* The callers: Close, SendMsg, RecvMsg and Commu.Stop.                    *)

Close(u) ==
  /\ u \notin asked
  /\ Call(u, "by_self")
  /\ UNCHANGED <<flags, inPipe, outPipe, recvVars, sendVars, mpc, stop,
                 listener, peerVars, taken, toPeer, accepted, outcome>>

\* SendMsg tests aboutToClose and isClosed, and only then writes outPipe.
SendMoves(m, from, to) ==
  /\ mpc[m] = from
  /\ mpc' = [mpc EXCEPT ![m] = to]
  /\ UNCHANGED <<flags, inPipe, closing, recvVars, sendVars, stop, listener,
                 peerVars, taken, toPeer, outcome>>

SendTest(m) ==
  /\ SendMoves(m, "idle", IF aboutToClose \/ isClosed \/ ~HasSender
                          THEN "refused" ELSE "write")
  /\ UNCHANGED <<outPipe, accepted>>

SendAccept(m) ==
  /\ CanWrite(outPipe, OutLimit)
  /\ SendMoves(m, "write", "accepted")
  /\ outPipe' = Written(outPipe, m)
  /\ accepted' = Append(accepted, m)

\* The pipe has been closed, or it stays full until the time-out.
SendRefuse(m) ==
  /\ WriteIsClosed(outPipe) \/ WriteWaits(outPipe, OutLimit)
  /\ SendMoves(m, "write", "refused")
  /\ UNCHANGED <<outPipe, accepted>>

SendMsg(m) == SendTest(m) \/ SendAccept(m) \/ SendRefuse(m)

RecvMsg ==
  /\ CanRead(inPipe)
  /\ taken' = Append(taken, NextValue(inPipe))
  /\ inPipe' = Consumed(inPipe)
  /\ UNCHANGED <<flags, outPipe, closing, recvVars, sendVars, mpc, stop,
                 listener, peerVars, toPeer, accepted, outcome>>

Stop ==
  /\ stop = "idle"
  /\ stop' = "waiting"
  /\ isEnabled' = FALSE
  /\ UNCHANGED <<isClosed, aboutToClose, closeReason, sock, inPipe, outPipe,
                 closing, recvVars, sendVars, mpc, listener, peerVars, taken,
                 toPeer, accepted, outcome>>

\* wgSendConns.Wait() and wgRecvConns.Wait(): both goroutines have returned,
\* out of closeNow as well.
Returned == /\ spc = "end" /\ at["send"] = "out"
            /\ rpc = "end" /\ at["recv"] = "out"

\* Before, wgListeners.Wait() waits for the listeners.
StopReturn ==
  /\ stop = "waiting"
  /\ listener = "end" /\ Returned
  /\ stop' = "returned"
  /\ UNCHANGED <<flags, inPipe, outPipe, closing, recvVars, sendVars, mpc,
                 listener, peerVars, taken, toPeer, accepted, outcome>>

-----------------------------------------------------------------------------
(* The goroutine listen of a TCP server; one stands for those of all its   *)
(* addresses.                                                              *)

ListenMoves(from, to) ==
  /\ listener = from
  /\ listener' = to
  /\ UNCHANGED <<flags, inPipe, outPipe, closing, recvVars, sendVars, mpc,
                 stop, peerVars, taken, toPeer, accepted, outcome>>

ListenTop == ListenMoves("top", IF isEnabled THEN "accept" ELSE "end")

\* Accept has no deadline: it returns when a client connects or for an error, which
\* ends the goroutine unless it is temporary.
ListenAccept == \E to \in {"top", "end"} : ListenMoves("accept", to)

Listen == ListenTop \/ ListenAccept

-----------------------------------------------------------------------------
(* The goroutine recv.                                                     *)

RecvMoves(from, to) ==
  /\ at["recv"] = "out"
  /\ rpc = from
  /\ rpc' = to
  /\ UNCHANGED <<flags, outPipe, sendVars, mpc, stop, listener, peer, fromPeer,
                 taken, toPeer, accepted, outcome>>

Continue == IF isClosed \/ aboutToClose THEN "end" ELSE "read"

\* Once the instance has been stopped, closeNow(true, false) is called first.
RecvTops(enabled) ==
  /\ RecvMoves("top", IF enabled THEN Continue ELSE "check")
  /\ IF enabled THEN UNCHANGED closing ELSE Call("recv", "by_self")
  /\ UNCHANGED <<inPipe, batch, inSocket>>
RecvTopDeaf == RecvTops(TRUE)                   \* faulty: Stop is not noticed
RecvTop == RecvTops(isEnabled)

RecvCheck ==
  /\ RecvMoves("check", Continue)
  /\ UNCHANGED <<inPipe, closing, batch, inSocket>>

\* A read returns one or more messages, or nothing before its deadline.
RecvRead ==
  /\ sock = "open"
  /\ \/ /\ inSocket # <<>>
        /\ RecvMoves("read", "push")
        /\ \E n \in 1 .. Len(inSocket) :
             /\ batch' = SubSeq(inSocket, 1, n)
             /\ inSocket' = SubSeq(inSocket, n + 1, Len(inSocket))
     \/ /\ inSocket = <<>> /\ peer = "open"
        /\ RecvMoves("read", "top")
        /\ UNCHANGED <<batch, inSocket>>
  /\ UNCHANGED <<inPipe, closing>>

\* A read returns io.EOF: closeNow(false, true).
RecvEOF ==
  /\ IsTCP /\ sock = "open" /\ peer = "closed" /\ inSocket = <<>>
  /\ RecvMoves("read", "end")
  /\ Call("recv", "by_other")
  /\ UNCHANGED <<inPipe, batch, inSocket>>

\* A read fails, as it does once the socket is closed, the connection has been
\* silent too long, or the next packet is invalid: closeNow(false, false).
RecvFail ==
  /\ \E from \in {"read", "push"} : RecvMoves(from, "end")
  /\ Call("recv", "by_accident")
  /\ batch' = <<>>
  /\ UNCHANGED <<inPipe, inSocket>>

\* The next message goes to inPipe.  While the pipe is full recv tries again.
RecvPush ==
  /\ CanWrite(inPipe, InLimit)
  /\ RecvMoves("push", IF Len(batch) = 1 THEN "top" ELSE "push")
  /\ inPipe' = Written(inPipe, Head(batch))
  /\ batch' = Tail(batch)
  /\ UNCHANGED <<closing, inSocket>>

RecvPushClosed ==
  /\ WriteIsClosed(inPipe)
  /\ RecvMoves("push", "end")
  /\ UNCHANGED <<inPipe, closing, batch, inSocket>>

Recv == \/ RecvTop \/ RecvCheck \/ RecvRead \/ RecvEOF \/ RecvFail
        \/ RecvPush \/ RecvPushClosed

-----------------------------------------------------------------------------
(* The goroutine send.                                                     *)

SendJobMoves(from, to) ==
  /\ at["send"] = "out"
  /\ spc = from
  /\ spc' = to
  /\ UNCHANGED <<flags, inPipe, recvVars, mpc, stop, listener, peerVars, taken,
                 accepted, outcome>>

\* The loop ends when the connection is closed.  When it is about to close and
\* outPipe is empty, closeNow(true, false) is called, and the loop goes on.
SendTops(ends, drained, kept) ==
  /\ SendJobMoves("top", IF ends THEN "end" ELSE "take")
  /\ IF drained /\ ~ends THEN Call("send", "by_self") ELSE UNCHANGED closing
  /\ sendbuf' = kept
  /\ UNCHANGED <<outPipe, toPeer>>

Drained == aboutToClose /\ outPipe.buf = <<>>

SendTopQuits == SendTops(isClosed \/ aboutToClose, Drained, <<>>)  \* faulty
SendTopEager == SendTops(isClosed, aboutToClose, <<>>)  \* faulty: not drained
SendTopNever == SendTops(isClosed, FALSE, <<>>)         \* faulty: nobody closes
SendTopStale == SendTops(isClosed, Drained, sendbuf)    \* faulty: buffer kept
SendTop == SendTops(isClosed, Drained, <<>>)

\* readPacketsFromPipe: packets are taken until the pipe is empty or half of
\* the buffer is full.
SendTake ==
  /\ CanRead(outPipe)
  /\ SendJobMoves("take", IF Len(sendbuf) + 1 = BatchLimit THEN "write" ELSE "take")
  /\ outPipe' = Consumed(outPipe)
  /\ sendbuf' = Append(sendbuf, NextValue(outPipe))
  /\ UNCHANGED <<closing, toPeer>>

\* The pipe is empty: what has been taken is written; without anything to
\* write the read waits for a second and the loop starts again.
SendTakeEmpty ==
  /\ ReadWaits(outPipe)
  /\ SendJobMoves("take", IF sendbuf = <<>> THEN "top" ELSE "write")
  /\ UNCHANGED <<outPipe, closing, sendbuf, toPeer>>

\* The pipe has been closed: what has been taken is lost.
SendTakeClosed ==
  /\ ReadIsClosed(outPipe)
  /\ SendJobMoves("take", "end")
  /\ UNCHANGED <<outPipe, closing, sendbuf, toPeer>>

SendWrite ==
  /\ sock = "open"
  /\ SendJobMoves("write", "top")
  /\ toPeer' = toPeer \o sendbuf
  /\ UNCHANGED <<outPipe, closing, sendbuf>>

\* The write fails, because the socket is closed at either end.
SendWriteFail ==
  /\ sock = "closed" \/ peer = "closed"
  /\ SendJobMoves("write", "end")
  /\ IF isClosed THEN UNCHANGED closing ELSE Call("send", "by_accident")
  /\ UNCHANGED <<outPipe, sendbuf, toPeer>>

Send == \/ SendTop \/ SendTake \/ SendTakeEmpty \/ SendTakeClosed
        \/ SendWrite \/ SendWriteFail

-----------------------------------------------------------------------------
(* The other end.                                                          *)

PeerSends ==
  /\ peer = "open"
  /\ fromPeer < MaxIn
  /\ fromPeer' = fromPeer + 1
  /\ inSocket' = Append(inSocket, fromPeer + 1)
  /\ UNCHANGED <<flags, inPipe, outPipe, closing, recvVars, sendVars, mpc,
                 stop, listener, peer, taken, toPeer, accepted, outcome>>

PeerCloses ==
  /\ peer = "open"
  /\ peer' = "closed"
  /\ UNCHANGED <<flags, inPipe, outPipe, closing, recvVars, sendVars, mpc,
                 stop, listener, fromPeer, inSocket, taken, toPeer, accepted,
                 outcome>>

-----------------------------------------------------------------------------
Next == \/ \E a \in Actors : CloseNow(a)
        \/ \E u \in Closers : Close(u)
        \/ \E m \in Msgs : SendMsg(m)
        \/ RecvMsg \/ Stop \/ StopReturn
        \/ Listen \/ Recv \/ Send
        \/ PeerSends \/ PeerCloses

Spec == Init /\ [][Next]_vars

\* The goroutines run, and the other end reads what is sent.  Nobody need call
\* Close, SendMsg or Stop, the other end need not send or close, no client need
\* connect, and reads on an open socket need not fail.
Fairness ==
  /\ \A a \in Actors : WF_vars(CloseNow(a))
  /\ WF_vars(RecvTop) /\ WF_vars(RecvCheck) /\ WF_vars(RecvRead) /\ WF_vars(RecvEOF)
  /\ WF_vars(sock = "closed" /\ rpc = "read" /\ RecvFail)
  /\ WF_vars(RecvPush) /\ WF_vars(RecvPushClosed)
  /\ WF_vars(Send)
  /\ WF_vars(ListenTop) /\ WF_vars(StopReturn)

\* The owner of the connection keeps receiving messages.
FairSpec == Spec /\ Fairness /\ WF_vars(RecvMsg)

-----------------------------------------------------------------------------
(* Safety.                                                                 *)

\* However many goroutines execute closeNow, the pipes are closed only once
\* (closing a closed channel panics): the result of the socket's Close lets a
\* single one of them through.  The owner is told of the disconnection at most
\* once, and when it is told the connection says it is closed, and why, and both
\* pipes are closed.
ClosedOnce ==
  /\ ~panicked
  /\ callbacks <= 1
  /\ callbacks = 1 => /\ isClosed /\ closeReason # "none"
                      /\ ~inPipe.open /\ ~outPipe.open

\* What SendMsg accepted is written in order, without gaps or duplicates, and
\* RecvMsg returns what the other end sent, in order.
InOrder ==
  /\ IsPrefix(toPeer, accepted)
  /\ taken = [i \in 1 .. Len(taken) |-> i]

\* All that had been accepted when aboutToClose was set has been written.
DrainBeforeClose == closeReason = "by_self" => Len(toPeer) >= promised

\* `Messages in the pipe must be sent before the connection is closed', if it was
\* asked to close once, by one call of Close or by Stop.
GracefulClose == Cardinality(asked \ {"send"}) = 1 => DrainBeforeClose

\* When Stop returns, the connection is disconnected.
StopDisconnects == stop = "returned" => sock = "closed"

-----------------------------------------------------------------------------
(* Liveness.                                                               *)

\* A connection that has been asked to close does so: its goroutines return
\* and the owner is told.
CloseCompletes ==
  aboutToClose ~> /\ isClosed /\ Returned
                  /\ IsTCP => callbacks = 1

\* Stop returns, unless a listener stays in Accept for ever.
StopReturns ==
  []<>(listener # "accept") => (stop = "waiting" ~> stop = "returned")
=============================================================================
