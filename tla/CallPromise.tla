---------------------------- MODULE CallPromise ----------------------------
(***************************************************************************)
(* What the data access SDK (component/datasdk) promises for each data     *)
(* operation, without its goroutines, channels, locks and timers.          *)
(*                                                                         *)
(* A call is opened when its session is recorded.  It is then claimed by   *)
(* exactly one party: by the response of the data server ("answered") or   *)
(* by its timer ("expired"), or the sender withdraws it ("abandoned").     *)
(* Only a claim leads to a verdict, the verdict is the one of the claim,   *)
(* and a verdict is final.                                                 *)
(***************************************************************************)
CONSTANT Ops

VARIABLE call       \* the stage of every call

Stages == {"idle", "open", "answered", "expired",
           "result", "timeout", "abandoned"}

PromiseTypeOK == call \in [Ops -> Stages]

Init == call = [s \in Ops |-> "idle"]

\* The call s moves from the stage `from' to the stage `to'.
Move(s, from, to) ==
  /\ call[s] = from
  /\ call' = [call EXCEPT ![s] = to]

Open(s)    == Move(s, "idle", "open")
Refuse(s)  == Move(s, "idle", "abandoned")    \* rejected before it is recorded
Answer(s)  == Move(s, "open", "answered")
Expire(s)  == Move(s, "open", "expired")
Withdraw(s) == Move(s, "open", "abandoned")   \* the request was not sent
Discard(s) == Move(s, "answered", "abandoned") \* the response is unusable
Deliver(s) == \/ Move(s, "answered", "result")
              \/ Move(s, "expired", "timeout")

Next == \E s \in Ops :
          \/ Open(s) \/ Refuse(s)
          \/ Answer(s) \/ Expire(s) \/ Withdraw(s)
          \/ Discard(s) \/ Deliver(s)

Spec == Init /\ [][Next]_call
=============================================================================
