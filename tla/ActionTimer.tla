---------------------------- MODULE ActionTimer ----------------------------
(***************************************************************************)
(* The timers of the main loop (framework/base/service.go): callers add,   *)
(* delete, pause and resume named timers, MainLoop executes the requests.  *)
(*                                                                         *)
(* Every request, and the expiry of a timer, is written to the channel     *)
(* timeoutAction by a goroutine of its own (WriteChanAddressTimeoutAction),*)
(* so requests reach MainLoop in any order, however they were made: the    *)
(* requests in flight are counted, not queued.                             *)
(*                                                                         *)
(* The maps timeoutActionMap, delTimeoutAction and timerInfo gain and lose *)
(* their keys together and are one variable, and so are the goroutines     *)
(* that hold the same channel.  Durations are abstracted: a timer may      *)
(* expire at any time.                                                     *)
(***************************************************************************)
EXTENDS Naturals

CONSTANTS
  Calls,     \* one element per call of AddTimeoutAction or AddTimeoutActionEx
  Ids,       \* the action ids
  IdOf,      \* the id each call gives or is given
  Repeats,   \* the calls with repeat = true
  MaxOps     \* bound: calls of Del-, Pause- and ResumeTimeoutAction together

\* AddTimeoutAction allocates an id for each call; a caller of
\* AddTimeoutActionEx gives one, which other calls may have as well.
ASSUME TimerAssumption ==
  /\ IdOf \in [Calls -> Ids]
  /\ Repeats \subseteq Calls
  /\ MaxOps \in Nat
  /\ "absent" \notin Calls /\ "nil" \notin Calls

VARIABLES
  uncalled,         \* calls of Add... not made yet
  ops,              \* number of the other calls made
  adding,           \* requests to add in flight
  inflight,         \* number of other requests in flight, per kind and id
  timeoutActionMap, \* the handler of each id: that of a call, nil, or absent
  pauseTimerEvent,  \* the handler saved by a pause, or absent
  waiting,          \* goroutines that wait for time.After, per id and repeat
  cancelled,        \* those whose delTimeoutAction channel has been closed
  \* what has been observed
  invoked,          \* calls whose handler has been invoked
  ran,              \* complete runs of the handler of each call (2: or more)
  dead,             \* calls whose timer MainLoop has been told to delete
  touched           \* ids that were ever deleted, paused or resumed

vars == <<uncalled, ops, adding, inflight, timeoutActionMap, pauseTimerEvent,
          waiting, cancelled, invoked, ran, dead, touched>>

observed == <<invoked, ran, dead, touched>>

Handlers == Calls \cup {"nil", "absent"}
\* "again" is the request of a repeating timer to be added again.
Kinds == {"delete", "pause", "resume", "again", "execute", "executeRepeat"}
\* The field repeat of a request.
Modes == {"once", "repeat"}
Mode(c) == IF c \in Repeats THEN "repeat" ELSE "once"
Execute(mode) == IF mode = "repeat" THEN "executeRepeat" ELSE "execute"

TypeOK ==
  /\ uncalled \subseteq Calls
  /\ ops \in 0 .. MaxOps
  /\ adding \subseteq Calls
  /\ inflight \in [Kinds -> [Ids -> Nat]]
  /\ timeoutActionMap \in [Ids -> Handlers]
  /\ pauseTimerEvent \in [Ids -> Handlers]
  /\ waiting \in [Ids -> [Modes -> Nat]]
  /\ cancelled \in [Ids -> [Modes -> Nat]]
  /\ invoked \subseteq Calls
  /\ ran \in [Calls -> 0 .. 2]
  /\ dead \subseteq Calls
  /\ touched \subseteq Ids

Init ==
  /\ uncalled = Calls /\ ops = 0 /\ adding = {}
  /\ inflight = [k \in Kinds |-> [i \in Ids |-> 0]]
  /\ timeoutActionMap = [i \in Ids |-> "absent"]
  /\ pauseTimerEvent = [i \in Ids |-> "absent"]
  /\ waiting = [i \in Ids |-> [m \in Modes |-> 0]]
  /\ cancelled = [i \in Ids |-> [m \in Modes |-> 0]]
  /\ ran = [c \in Calls |-> 0]
  /\ invoked = {} /\ dead = {} /\ touched = {}

-----------------------------------------------------------------------------
(* The callers.                                                            *)

AddTimeoutAction(c) ==
  /\ c \in uncalled
  /\ uncalled' = uncalled \ {c}
  /\ adding' = adding \cup {c}
  /\ UNCHANGED <<ops, inflight, timeoutActionMap, pauseTimerEvent, waiting,
                 cancelled, observed>>

Request(kind, i) ==
  /\ kind \in {"delete", "pause", "resume"}
  /\ ops < MaxOps
  /\ ops' = ops + 1
  /\ touched' = touched \cup {i}
  /\ inflight' = [inflight EXCEPT ![kind][i] = @ + 1]
  /\ UNCHANGED <<uncalled, adding, timeoutActionMap, pauseTimerEvent, waiting,
                 cancelled, invoked, ran, dead>>

-----------------------------------------------------------------------------
(* The goroutine of a timer: select between delTimeoutActionChan, once it  *)
(* is closed, and time.After.  If both are ready either is chosen.         *)

Expire(i, mode) ==
  /\ \/ /\ waiting[i][mode] > 0
        /\ waiting' = [waiting EXCEPT ![i][mode] = @ - 1]
        /\ UNCHANGED cancelled
     \/ /\ cancelled[i][mode] > 0
        /\ cancelled' = [cancelled EXCEPT ![i][mode] = @ - 1]
        /\ UNCHANGED waiting
  /\ inflight' = [inflight EXCEPT ![Execute(mode)][i] = @ + 1]
  /\ UNCHANGED <<uncalled, ops, adding, timeoutActionMap, pauseTimerEvent,
                 observed>>

Quit(i, mode) ==
  /\ cancelled[i][mode] > 0
  /\ cancelled' = [cancelled EXCEPT ![i][mode] = @ - 1]
  /\ UNCHANGED <<uncalled, ops, adding, inflight, timeoutActionMap,
                 pauseTimerEvent, waiting, observed>>

-----------------------------------------------------------------------------
(* MainLoop.                                                               *)

Exists(i) == timeoutActionMap[i] # "absent"

\* case 0: an absent timer is recorded with its handler.  A goroutine starts
\* to wait, also for a timer that exists if the request is to repeat.
StartsTimer(i, handler, starts) ==
  /\ timeoutActionMap' =
       IF Exists(i) THEN timeoutActionMap
                    ELSE [timeoutActionMap EXCEPT ![i] = handler]
  /\ waiting' = [waiting EXCEPT ![i] = [m \in Modes |->
                                          IF m \in starts THEN @[m] + 1 ELSE @[m]]]
StartTimerOnce(i, handler, mode) ==                    \* faulty: no restart
  StartsTimer(i, handler, IF Exists(i) THEN {} ELSE {mode})
StartTimer(i, handler, mode) ==
  StartsTimer(i, handler, IF Exists(i) /\ mode = "once" THEN {} ELSE {mode})

\* case 1: the entry of a timer is removed and its channel closed.
RemoveTimer(i) ==
  /\ timeoutActionMap' = [timeoutActionMap EXCEPT ![i] = "absent"]
  /\ cancelled' = [cancelled EXCEPT
                     ![i] = [m \in Modes |-> @[m] + waiting[i][m]]]
  /\ waiting' = [waiting EXCEPT ![i] = [m \in Modes |-> 0]]

Without(kind, i) == [inflight EXCEPT ![kind][i] = @ - 1]

Receive(kind, i) == inflight[kind][i] > 0 /\ inflight' = Without(kind, i)

Adds(c, handler) ==
  /\ c \in adding
  /\ adding' = adding \ {c}
  /\ StartTimer(IdOf[c], handler, Mode(c))
  /\ UNCHANGED <<uncalled, ops, inflight, pauseTimerEvent, cancelled, observed>>
HandleAdd(c) == Adds(c, c)

\* The request of a repeating timer carries no handler.
HandleAgain(i) ==
  /\ Receive("again", i)
  /\ StartTimer(i, "nil", "repeat")
  /\ UNCHANGED <<uncalled, ops, adding, pauseTimerEvent, cancelled, observed>>

\* case 4 restores the handler of a paused timer and continues with case 0;
\* the request has repeat = false.
HandleResume(i) ==
  /\ Receive("resume", i)
  /\ pauseTimerEvent' = [pauseTimerEvent EXCEPT ![i] = "absent"]
  /\ IF pauseTimerEvent[i] = "absent"
     THEN UNCHANGED <<timeoutActionMap, waiting>>
     ELSE StartTimer(i, pauseTimerEvent[i], "once")
  /\ UNCHANGED <<uncalled, ops, adding, cancelled, observed>>

\* case 3 saves the timer, if it exists, and continues with case 1.
Pauses(i) ==
  /\ Receive("pause", i)
  /\ pauseTimerEvent' = IF Exists(i)
                        THEN [pauseTimerEvent EXCEPT ![i] = timeoutActionMap[i]]
                        ELSE pauseTimerEvent
  /\ UNCHANGED <<uncalled, ops, adding, observed>>
HandlePause(i) == Pauses(i) /\ RemoveTimer(i)

\* A request of chanType 1 forgets the paused timer as well.
Deletes(i, paused) ==
  /\ Receive("delete", i)
  /\ RemoveTimer(i)
  /\ pauseTimerEvent' = [pauseTimerEvent EXCEPT ![i] = paused]
  /\ dead' = dead \cup ({timeoutActionMap[i], pauseTimerEvent[i]} \cap Calls)
  /\ UNCHANGED <<uncalled, ops, adding, invoked, ran, touched>>
HandleDeleteKeeps(i) == Deletes(i, pauseTimerEvent[i])   \* faulty
HandleDelete(i) == Deletes(i, "absent")

\* case 2: the handler runs, and a repeating timer first asks to be added
\* again.  Unless it repeats or its handler panics, the timer is removed.
Executes(i, mode, removes) ==
  LET kind == Execute(mode)
      handler == timeoutActionMap[i]
      again == mode = "repeat" /\ Exists(i)
  IN /\ inflight[kind][i] > 0
     /\ inflight' = IF again
                    THEN [Without(kind, i) EXCEPT !["again"][i] = @ + 1]
                    ELSE Without(kind, i)
     /\ invoked' = invoked \cup ({handler} \cap Calls)
     /\ \E panics \in IF handler = "nil" THEN {TRUE}
                      ELSE IF handler = "absent" THEN {FALSE} ELSE BOOLEAN :
          /\ ran' = [c \in Calls |-> IF c = handler /\ ~panics /\ ran[c] < 2
                                     THEN ran[c] + 1 ELSE ran[c]]
          /\ IF ~panics /\ ~again /\ removes
             THEN RemoveTimer(i)
             ELSE UNCHANGED <<timeoutActionMap, waiting, cancelled>>
     /\ UNCHANGED <<uncalled, ops, adding, pauseTimerEvent, dead, touched>>
HandleExecuteKeeps(i, mode) == Executes(i, mode, FALSE)     \* faulty
HandleExecute(i, mode) == Executes(i, mode, TRUE)

MainLoop == \/ \E c \in Calls : HandleAdd(c)
            \/ \E i \in Ids :
                 \/ HandleAgain(i) \/ HandleResume(i) \/ HandlePause(i)
                 \/ HandleDelete(i)
                 \/ \E mode \in Modes : HandleExecute(i, mode)

-----------------------------------------------------------------------------
Next == \/ \E c \in Calls : AddTimeoutAction(c)
        \/ \E kind \in Kinds, i \in Ids : Request(kind, i)
        \/ \E i \in Ids, mode \in Modes : Expire(i, mode) \/ Quit(i, mode)
        \/ MainLoop

Spec == Init /\ [][Next]_vars

\* MainLoop receives what is sent to it, and time passes.
Fairness ==
  /\ \A c \in Calls : WF_vars(HandleAdd(c))
  /\ \A i \in Ids : /\ WF_vars(HandleAgain(i))
                    /\ \A mode \in Modes : /\ WF_vars(HandleExecute(i, mode))
                                               /\ WF_vars(Expire(i, mode))

FairSpec == Spec /\ Fairness

-----------------------------------------------------------------------------
(* Properties.                                                             *)

\* A one-shot timer completes its handler at most once, although a pause and a
\* resume may leave several expiries of it in flight, and others may have its id.
\* If a call with repeat = true has its id, the handler may run again and again:
\* the repetition is of the id (AddTimeoutActionEx checks no id).
Repeated(i) == \E c \in Repeats : IdOf[c] = i
OneShot(c) == ~Repeated(IdOf[c])
RunsOnce == \A c \in Calls : OneShot(c) => ran[c] <= 1

\* The handler of a call is in one place at a time - in the request to add it,
\* in timeoutActionMap or in pauseTimerEvent - so a paused timer cannot run,
\* and once a one-shot has completed it is in none.
Places(c) == {p \in {"call", "request", "map", "paused"} :
                \/ p = "call" /\ c \in uncalled
                \/ p = "request" /\ c \in adding
                \/ p = "map" /\ timeoutActionMap[IdOf[c]] = c
                \/ p = "paused" /\ pauseTimerEvent[IdOf[c]] = c}

OnePlace == \A c \in Calls : /\ \A p, q \in Places(c) : p = q
                             /\ OneShot(c) /\ ran[c] > 0 => Places(c) = {}

\* A timer that MainLoop has deleted, running or paused, cannot run any more.
DeletedIsForgotten == \A c \in dead : Places(c) = {}

\* Delete, pause and the end of a timer take effect: an id has a handler only
\* if a caller gave it one.
NoEmptyTimer == \A i \in Ids : timeoutActionMap[i] # "nil"

\* A timer whose id nobody deletes, pauses or resumes runs, unless another call
\* gives the same id; and a repeating one that is recorded expires again and again.
Shared(c) == \E d \in Calls \ uncalled : d # c /\ IdOf[d] = IdOf[c]
Expired(i) == inflight["executeRepeat"][i] > 0
AddedRuns ==
  /\ \A c \in Calls :
       c \in adding ~> c \in invoked \/ IdOf[c] \in touched \/ Shared(c)
  /\ \A c \in Repeats :
       timeoutActionMap[IdOf[c]] = c ~> Expired(IdOf[c]) \/ IdOf[c] \in touched
=============================================================================
