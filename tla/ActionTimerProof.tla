-------------------------- MODULE ActionTimerProof --------------------------
(***************************************************************************)
(* Theorems about ActionTimer, for any calls, ids and number of requests.  *)
(*                                                                         *)
(* RunsOnce is not inductive by itself: a handler that has completed must  *)
(* be in no place from which it could run again (OnePlace), handlers are   *)
(* kept under the id of their call, and the requests that let a timer live *)
(* on after its execution exist only for ids of repeating timers.          *)
(***************************************************************************)
EXTENDS ActionTimer, TLAPS

\* Handlers are recorded and saved under the id of their call.
OwnId == \A i \in Ids : \A c \in Calls :
           timeoutActionMap[i] = c \/ pauseTimerEvent[i] = c => IdOf[c] = i

\* Repetition is only ever requested for the ids of repeating timers.
RepetitionIsOwn ==
  \A i \in Ids :
    \/ inflight["again"][i] > 0 \/ inflight["executeRepeat"][i] > 0
    \/ waiting[i]["repeat"] > 0 \/ cancelled[i]["repeat"] > 0
    => Repeated(i)

InUncalled(c) == c \in uncalled
InRequest(c) == c \in adding
InMap(c) == timeoutActionMap[IdOf[c]] = c
InPaused(c) == pauseTimerEvent[IdOf[c]] = c
Placed(c) == InUncalled(c) \/ InRequest(c) \/ InMap(c) \/ InPaused(c)

\* OnePlace and DeletedIsForgotten, place by place.
PlaceInv(c) ==
  /\ InUncalled(c) => ~InRequest(c) /\ ~InMap(c) /\ ~InPaused(c)
  /\ InRequest(c) => ~InMap(c) /\ ~InPaused(c)
  /\ InMap(c) => ~InPaused(c)
  /\ OneShot(c) /\ ran[c] > 0 => ~Placed(c)
  /\ c \in dead => ~Placed(c)
  /\ OneShot(c) => ran[c] <= 1

Inductive == /\ OwnId
             /\ RepetitionIsOwn
             /\ \A c \in Calls : PlaceInv(c)

(***************************************************************************)
(* Type correctness.                                                       *)
(***************************************************************************)
LEMMA StartTimerType ==
  ASSUME TypeOK, NEW i \in Ids, NEW handler \in Handlers, NEW mode \in Modes,
         StartTimer(i, handler, mode)
  PROVE  /\ timeoutActionMap' \in [Ids -> Handlers]
         /\ waiting' \in [Ids -> [Modes -> Nat]]
BY DEF TypeOK, StartTimer, StartsTimer

\* Removing a timer keeps the types of what it touches.
LEMMA RemoveTimerType ==
  ASSUME TypeOK, NEW i \in Ids, RemoveTimer(i)
  PROVE  /\ timeoutActionMap' \in [Ids -> Handlers]
         /\ waiting' \in [Ids -> [Modes -> Nat]]
         /\ cancelled' \in [Ids -> [Modes -> Nat]]
BY DEF TypeOK, RemoveTimer, Handlers

\* The first states are well typed.
LEMMA TypeInit == Init => TypeOK
BY TimerAssumption DEF Init, TypeOK, Handlers

\* Running a handler, and asking for the next turn, keeps the types.
LEMMA ExecuteType ==
  ASSUME TypeOK, NEW i \in Ids, NEW mode \in Modes, HandleExecute(i, mode)
  PROVE  TypeOK'
<1>1. /\ inflight[Execute(mode)][i] > 0
      /\ \/ inflight' = Without(Execute(mode), i)
         \/ inflight' = [Without(Execute(mode), i) EXCEPT !["again"][i] = @ + 1]
  BY DEF HandleExecute, Executes
<1>2. inflight' \in [Kinds -> [Ids -> Nat]]
  <2>1. Execute(mode) \in Kinds
    BY DEF Execute, Kinds
  <2>2. Without(Execute(mode), i) \in [Kinds -> [Ids -> Nat]]
    BY <1>1, <2>1 DEF TypeOK, Without
  <2>3. QED
    BY <1>1, <2>2 DEF Kinds
<1>3. invoked' \subseteq Calls
  BY DEF HandleExecute, Executes, TypeOK
<1>4. ran' \in [Calls -> 0 .. 2]
  BY DEF HandleExecute, Executes, TypeOK
<1>5. \/ RemoveTimer(i)
      \/ UNCHANGED <<timeoutActionMap, waiting, cancelled>>
  BY DEF HandleExecute, Executes
<1>6. /\ timeoutActionMap' \in [Ids -> Handlers]
      /\ waiting' \in [Ids -> [Modes -> Nat]]
      /\ cancelled' \in [Ids -> [Modes -> Nat]]
  BY <1>5, RemoveTimerType DEF TypeOK
<1>7. UNCHANGED <<uncalled, ops, adding, pauseTimerEvent, dead, touched>>
  BY DEF HandleExecute, Executes
<1>8. QED
  BY <1>2, <1>3, <1>4, <1>6, <1>7 DEF TypeOK

\* Every step keeps the types.
LEMMA TypeStep == TypeOK /\ [Next]_vars => TypeOK'
<1> SUFFICES ASSUME TypeOK, [Next]_vars PROVE TypeOK'
  OBVIOUS
<1>1. ASSUME NEW c \in Calls, AddTimeoutAction(c) PROVE TypeOK'
  BY <1>1 DEF AddTimeoutAction, TypeOK, observed
<1>2. ASSUME NEW kind \in Kinds, NEW i \in Ids, Request(kind, i) PROVE TypeOK'
  BY <1>2, TimerAssumption DEF Request, TypeOK
<1>3. ASSUME NEW i \in Ids, NEW mode \in Modes, Expire(i, mode) PROVE TypeOK'
  <2>1. inflight' \in [Kinds -> [Ids -> Nat]]
    <3>1. PICK k \in Kinds : k = Execute(mode)
      BY DEF Execute, Kinds
    <3>2. QED
      BY <1>3, <3>1 DEF Expire, TypeOK
  <2>2. waiting' \in [Ids -> [Modes -> Nat]] /\ cancelled' \in [Ids -> [Modes -> Nat]]
    <3>1. CASE waiting[i][mode] > 0 /\ UNCHANGED cancelled
                 /\ waiting' = [waiting EXCEPT ![i][mode] = @ - 1]
      BY <3>1 DEF TypeOK
    <3>2. CASE cancelled[i][mode] > 0 /\ UNCHANGED waiting
                 /\ cancelled' = [cancelled EXCEPT ![i][mode] = @ - 1]
      BY <3>2 DEF TypeOK
    <3>3. QED
      BY <1>3, <3>1, <3>2 DEF Expire
  <2>3. QED
    BY <1>3, <2>1, <2>2 DEF Expire, TypeOK, observed
<1>4. ASSUME NEW i \in Ids, NEW mode \in Modes, Quit(i, mode) PROVE TypeOK'
  BY <1>4 DEF Quit, TypeOK, observed
<1>5. ASSUME NEW c \in Calls, HandleAdd(c) PROVE TypeOK'
  <2>1. /\ timeoutActionMap' \in [Ids -> Handlers]
        /\ waiting' \in [Ids -> [Modes -> Nat]]
    BY <1>5, StartTimerType, TimerAssumption DEF HandleAdd, Adds, Handlers, Mode, Modes
  <2>2. QED
    BY <1>5, <2>1 DEF HandleAdd, Adds, TypeOK, observed
<1>6. ASSUME NEW i \in Ids, HandleAgain(i) PROVE TypeOK'
  <2>1. /\ timeoutActionMap' \in [Ids -> Handlers]
        /\ waiting' \in [Ids -> [Modes -> Nat]]
    BY <1>6, StartTimerType DEF HandleAgain, Handlers, Modes
  <2>2. QED
    BY <1>6, <2>1 DEF HandleAgain, Receive, Without, TypeOK, observed, Kinds
<1>7. ASSUME NEW i \in Ids, HandleResume(i) PROVE TypeOK'
  <2>1. "once" \in Modes /\ pauseTimerEvent[i] \in Handlers
    BY DEF Modes, TypeOK
  <2>2. \/ UNCHANGED <<timeoutActionMap, waiting>>
        \/ StartTimer(i, pauseTimerEvent[i], "once")
    BY <1>7 DEF HandleResume
  <2>3. /\ timeoutActionMap' \in [Ids -> Handlers]
        /\ waiting' \in [Ids -> [Modes -> Nat]]
    BY <2>1, <2>2, StartTimerType DEF TypeOK
  <2>4. inflight' \in [Kinds -> [Ids -> Nat]] /\ pauseTimerEvent' \in [Ids -> Handlers]
    BY <1>7 DEF HandleResume, Receive, Without, TypeOK, Kinds, Handlers
  <2>5. QED
    BY <1>7, <2>3, <2>4 DEF HandleResume, TypeOK, observed
<1>8. ASSUME NEW i \in Ids, HandlePause(i) PROVE TypeOK'
  BY <1>8, RemoveTimerType DEF HandlePause, Pauses, Receive, Without, TypeOK, observed, Kinds
<1>9. ASSUME NEW i \in Ids, HandleDelete(i) PROVE TypeOK'
  BY <1>9, RemoveTimerType
     DEF HandleDelete, Deletes, Receive, Without, TypeOK, Kinds, Handlers
<1>10. ASSUME NEW i \in Ids, NEW mode \in Modes, HandleExecute(i, mode)
       PROVE  TypeOK'
  BY <1>10, ExecuteType
<1>11. CASE UNCHANGED vars
  BY <1>11 DEF vars, TypeOK
<1>12. QED
  BY <1>1, <1>2, <1>3, <1>4, <1>5, <1>6, <1>7, <1>8, <1>9, <1>10, <1>11
     DEF Next, MainLoop

\* Every reachable state of the timers is well typed.
THEOREM TypeCorrect == Spec => []TypeOK
BY TypeInit, TypeStep, PTL DEF Spec

(***************************************************************************)
(* The inductive invariant.                                                *)
(***************************************************************************)
LEMMA InductiveInit == Init => Inductive
BY TimerAssumption
   DEF Init, Inductive, OwnId, RepetitionIsOwn, PlaceInv, Placed, InUncalled,
       InRequest, InMap, InPaused, Kinds, Modes

\* Every step keeps the handlers under the ids of their calls.
LEMMA OwnIdStep ==
  ASSUME TypeOK, OwnId, [Next]_vars
  PROVE  OwnId'
<1>1. ASSUME NEW c \in Calls, HandleAdd(c) PROVE OwnId'
  BY <1>1, TimerAssumption DEF HandleAdd, Adds, StartTimer, StartsTimer, OwnId, TypeOK
<1>2. ASSUME NEW i \in Ids, HandleAgain(i) PROVE OwnId'
  BY <1>2, TimerAssumption DEF HandleAgain, StartTimer, StartsTimer, OwnId, TypeOK
<1>3. ASSUME NEW i \in Ids, HandleResume(i) PROVE OwnId'
  BY <1>3, TimerAssumption DEF HandleResume, StartTimer, StartsTimer, OwnId, TypeOK
<1>4. ASSUME NEW i \in Ids, HandlePause(i) PROVE OwnId'
  BY <1>4, TimerAssumption DEF HandlePause, Pauses, RemoveTimer, OwnId, TypeOK
<1>5. ASSUME NEW i \in Ids, HandleDelete(i) PROVE OwnId'
  BY <1>5, TimerAssumption DEF HandleDelete, Deletes, RemoveTimer, OwnId, TypeOK
<1>6. ASSUME NEW i \in Ids, NEW mode \in Modes, HandleExecute(i, mode) PROVE OwnId'
  <2>1. \/ RemoveTimer(i)
        \/ UNCHANGED <<timeoutActionMap, waiting, cancelled>>
    BY <1>6 DEF HandleExecute, Executes
  <2>2. UNCHANGED pauseTimerEvent
    BY <1>6 DEF HandleExecute, Executes
  <2>3. QED
    BY <2>1, <2>2, TimerAssumption DEF RemoveTimer, OwnId, TypeOK
<1>7. CASE UNCHANGED <<timeoutActionMap, pauseTimerEvent>>
  BY <1>7 DEF OwnId
<1>8. QED
  BY <1>1, <1>2, <1>3, <1>4, <1>5, <1>6, <1>7
     DEF Next, MainLoop, AddTimeoutAction, Request, Expire, Quit, vars

\* What MainLoop does to the goroutines of a timer: a repeating one starts only
\* with the repetition, and a removed timer leaves them cancelled.
LEMMA GoroutineStep ==
  ASSUME TypeOK, RepetitionIsOwn, NEW i \in Ids,
         \/ \E handler \in Handlers, mode \in Modes :
              /\ StartTimer(i, handler, mode) /\ UNCHANGED cancelled
              /\ mode = "repeat" => Repeated(i)
         \/ RemoveTimer(i)
         \/ UNCHANGED <<waiting, cancelled>>
  PROVE  \A j \in Ids : waiting[j]["repeat"]' > 0 \/ cancelled[j]["repeat"]' > 0
                          => Repeated(j)
<1>1. ASSUME NEW handler \in Handlers, NEW mode \in Modes,
             StartTimer(i, handler, mode), UNCHANGED cancelled,
             mode = "repeat" => Repeated(i)
      PROVE  \A j \in Ids : waiting[j]["repeat"]' > 0 \/ cancelled[j]["repeat"]' > 0
                              => Repeated(j)
  BY <1>1 DEF StartTimer, StartsTimer, RepetitionIsOwn, TypeOK, Modes
<1>2. CASE RemoveTimer(i)
  BY <1>2 DEF RemoveTimer, RepetitionIsOwn, TypeOK, Modes
<1>3. CASE UNCHANGED <<waiting, cancelled>>
  BY <1>3 DEF RepetitionIsOwn
<1>4. QED
  BY <1>1, <1>2, <1>3

\* Requests and goroutines of the repeating kind exist only for such ids.
LEMMA RepetitionStep ==
  ASSUME TypeOK, RepetitionIsOwn, [Next]_vars
  PROVE  RepetitionIsOwn'
<1> DEFINE RequestsAreOwn == \A j \in Ids :
             inflight["again"][j] > 0 \/ inflight["executeRepeat"][j] > 0
               => Repeated(j)
           GoroutinesAreOwn == \A j \in Ids :
             waiting[j]["repeat"] > 0 \/ cancelled[j]["repeat"] > 0 => Repeated(j)
<1>0. RequestsAreOwn /\ GoroutinesAreOwn
  BY DEF RepetitionIsOwn
<1>1. ASSUME NEW c \in Calls, HandleAdd(c)
      PROVE  RequestsAreOwn' /\ GoroutinesAreOwn'
  <2>1. /\ IdOf[c] \in Ids /\ c \in Handlers /\ Mode(c) \in Modes
        /\ Mode(c) = "repeat" => Repeated(IdOf[c])
    BY TimerAssumption DEF Mode, Modes, Handlers, Repeated
  <2>2. StartTimer(IdOf[c], c, Mode(c)) /\ UNCHANGED <<cancelled, inflight>>
    BY <1>1 DEF HandleAdd, Adds
  <2>3. GoroutinesAreOwn'
    BY <2>1, <2>2, GoroutineStep DEF Repeated
  <2>4. QED
    BY <1>0, <2>2, <2>3 DEF Repeated
<1>2. ASSUME NEW i \in Ids, HandleAgain(i)
      PROVE  RequestsAreOwn' /\ GoroutinesAreOwn'
  <2>1. "nil" \in Handlers /\ "repeat" \in Modes /\ Repeated(i)
    BY <1>0, <1>2 DEF HandleAgain, Receive, Handlers, Modes
  <2>2. GoroutinesAreOwn'
    BY <1>2, <2>1, GoroutineStep DEF HandleAgain, Repeated
  <2>3. RequestsAreOwn'
    BY <1>0, <1>2 DEF HandleAgain, Receive, Without, TypeOK, Kinds, Repeated
  <2>4. QED
    BY <2>2, <2>3
<1>3. ASSUME NEW i \in Ids, HandleResume(i)
      PROVE  RequestsAreOwn' /\ GoroutinesAreOwn'
  <2>1. \/ StartTimer(i, pauseTimerEvent[i], "once") /\ UNCHANGED cancelled
        \/ UNCHANGED <<waiting, cancelled>>
    BY <1>3 DEF HandleResume
  <2>2. pauseTimerEvent[i] \in Handlers /\ "once" \in Modes
    BY DEF TypeOK, Modes
  <2>3. GoroutinesAreOwn'
    BY <2>1, <2>2, GoroutineStep DEF Repeated
  <2>4. RequestsAreOwn'
    BY <1>0, <1>3 DEF HandleResume, Receive, Without, TypeOK, Kinds, Repeated
  <2>5. QED
    BY <2>3, <2>4
<1>4. ASSUME NEW i \in Ids, HandlePause(i) \/ HandleDelete(i)
      PROVE  RequestsAreOwn' /\ GoroutinesAreOwn'
  <2>1. RemoveTimer(i)
    BY <1>4 DEF HandlePause, HandleDelete, Deletes
  <2>2. GoroutinesAreOwn'
    BY <2>1, GoroutineStep DEF Repeated
  <2>3. \E kind \in {"pause", "delete"} : Receive(kind, i)
    BY <1>4 DEF HandlePause, HandleDelete, Deletes, Pauses
  <2>4. RequestsAreOwn'
    BY <1>0, <2>3 DEF Receive, Without, TypeOK, Kinds, Repeated
  <2>5. QED
    BY <2>2, <2>4
<1>5. ASSUME NEW i \in Ids, NEW mode \in Modes, HandleExecute(i, mode)
      PROVE  RequestsAreOwn' /\ GoroutinesAreOwn'
  <2>1. /\ inflight[Execute(mode)][i] > 0
        /\ \/ inflight' = Without(Execute(mode), i)
           \/ /\ mode = "repeat"
              /\ inflight' = [Without("executeRepeat", i) EXCEPT !["again"][i] = @ + 1]
    BY <1>5 DEF HandleExecute, Executes, Execute
  <2>2. RequestsAreOwn'
    <3>1. CASE inflight' = Without(Execute(mode), i)
      BY <1>0, <2>1, <3>1 DEF Execute, Without, TypeOK, Kinds, Repeated
    <3>2. CASE /\ mode = "repeat"
               /\ inflight' = [Without("executeRepeat", i) EXCEPT !["again"][i] = @ + 1]
      <4>1. Repeated(i)
        BY <1>0, <2>1, <3>2 DEF Execute
      <4>2. \A j \in Ids \ {i} :
              /\ inflight["again"][j]' = inflight["again"][j]
              /\ inflight["executeRepeat"][j]' = inflight["executeRepeat"][j]
        BY <3>2 DEF Without, TypeOK, Kinds
      <4>3. QED
        BY <1>0, <4>1, <4>2 DEF Repeated
    <3>3. QED
      BY <2>1, <3>1, <3>2
  <2>3. RemoveTimer(i) \/ UNCHANGED <<waiting, cancelled>>
    BY <1>5 DEF HandleExecute, Executes
  <2>4. GoroutinesAreOwn'
    BY <2>3, GoroutineStep DEF Repeated
  <2>5. QED
    BY <2>2, <2>4
<1>6. ASSUME NEW kind \in Kinds, NEW i \in Ids, Request(kind, i)
      PROVE  RequestsAreOwn' /\ GoroutinesAreOwn'
  BY <1>0, <1>6 DEF Request, TypeOK, Kinds, Repeated
<1>7. ASSUME NEW i \in Ids, NEW mode \in Modes, Expire(i, mode)
      PROVE  RequestsAreOwn' /\ GoroutinesAreOwn'
  <2>1. /\ waiting[i][mode] > 0 \/ cancelled[i][mode] > 0
        /\ inflight' = [inflight EXCEPT ![Execute(mode)][i] = @ + 1]
    BY <1>7 DEF Expire
  <2>2. RequestsAreOwn'
    BY <1>0, <2>1 DEF Execute, Modes, TypeOK, Kinds, Repeated
  <2>3. \A j \in Ids : /\ waiting[j]["repeat"]' <= waiting[j]["repeat"]
                       /\ cancelled[j]["repeat"]' <= cancelled[j]["repeat"]
    <3>1. CASE /\ waiting' = [waiting EXCEPT ![i][mode] = @ - 1]
               /\ UNCHANGED cancelled
      BY <3>1 DEF TypeOK, Modes
    <3>2. CASE /\ cancelled' = [cancelled EXCEPT ![i][mode] = @ - 1]
               /\ UNCHANGED waiting
      BY <3>2 DEF TypeOK, Modes
    <3>3. QED
      BY <1>7, <3>1, <3>2 DEF Expire
  <2>4. \A j \in Ids : /\ waiting[j]["repeat"] \in Nat /\ waiting[j]["repeat"]' \in Nat
                       /\ cancelled[j]["repeat"] \in Nat /\ cancelled[j]["repeat"]' \in Nat
    BY TypeStep DEF TypeOK, Modes
  <2>5. GoroutinesAreOwn'
    BY <1>0, <2>3, <2>4 DEF Repeated
  <2>6. QED
    BY <2>2, <2>5
<1>8. ASSUME NEW i \in Ids, NEW mode \in Modes, Quit(i, mode)
      PROVE  RequestsAreOwn' /\ GoroutinesAreOwn'
  BY <1>0, <1>8 DEF Quit, TypeOK, Modes, Repeated
<1>9. ASSUME UNCHANGED <<inflight, waiting, cancelled>>
      PROVE  RequestsAreOwn' /\ GoroutinesAreOwn'
  BY <1>0, <1>9 DEF Repeated
<1>10. RequestsAreOwn' /\ GoroutinesAreOwn'
  BY <1>1, <1>2, <1>3, <1>4, <1>5, <1>6, <1>7, <1>8, <1>9
     DEF Next, MainLoop, AddTimeoutAction, vars
<1>11. QED
  BY <1>10 DEF RepetitionIsOwn, Repeated
(***************************************************************************)
(* The places of a handler, step by step.                                  *)
(***************************************************************************)
LEMMA PlaceOfAdd ==
  ASSUME TypeOK, Inductive, NEW d \in Calls, HandleAdd(d), NEW c \in Calls
  PROVE  PlaceInv(c)'
<1>1. PlaceInv(c)
  BY DEF Inductive
<1>2. /\ d \in adding /\ adding' = adding \ {d}
      /\ timeoutActionMap' = timeoutActionMap
           \/ timeoutActionMap' = [timeoutActionMap EXCEPT ![IdOf[d]] = d]
      /\ UNCHANGED <<uncalled, pauseTimerEvent, ran, dead>>
  BY DEF HandleAdd, Adds, StartTimer, StartsTimer, observed
<1>3. CASE c = d
  BY <1>1, <1>2, <1>3 DEF PlaceInv, Placed, InUncalled, InRequest, InMap, InPaused
<1>4. CASE c # d
  BY <1>1, <1>2, <1>4, TimerAssumption
     DEF PlaceInv, Placed, InUncalled, InRequest, InMap, InPaused, TypeOK
<1>5. QED
  BY <1>3, <1>4

\* A handler that is armed again, or lost, stays in one place or none.
LEMMA PlaceOfAgain ==
  ASSUME TypeOK, Inductive, NEW i \in Ids, HandleAgain(i), NEW c \in Calls
  PROVE  PlaceInv(c)'
<1>1. PlaceInv(c)
  BY DEF Inductive
<1>2. /\ timeoutActionMap' = timeoutActionMap
           \/ timeoutActionMap' = [timeoutActionMap EXCEPT ![i] = "nil"]
      /\ UNCHANGED <<uncalled, adding, pauseTimerEvent, ran, dead>>
  BY DEF HandleAgain, StartTimer, StartsTimer, observed
<1>3. QED
  BY <1>1, <1>2, TimerAssumption
     DEF PlaceInv, Placed, InUncalled, InRequest, InMap, InPaused, TypeOK

\* A handler that is resumed moves from the paused ones to the timers.
LEMMA PlaceOfResume ==
  ASSUME TypeOK, Inductive, NEW i \in Ids, HandleResume(i), NEW c \in Calls
  PROVE  PlaceInv(c)'
<1>1. PlaceInv(c)
  BY DEF Inductive
<1>2. /\ pauseTimerEvent' = [pauseTimerEvent EXCEPT ![i] = "absent"]
      /\ timeoutActionMap' = timeoutActionMap
           \/ timeoutActionMap' = [timeoutActionMap EXCEPT ![i] = pauseTimerEvent[i]]
      /\ UNCHANGED <<uncalled, adding, ran, dead>>
  BY DEF HandleResume, StartTimer, StartsTimer, observed
<1>3. CASE IdOf[c] = i
  BY <1>1, <1>2, <1>3, TimerAssumption
     DEF PlaceInv, Placed, InUncalled, InRequest, InMap, InPaused, TypeOK
<1>4. CASE IdOf[c] # i
  BY <1>1, <1>2, <1>4, TimerAssumption
     DEF PlaceInv, Placed, InUncalled, InRequest, InMap, InPaused, TypeOK
<1>5. QED
  BY <1>3, <1>4

\* A handler that is paused moves from the timers to the paused ones.
LEMMA PlaceOfPause ==
  ASSUME TypeOK, Inductive, NEW i \in Ids, HandlePause(i), NEW c \in Calls
  PROVE  PlaceInv(c)'
<1>1. PlaceInv(c)
  BY DEF Inductive
<1>2. /\ pauseTimerEvent' = pauseTimerEvent
           \/ pauseTimerEvent' = [pauseTimerEvent EXCEPT ![i] = timeoutActionMap[i]]
      /\ timeoutActionMap' = [timeoutActionMap EXCEPT ![i] = "absent"]
      /\ UNCHANGED <<uncalled, adding, ran, dead>>
  BY DEF HandlePause, Pauses, RemoveTimer, observed
<1>3. CASE IdOf[c] = i
  BY <1>1, <1>2, <1>3, TimerAssumption
     DEF PlaceInv, Placed, InUncalled, InRequest, InMap, InPaused, TypeOK
<1>4. CASE IdOf[c] # i
  BY <1>1, <1>2, <1>4, TimerAssumption
     DEF PlaceInv, Placed, InUncalled, InRequest, InMap, InPaused, TypeOK
<1>5. QED
  BY <1>3, <1>4

\* What a delete declares dead it has taken out of both maps.
LEMMA PlaceOfDelete ==
  ASSUME TypeOK, Inductive, NEW i \in Ids, HandleDelete(i), NEW c \in Calls
  PROVE  PlaceInv(c)'
<1>1. PlaceInv(c)
  BY DEF Inductive
<1>2. /\ pauseTimerEvent' = [pauseTimerEvent EXCEPT ![i] = "absent"]
      /\ timeoutActionMap' = [timeoutActionMap EXCEPT ![i] = "absent"]
      /\ dead' = dead \cup ({timeoutActionMap[i], pauseTimerEvent[i]} \cap Calls)
      /\ UNCHANGED <<uncalled, adding, ran>>
  BY DEF HandleDelete, Deletes, RemoveTimer
<1>3. CASE IdOf[c] = i
  BY <1>1, <1>2, <1>3, TimerAssumption
     DEF PlaceInv, Placed, InUncalled, InRequest, InMap, InPaused, TypeOK
<1>4. CASE IdOf[c] # i
  <2>1. c \in dead' => c \in dead
    BY <1>2, <1>4 DEF Inductive, OwnId
  <2>2. QED
    BY <1>1, <1>2, <1>4, <2>1, TimerAssumption
       DEF PlaceInv, Placed, InUncalled, InRequest, InMap, InPaused, TypeOK
<1>5. QED
  BY <1>3, <1>4

\* Only a repeating handler stays in the map after it has completed.
LEMMA PlaceOfExecute ==
  ASSUME TypeOK, Inductive, NEW i \in Ids, NEW mode \in Modes,
         HandleExecute(i, mode), NEW c \in Calls
  PROVE  PlaceInv(c)'
<1>1. PlaceInv(c)
  BY DEF Inductive
<1>2. UNCHANGED <<uncalled, adding, pauseTimerEvent, dead>>
  BY DEF HandleExecute, Executes
<1>3. \/ timeoutActionMap' = [timeoutActionMap EXCEPT ![i] = "absent"]
      \/ timeoutActionMap' = timeoutActionMap
  BY DEF HandleExecute, Executes, RemoveTimer
<1>4. \/ ran'[c] = ran[c]
      \/ /\ timeoutActionMap[i] = c /\ ran'[c] = ran[c] + 1
         /\ \/ timeoutActionMap' = [timeoutActionMap EXCEPT ![i] = "absent"]
            \/ mode = "repeat" /\ inflight[Execute(mode)][i] > 0
  BY DEF HandleExecute, Executes, RemoveTimer
<1>5. CASE ran'[c] = ran[c]
  BY <1>1, <1>2, <1>3, <1>5, TimerAssumption
     DEF PlaceInv, Placed, InUncalled, InRequest, InMap, InPaused, TypeOK
<1>6. CASE /\ timeoutActionMap[i] = c /\ ran'[c] = ran[c] + 1
           /\ \/ timeoutActionMap' = [timeoutActionMap EXCEPT ![i] = "absent"]
              \/ mode = "repeat" /\ inflight[Execute(mode)][i] > 0
  <2>1. IdOf[c] = i
    BY <1>6 DEF Inductive, OwnId
  <2>2. CASE timeoutActionMap' = [timeoutActionMap EXCEPT ![i] = "absent"]
    <3>1. OneShot(c) => ran[c] = 0
      BY <1>1, <1>6, <2>1 DEF PlaceInv, Placed, InMap, TypeOK
    <3>2. QED
      BY <1>1, <1>2, <1>6, <2>1, <2>2, <3>1, TimerAssumption
         DEF PlaceInv, Placed, InUncalled, InRequest, InMap, InPaused, TypeOK
  <2>3. CASE mode = "repeat" /\ inflight[Execute(mode)][i] > 0
    <3>1. Repeated(i)
      BY <2>3 DEF Inductive, RepetitionIsOwn, Execute
    <3>2. ~OneShot(c)
      BY <2>1, <3>1 DEF OneShot
    <3>3. QED
      BY <1>1, <1>2, <1>3, <1>6, <2>1, <3>2, TimerAssumption
         DEF PlaceInv, Placed, InUncalled, InRequest, InMap, InPaused, TypeOK
  <2>4. QED
    BY <1>6, <2>2, <2>3
<1>7. QED
  BY <1>4, <1>5, <1>6

\* Every step keeps the invariant.
LEMMA InductiveStep ==
  ASSUME TypeOK, Inductive, [Next]_vars
  PROVE  Inductive'
<1>1. OwnId' /\ RepetitionIsOwn'
  BY OwnIdStep, RepetitionStep DEF Inductive
<1>2. ASSUME NEW c \in Calls PROVE PlaceInv(c)'
  <2>1. PlaceInv(c)
    BY DEF Inductive
  <2>2. ASSUME NEW d \in Calls, AddTimeoutAction(d) PROVE PlaceInv(c)'
    BY <2>1, <2>2 DEF AddTimeoutAction, observed, PlaceInv, Placed, InUncalled,
                      InRequest, InMap, InPaused
  <2>3. CASE UNCHANGED <<uncalled, adding, timeoutActionMap, pauseTimerEvent, ran, dead>>
    BY <2>1, <2>3 DEF PlaceInv, Placed, InUncalled, InRequest, InMap, InPaused
  <2>4. ASSUME MainLoop PROVE PlaceInv(c)'
    BY <2>4, PlaceOfAdd, PlaceOfAgain, PlaceOfResume, PlaceOfPause, PlaceOfDelete,
       PlaceOfExecute DEF MainLoop
  <2>5. QED
    BY <2>2, <2>3, <2>4 DEF Next, Request, Expire, Quit, observed, vars
<1>3. QED
  BY <1>1, <1>2 DEF Inductive

\* The types and the invariant hold in every reachable state.
LEMMA AlwaysInductive == Spec => [](TypeOK /\ Inductive)
<1>1. TypeOK /\ Inductive /\ [Next]_vars => (TypeOK /\ Inductive)'
  BY TypeStep, InductiveStep
<1>2. QED
  BY TypeInit, InductiveInit, <1>1, PTL DEF Spec

(***************************************************************************)
(* The theorems.                                                           *)
(***************************************************************************)

\* A one-shot timer whose id no repeating call has completes its handler at most
\* once, however many requests and expiries of it are in flight.
THEOREM RunsOnceCorrect == Spec => []RunsOnce
<1>1. Inductive => RunsOnce
  BY DEF Inductive, PlaceInv, RunsOnce
<1>2. QED
  BY AlwaysInductive, <1>1, PTL

\* The invariant implies the property.
LEMMA OnePlaceEverywhere == TypeOK /\ Inductive => OnePlace
<1> SUFFICES ASSUME TypeOK, Inductive, NEW c \in Calls
             PROVE  /\ \A p, q \in Places(c) : p = q
                    /\ OneShot(c) /\ ran[c] > 0 => Places(c) = {}
  BY DEF OnePlace
<1>1. PlaceInv(c)
  BY DEF Inductive
<1>2. QED
  BY <1>1 DEF PlaceInv, Placed, InUncalled, InRequest, InMap, InPaused, Places

\* The handler of a call is in at most one of the request to add it, the timer
\* map and the paused timers, and a completed one-shot is in none.
THEOREM OnePlaceCorrect == Spec => []OnePlace
BY AlwaysInductive, OnePlaceEverywhere, PTL

\* A timer that MainLoop has deleted can never run again.
THEOREM DeletedIsForgottenCorrect == Spec => []DeletedIsForgotten
<1>1. TypeOK /\ Inductive => DeletedIsForgotten
  <2> SUFFICES ASSUME Inductive, NEW c \in Calls, c \in dead
               PROVE  Places(c) = {}
    BY DEF DeletedIsForgotten, TypeOK
  <2>1. PlaceInv(c)
    BY DEF Inductive
  <2>2. QED
    BY <2>1 DEF PlaceInv, Placed, InUncalled, InRequest, InMap, InPaused, Places
<1>2. QED
  BY AlwaysInductive, <1>1, PTL
=============================================================================
