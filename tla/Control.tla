------------------------------ MODULE Control ------------------------------
(***************************************************************************)
(* The control plane of a service: the main loop (MainLoop of              *)
(* framework/base/service.go) reloads the configuration and serves HTTP    *)
(* commands; signals and the synchronisation with the configuration centre *)
(* (component/net/cfgsync/cfgsync.go) ask it to reload; the handlers of    *)
(* HTTP requests (component/process/process.go) pass it commands through   *)
(* HttpChan and get its answer through the same, unbuffered channel.       *)
(***************************************************************************)
EXTENDS CfgMng, Sequences, FiniteSets

CONSTANTS
  Handlers, \* goroutines of HTTP requests
  Commands, \* what they ask for: a record of a name and a text
  Synced,   \* configurations of the centre
  Last,     \* the last version the centre publishes
  MaxLate   \* bound on responses that are late, lost, or cannot be saved

ASSUME ControlAssumption ==
  /\ Synced \subseteq Names
  /\ Last \in Nat \ Refused /\ 0..Last \subseteq Versions
  /\ \A m \in Commands : m.name \in Names /\ m.text \in Versions \union {Torn, Blank}
  /\ MaxLate \in Nat

VARIABLES
  reloadChan, \* ReloadChan: holds one signal
  waiting,    \* handlers that wait for an answer; the others may have a command
  published,  \* the version of each configuration at the centre
  cfgMD5,     \* the version whose checksum syncJob has recorded
  sync,       \* where syncJob is
  toPull,     \* configurations that it has still to ask for in this round
  responses,  \* sent by the centre and not yet read
  saving,     \* the response that it is writing to a file
  gotNewCfg,
  late,       \* number of late, lost and unsaved responses
  unsaved     \* configurations of which a response could not be saved

syncVars == <<cfgMD5, sync, toPull, responses, saving, gotNewCfg, late, unsaved>>
vars == <<cfgVars, reloadChan, waiting, published, syncVars>>

Responses == [name : Synced, text : 0..Last, need : BOOLEAN]

TypeOK ==
  /\ CfgTypeOK
  /\ reloadChan \in 0..1
  /\ waiting \subseteq Handlers
  /\ published \in [Synced -> 0..Last]
  /\ cfgMD5 \in [Synced -> 0..Last]
  /\ sync \in {"pull", "receive", "write"}
  /\ toPull \subseteq Synced
  /\ responses \in Seq(Responses)
  /\ saving \in SUBSET Responses
  /\ gotNewCfg \in BOOLEAN
  /\ late \in 0..MaxLate
  /\ unsaved \subseteq Synced

Init ==
  /\ CfgInit
  /\ reloadChan = 0
  /\ waiting = {}
  /\ published = [c \in Synced |-> 0]
  /\ cfgMD5 = [c \in Synced |-> 0]
  /\ sync = "pull" /\ toPull = Synced /\ responses = <<>> /\ saving = {}
  /\ gotNewCfg = FALSE /\ late = 0 /\ unsaved = {}

-----------------------------------------------------------------------------
(* The main loop.                                                          *)

TakeReload ==
  /\ load = "select" /\ reloadChan = 1
  /\ reloadChan' = 0
  /\ load' = "next" /\ todo' = Names
  /\ UNCHANGED <<file, managerVars, name, text, notice, waiting, published, syncVars>>

\* ProcessHttpCmd: only cfg=set changes anything; the other commands carry Blank.
Takes(otherwise) ==
  /\ load = "select"
  /\ \E h \in Handlers \ waiting : waiting' = waiting \union {h}
  /\ \E m \in Commands :
       IF m.text = Blank
       THEN load' = otherwise /\ Keep
       ELSE load' = "set" /\ name' = m.name /\ text' = m.text
  /\ UNCHANGED <<file, managerVars, todo, notice, reloadChan, published, syncVars>>
TakeCommandOnly == Takes("select")                                  \* faulty
TakeCommand == Takes("reply")

\* The loop waits until a handler takes the answer.
Reply ==
  /\ load = "reply"
  /\ \E h \in waiting : waiting' = waiting \ {h}
  /\ load' = "select"
  /\ UNCHANGED <<file, managerVars, todo, name, text, notice, reloadChan, published, syncVars>>

Quit ==
  /\ load = "select"
  /\ load' = "exit"
  /\ UNCHANGED <<file, managerVars, todo, name, text, notice, reloadChan, waiting, published, syncVars>>

\* A panic ends the process, and the handlers with it.
Manage ==
  /\ LoadStep \/ SetStep
  /\ waiting' = IF load' = "exit" THEN {} ELSE waiting
  /\ UNCHANGED <<reloadChan, published, syncVars>>

MainLoop == TakeReload \/ TakeCommand \/ Reply \/ Manage

-----------------------------------------------------------------------------
(* httpCmdHandle.                                                          *)

\* A handler that waits for its answer takes the context of another one, whose
\* command is lost, and returns.
HandlersMeet ==
  /\ \E g \in waiting, h \in Handlers \ waiting : waiting' = (waiting \ {g}) \union {h}
  /\ UNCHANGED <<cfgVars, reloadChan, published, syncVars>>

-----------------------------------------------------------------------------
(* Reload signals: SIGHUP, and syncJob after a round with news.            *)

Hangup ==
  /\ loaded /\ reloadChan = 0
  /\ reloadChan' = 1
  /\ UNCHANGED <<cfgVars, waiting, published, syncVars>>

SyncOnly == UNCHANGED <<managerVars, loadVars, notice, waiting, published>>

Publish(c) ==
  /\ published[c] < Last
  /\ published' = [published EXCEPT ![c] = @ + 1]
  /\ UNCHANGED <<cfgVars, reloadChan, waiting, syncVars>>

\* The request carries the checksum, and the centre answers whether it differs.
Pull(c) ==
  /\ sync = "pull" /\ c \in toPull
  /\ toPull' = toPull \ {c}
  /\ responses' = Append(responses, [name |-> c, text |-> published[c],
                                     need |-> published[c] # cfgMD5[c]])
  /\ sync' = "receive"
  /\ SyncOnly /\ UNCHANGED <<file, reloadChan, cfgMD5, saving, gotNewCfg, late, unsaved>>

\* A response is taken for what it says, whatever was asked.  acceptNewCfg records
\* the checksum before it opens the file, which may fail.
Receive ==
  /\ sync = "receive" /\ responses # <<>>
  /\ responses' = Tail(responses)
  /\ LET r == Head(responses)
     IN  \/ /\ ~r.need
            /\ sync' = "pull"
            /\ UNCHANGED <<file, saving, cfgMD5, gotNewCfg, late, unsaved>>
         \/ /\ r.need
            /\ cfgMD5' = [cfgMD5 EXCEPT ![r.name] = r.text]
            /\ gotNewCfg' = TRUE
            /\ \/ /\ file' = [file EXCEPT ![r.name] = Torn]
                  /\ saving' = {r} /\ sync' = "write"
                  /\ UNCHANGED <<late, unsaved>>
               \/ /\ late < MaxLate /\ late' = late + 1
                  /\ unsaved' = unsaved \union {r.name}
                  /\ sync' = "pull"
                  /\ UNCHANGED <<file, saving>>
  /\ SyncOnly /\ UNCHANGED <<reloadChan, toPull>>

Write ==
  /\ sync = "write"
  /\ \E r \in saving : file' = [file EXCEPT ![r.name] = r.text]
  /\ saving' = {} /\ sync' = "pull"
  /\ SyncOnly /\ UNCHANGED <<reloadChan, cfgMD5, toPull, responses, gotNewCfg, late, unsaved>>

\* No response in time: the round ends.  The response may still come, or is lost
\* with the connection.
TimesOut ==
  /\ sync = "receive" /\ late < MaxLate
  /\ late' = late + 1
  /\ responses' \in {responses, <<>>}
  /\ toPull' = {}
  /\ sync' = "pull"
  /\ SyncOnly /\ UNCHANGED <<file, reloadChan, cfgMD5, saving, gotNewCfg, unsaved>>

\* SignalReload waits until the last signal has been taken.
Ends(signals) ==
  /\ sync = "pull" /\ toPull = {}
  /\ IF signals THEN reloadChan = 0 /\ reloadChan' = 1 ELSE UNCHANGED reloadChan
  /\ toPull' = Synced /\ gotNewCfg' = FALSE
  /\ SyncOnly /\ UNCHANGED <<file, sync, cfgMD5, responses, saving, late, unsaved>>
RoundEndsQuietly == Ends(FALSE)                                     \* faulty
RoundEnds == Ends(gotNewCfg)

SyncJob == (\E c \in Synced : Pull(c)) \/ Receive \/ Write \/ RoundEnds

Client == ClientWakes /\ UNCHANGED <<reloadChan, waiting, published, syncVars>>

\* The process ends with MainLoop.
Next ==
  /\ load # "exit"
  /\ \/ MainLoop \/ Quit \/ HandlersMeet \/ Hangup \/ Client
     \/ SyncJob \/ TimesOut \/ \E c \in Synced : Publish(c)

Spec == Init /\ [][Next]_vars

\* The loops run, and a select does not pass over one of its cases for ever.
Running(A) == load # "exit" /\ A
Fairness == WF_vars(Running(MainLoop)) /\ SF_vars(Running(TakeReload))
            /\ WF_vars(Running(SyncJob)) /\ WF_vars(Running(Client))
FairSpec == Spec /\ Fairness

-----------------------------------------------------------------------------
\* process.go:231: although handlers may take each other's messages, exactly one of
\* them waits while a command is served, and none otherwise: the main loop always
\* finds one that takes its answer.
Serving == load \in {"set", "hook", "save", "write", "reply"}
OneWaits ==
  Cardinality(waiting) = IF Serving THEN 1 ELSE 0

\* cfgsync.go:268: what the centre publishes last becomes current, although files are
\* read while they are written and responses come late, unless it could not be saved.
PublishedBecomesCurrent ==
  \A c \in Synced \intersect Reloadable :
    (published[c] = Last) ~> (Current(c) = Last \/ c \in unsaved \/ load = "exit")
=============================================================================
