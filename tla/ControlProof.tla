---------------------------- MODULE ControlProof ----------------------------
(***************************************************************************)
(* Proofs about the configuration and the commands (Control).              *)
(***************************************************************************)
EXTENDS Control, FiniteSetTheorems, TLAPS

(***************************************************************************)
(* Type correctness.  What is written to a file has been read somewhere,   *)
(* so it is never an allocated message.                                    *)
(***************************************************************************)
TextRead ==
  load \in {"parse", "post", "switch", "set", "hook", "save", "write"} => text # Blank
Typed == TypeOK /\ TextRead

\* The first states.
LEMMA TypedInit == Init => Typed
<1> USE CfgAssumption, ControlAssumption
<1> SUFFICES ASSUME Init PROVE Typed
  OBVIOUS
<1>1. /\ file \in [Names -> Versions \union {Torn}] /\ data \in [Names -> [0..1 -> Texts]]
      /\ currIdx \in [Names -> 0..1] /\ md5 \in [Names -> Texts]
  BY DEF Init, CfgInit, Texts
<1>2. name \in Names /\ text \in Texts /\ notice = 0
  BY DEF Init, CfgInit, Texts
<1>3. load = "next" /\ todo = Names /\ failed = {} /\ loaded = FALSE
  BY DEF Init, CfgInit
<1>4. loaded \in BOOLEAN /\ gotNewCfg \in BOOLEAN
  BY DEF Init, CfgInit
<1>5. responses \in Seq(Responses) /\ saving \in SUBSET Responses
  BY DEF Init
<1>6. published \in [Synced -> 0..Last] /\ cfgMD5 \in [Synced -> 0..Last]
      /\ late \in 0..MaxLate /\ reloadChan \in 0..1
  BY DEF Init
<1>7. waiting = {} /\ sync = "pull" /\ toPull = Synced /\ gotNewCfg = FALSE /\ unsaved = {}
  BY DEF Init
<1>8. CfgTypeOK /\ TextRead
  BY <1>1, <1>2, <1>3, <1>4 DEF CfgTypeOK, TextRead
<1>9. TypeOK
  BY <1>5, <1>6, <1>7, <1>8, <1>4 DEF TypeOK
<1> QED
  BY <1>8, <1>9 DEF Typed

\* The steps of a load keep the types.
LEMMA TypedLoad == CfgTypeOK /\ TextRead /\ LoadStep => CfgTypeOK' /\ TextRead'
<1> USE CfgAssumption DEF CfgTypeOK, TextRead, Texts, NextIdx, LetGo, Keep, managerVars, loadVars
<1> SUFFICES ASSUME CfgTypeOK, TextRead, LoadStep PROVE CfgTypeOK' /\ TextRead'
  OBVIOUS
<1>1. ASSUME NEW c \in Names, LoadReads(c) PROVE CfgTypeOK' /\ TextRead'
  BY <1>1 DEF LoadReads
<1>2. CASE LoadParses
  BY <1>2 DEF LoadParses, Parses
<1>3. CASE LoadPosts
  BY <1>3 DEF LoadPosts, Post
<1>4. CASE LoadSwitches
  BY <1>4 DEF LoadSwitches, SwitchBuffer
<1>5. CASE LoadEnds
  BY <1>5 DEF LoadEnds
<1> QED
  BY <1>1, <1>2, <1>3, <1>4, <1>5 DEF LoadStep

\* The steps of ReloadAndSave keep the types.
LEMMA TypedSet == CfgTypeOK /\ TextRead /\ SetStep => CfgTypeOK' /\ TextRead'
<1> USE CfgAssumption DEF CfgTypeOK, TextRead, Texts, NextIdx, LetGo, Keep, managerVars, loadVars
<1> SUFFICES ASSUME CfgTypeOK, TextRead, SetStep PROVE CfgTypeOK' /\ TextRead'
  OBVIOUS
<1>1. CASE SetParses
  BY <1>1 DEF SetParses
<1>2. CASE SetPosts
  BY <1>2 DEF SetPosts, Post
<1>3. CASE SetSaves
  BY <1>3 DEF SetSaves
<1>4. CASE SetWrites
  BY <1>4 DEF SetWrites, SwitchBuffer
<1> QED
  BY <1>1, <1>2, <1>3, <1>4 DEF SetStep

\* So do those of the main loop and the handlers around them.
LEMMA TypedLoop == Typed /\ (MainLoop \/ Quit \/ HandlersMeet \/ Client) => Typed'
<1> USE CfgAssumption, ControlAssumption DEF Typed, managerVars, loadVars, syncVars
<1> SUFFICES ASSUME Typed, MainLoop \/ Quit \/ HandlersMeet \/ Client PROVE Typed'
  OBVIOUS
<1>1. CASE TakeReload
  BY <1>1 DEF TakeReload, TypeOK, CfgTypeOK, TextRead
<1>2. CASE TakeCommand
  <2>1. PICK m \in Commands : IF m.text = Blank
                              THEN load' = "reply" /\ Keep
                              ELSE load' = "set" /\ name' = m.name /\ text' = m.text
    BY <1>2 DEF TakeCommand, Takes
  <2> QED
    BY <1>2, <2>1 DEF TakeCommand, Takes, TypeOK, CfgTypeOK, TextRead, Texts, Keep
<1>3. CASE Reply \/ Quit
  BY <1>3 DEF Reply, Quit, TypeOK, CfgTypeOK, TextRead
<1>4. CASE Manage
  BY <1>4, TypedLoad, TypedSet DEF Manage, TypeOK
<1>5. CASE HandlersMeet
  BY <1>5 DEF HandlersMeet, cfgVars, TypeOK, CfgTypeOK, TextRead, Texts
<1>6. CASE Client
  BY <1>6 DEF Client, ClientWakes, TypeOK, CfgTypeOK, TextRead, Texts
<1> QED
  BY <1>1, <1>2, <1>3, <1>4, <1>5, <1>6 DEF MainLoop

\* And those of syncJob, of the centre and of a signal.
LEMMA TypedSync ==
  ASSUME Typed, Hangup \/ SyncJob \/ TimesOut \/ \E c \in Synced : Publish(c)
  PROVE  Typed'
<1> USE CfgAssumption, ControlAssumption
    DEF Typed, TypeOK, CfgTypeOK, TextRead, Texts, SyncOnly, cfgVars, managerVars, loadVars, syncVars
<1>1. CASE Hangup
  BY <1>1 DEF Hangup
<1>2. ASSUME NEW c \in Synced, Publish(c) PROVE Typed'
  BY <1>2 DEF Publish
<1>3. ASSUME NEW c \in Synced, Pull(c) PROVE Typed'
  <2>1. [name |-> c, text |-> published[c], need |-> published[c] # cfgMD5[c]] \in Responses
    BY DEF Responses
  <2> QED
    BY <1>3, <2>1 DEF Pull
<1>4. CASE Receive
  <2>1. PICK r \in Responses : r = Head(responses)
    BY <1>4 DEF Receive
  <2>2. r.name \in Synced /\ r.text \in 0..Last
    BY DEF Responses
  <2>3. responses' \in Seq(Responses)
    BY <1>4 DEF Receive
  <2>4. CASE ~r.need
    BY <1>4, <2>1, <2>3, <2>4 DEF Receive
  <2>5. CASE r.need
    <3>1. /\ cfgMD5' = [cfgMD5 EXCEPT ![r.name] = r.text]
          /\ gotNewCfg' \in BOOLEAN
      BY <1>4, <2>1, <2>5 DEF Receive
    <3>2. \/ /\ file' = [file EXCEPT ![r.name] = Torn]
             /\ saving' = {r} /\ sync' = "write"
             /\ UNCHANGED <<late, unsaved>>
          \/ /\ late < MaxLate /\ late' = late + 1
             /\ unsaved' = unsaved \union {r.name}
             /\ sync' = "pull"
             /\ UNCHANGED <<file, saving>>
      BY <1>4, <2>1, <2>5 DEF Receive
    <3>3. late' \in 0..MaxLate /\ unsaved' \subseteq Synced /\ sync' \in {"pull", "write"}
      BY <2>2, <3>2
    <3>4. file' \in [Names -> Versions \union {Torn}] /\ saving' \in SUBSET Responses
      BY <2>2, <3>2
    <3>5. cfgMD5' \in [Synced -> 0..Last]
      BY <2>2, <3>1
    <3>6. sync = "receive" /\ SyncOnly /\ UNCHANGED <<reloadChan, toPull>>
      BY <1>4 DEF Receive
    <3> QED
      BY <2>3, <3>1, <3>6, <3>3, <3>4, <3>5
  <2> QED
    BY <2>4, <2>5
<1>5. CASE Write
  <2>1. PICK r \in Responses : file' = [file EXCEPT ![r.name] = r.text]
    BY <1>5 DEF Write
  <2>2. r.name \in Synced /\ r.text \in Versions
    BY DEF Responses
  <2> QED
    BY <1>5, <2>1, <2>2 DEF Write
<1>6. CASE TimesOut
  <2>1. responses' \in Seq(Responses)
    <3>1. responses' = responses \/ responses' = <<>>
      BY <1>6 DEF TimesOut
    <3>2. <<>> \in Seq(Responses)
      OBVIOUS
    <3> QED
      BY <3>1, <3>2
  <2>2. late' \in 0..MaxLate
    BY <1>6 DEF TimesOut
  <2>3. /\ toPull' = {} /\ sync' = "pull" /\ SyncOnly
        /\ UNCHANGED <<file, reloadChan, cfgMD5, saving, gotNewCfg, unsaved>>
    BY <1>6 DEF TimesOut
  <2> QED
    BY <2>1, <2>2, <2>3
<1>7. CASE RoundEnds
  <2>1. reloadChan' \in 0..1
    BY <1>7 DEF RoundEnds, Ends
  <2>2. gotNewCfg' \in BOOLEAN
    BY <1>7 DEF RoundEnds, Ends
  <2>3. /\ sync = "pull" /\ toPull' = Synced /\ SyncOnly
        /\ UNCHANGED <<file, sync, cfgMD5, responses, saving, late, unsaved>>
    BY <1>7 DEF RoundEnds, Ends
  <2> QED
    BY <2>1, <2>2, <2>3
<1> QED
  BY <1>1, <1>2, <1>3, <1>4, <1>5, <1>6, <1>7 DEF SyncJob

\* Every reachable state is well typed (CfgMng.tla and Control.tla).
THEOREM TypeCorrect == Spec => []Typed
<1>1. Typed /\ [Next]_vars => Typed'
  <2> SUFFICES ASSUME Typed, [Next]_vars PROVE Typed'
    OBVIOUS
  <2>1. CASE Next
    BY <2>1, TypedLoop, TypedSync DEF Next
  <2>2. CASE UNCHANGED vars
    BY <2>2 DEF vars, cfgVars, managerVars, loadVars, syncVars, Typed, TypeOK, CfgTypeOK, TextRead, Texts
  <2> QED
    BY <2>1, <2>2
<1> QED
  BY <1>1, TypedInit, PTL DEF Spec

(***************************************************************************)
(* The configuration.  While a load has accepted a text, its checksum and  *)
(* the spare buffer are those of the text; otherwise the checksum is that  *)
(* of the current buffer, unless the last text has failed.                 *)
(***************************************************************************)
InFlight == load \in {"post", "switch", "hook", "save", "write"}
Pending == InFlight => md5[name] = text /\ data[name][NextIdx(name)] = text
Signed ==
  \A c \in Names \ failed : ~(InFlight /\ c = name) => md5[c] = Current(c)

\* The steps of a load keep the checksums.
LEMMA SignedLoad ==
  ASSUME CfgTypeOK, Pending, Signed, LoadStep
  PROVE  Pending' /\ Signed'
<1> USE DEF CfgTypeOK, Pending, Signed, InFlight, Current, NextIdx, LetGo, Keep, managerVars, loadVars
<1>1. ASSUME NEW c \in Names, LoadReads(c) PROVE Pending' /\ Signed'
  BY <1>1 DEF LoadReads
<1>2. CASE LoadParses
  <2>1. data' = [data EXCEPT ![name][1 - currIdx[name]] = text]
    BY <1>2 DEF LoadParses, Parses
  <2>2. UNCHANGED currIdx /\ load = "parse"
    BY <1>2 DEF LoadParses, Parses
  <2>3. \A c \in Names : Current(c)' = Current(c)
    BY <2>1, <2>2
  <2>4. CASE load' \in {"select", "exit", "next"} /\ md5' = md5 /\ failed' = failed
    BY <2>2, <2>3, <2>4
  <2>5. CASE /\ load' = "post" /\ name' = name /\ text' = text
             /\ md5' = [md5 EXCEPT ![name] = text] /\ failed' = failed \ {name}
    BY <2>1, <2>2, <2>3, <2>5
  <2> QED
    BY <1>2, <2>4, <2>5 DEF LoadParses, Parses
<1>3. CASE LoadPosts
  BY <1>3 DEF LoadPosts, Post
<1>4. CASE LoadSwitches
  BY <1>4 DEF LoadSwitches, SwitchBuffer
<1>5. CASE LoadEnds
  BY <1>5 DEF LoadEnds
<1> QED
  BY <1>1, <1>2, <1>3, <1>4, <1>5 DEF LoadStep

\* So do those of ReloadAndSave.
LEMMA SignedSet ==
  ASSUME CfgTypeOK, Pending, Signed, SetStep
  PROVE  Pending' /\ Signed'
<1> USE DEF CfgTypeOK, Pending, Signed, InFlight, Current, NextIdx, LetGo, Keep, managerVars, loadVars
<1>1. CASE SetParses
  <2>1. data' = [data EXCEPT ![name][1 - currIdx[name]] = text]
    BY <1>1 DEF SetParses
  <2>2. UNCHANGED currIdx /\ load = "set"
    BY <1>1 DEF SetParses
  <2>3. \A c \in Names : Current(c)' = Current(c)
    BY <2>1, <2>2
  <2>4. CASE load' = "reply" /\ md5' = md5 /\ failed' = failed
    BY <2>2, <2>3, <2>4
  <2>5. CASE /\ load' = "hook" /\ name' = name /\ text' = text
             /\ md5' = [md5 EXCEPT ![name] = text] /\ failed' = failed \ {name}
    BY <2>1, <2>2, <2>3, <2>5
  <2> QED
    BY <1>1, <2>4, <2>5 DEF SetParses
<1>2. CASE SetPosts
  BY <1>2 DEF SetPosts, Post
<1>3. CASE SetSaves
  BY <1>3 DEF SetSaves
<1>4. CASE SetWrites
  BY <1>4 DEF SetWrites, SwitchBuffer
<1> QED
  BY <1>1, <1>2, <1>3, <1>4 DEF SetStep

Outside == UNCHANGED <<load, name, text>> \/ (~InFlight /\ ~InFlight')

\* Whatever else happens changes no buffer and no checksum.
LEMMA OthersKeepBuffers ==
  ASSUME [Next]_vars
  PROVE  \/ Manage
         \/ UNCHANGED managerVars /\ Outside
<1> USE DEF managerVars, InFlight, Outside
<1>1. CASE TakeReload \/ Reply \/ Quit
  BY <1>1 DEF TakeReload, Reply, Quit
<1>2. CASE TakeCommand
  <2>1. UNCHANGED managerVars /\ load = "select"
    BY <1>2 DEF TakeCommand, Takes
  <2>2. load' \in {"reply", "set"}
    BY <1>2 DEF TakeCommand, Takes
  <2> QED
    BY <2>1, <2>2
<1>3. CASE HandlersMeet \/ Hangup
  BY <1>3 DEF HandlersMeet, Hangup, cfgVars, loadVars
<1>4. CASE Client
  BY <1>4 DEF Client, ClientWakes, loadVars
<1>5. ASSUME NEW c \in Synced, Pull(c) \/ Publish(c)
      PROVE  UNCHANGED managerVars /\ UNCHANGED loadVars
  BY <1>5 DEF Pull, Publish, SyncOnly, cfgVars
<1>6. CASE Receive \/ Write
  BY <1>6 DEF Receive, Write, SyncOnly, loadVars
<1>7. CASE RoundEnds \/ TimesOut
  BY <1>7 DEF RoundEnds, Ends, TimesOut, SyncOnly, loadVars
<1>8. CASE UNCHANGED vars
  BY <1>8 DEF vars, cfgVars, loadVars
<1>9. CASE \E c \in Synced : Pull(c) \/ Publish(c)
  BY <1>5, <1>9 DEF loadVars
<1> QED
  BY <1>1, <1>2, <1>3, <1>4, <1>6, <1>7, <1>8, <1>9 DEF Next, MainLoop, SyncJob

\* After every step the checksums are right (cfg.go 267-275, 330-337).
THEOREM SignedCorrect == Spec => [](Pending /\ Signed)
<1>1. Init => Pending /\ Signed
  BY CfgAssumption DEF Init, CfgInit, Pending, Signed, InFlight, Current
<1>2. Typed /\ Pending /\ Signed /\ [Next]_vars => (Pending /\ Signed)'
  <2> SUFFICES ASSUME Typed, Pending, Signed, [Next]_vars PROVE Pending' /\ Signed'
    OBVIOUS
  <2>1. CASE Manage
    BY <2>1, SignedLoad, SignedSet DEF Manage, Typed, TypeOK
  <2>2. CASE UNCHANGED managerVars /\ Outside
    BY <2>2 DEF Outside, managerVars, Pending, Signed, InFlight, Current, NextIdx
  <2> QED
    BY <2>1, <2>2, OthersKeepBuffers
<1> QED
  BY <1>1, <1>2, TypeCorrect, PTL DEF Spec

\* Between loads, the recorded checksum is that of the current buffer, unless the
\* last new text was refused or not saved (cfg.go 330).
THEOREM ChecksumCorrect == Spec => []ChecksumOfCurrent
<1>1. Signed => ChecksumOfCurrent
  BY DEF Signed, InFlight, ChecksumOfCurrent
<1> QED
  BY <1>1, SignedCorrect, PTL

\* What Get returns changes only when the buffers are exchanged (cfg.go 163, 353).
THEOREM StableCorrect == Spec => StableUntilSwitch
<1> DEFINE Stable == \A c \in Names : currIdx'[c] = currIdx[c] => Current(c)' = Current(c)
<1>1. Typed /\ [Next]_vars => [Stable]_cfgVars
  <2> SUFFICES ASSUME Typed, [Next]_vars PROVE Stable
    OBVIOUS
  <2> USE DEF Typed, TypeOK, CfgTypeOK, Current, NextIdx
  <2>1. CASE UNCHANGED data
    BY <2>1
  <2>2. CASE LoadParses \/ SetParses
    <3>1. data' = [data EXCEPT ![name][1 - currIdx[name]] = text] /\ UNCHANGED currIdx
      BY <2>2 DEF LoadParses, Parses, SetParses
    <3> QED
      BY <3>1, SMTT(30)
  <2>3. CASE Manage
    BY <2>1, <2>2, <2>3 DEF Manage, LoadStep, LoadReads, LoadPosts, LoadSwitches, LoadEnds,
       SetStep, SetPosts, SetSaves, SetWrites, managerVars
  <2> QED
    BY <2>1, <2>3, OthersKeepBuffers DEF managerVars
<1> QED
  BY <1>1, TypeCorrect, PTL DEF Spec, StableUntilSwitch

(***************************************************************************)
(* Commands.                                                               *)
(***************************************************************************)
OneServed ==
  /\ Serving => \E h \in Handlers : waiting = {h}
  /\ ~Serving => waiting = {}

\* A handler that waits may change, their number does not (process.go 240-243).
THEOREM ServedCorrect == Spec => []OneServed
<1> USE DEF OneServed, Serving
<1>1. Init => OneServed
  BY DEF Init, CfgInit
<1>2. OneServed /\ [Next]_vars => OneServed'
  <2> SUFFICES ASSUME OneServed, [Next]_vars PROVE OneServed'
    OBVIOUS
  <2>1. CASE TakeReload \/ Quit
    BY <2>1 DEF TakeReload, Quit
  <2>2. CASE TakeCommand
    <3>1. PICK h \in Handlers : waiting' = waiting \union {h}
      BY <2>2 DEF TakeCommand, Takes
    <3>2. load = "select"
      BY <2>2 DEF TakeCommand, Takes
    <3>3. load' \in {"reply", "set"}
      BY <2>2 DEF TakeCommand, Takes
    <3> QED
      BY <3>1, <3>2, <3>3
  <2>3. CASE Reply
    BY <2>3 DEF Reply
  <2>4. CASE Manage /\ LoadStep
    BY <2>4 DEF Manage, LoadStep, LoadReads, LoadParses, Parses, LoadPosts, Post, LoadSwitches, LoadEnds
  <2>5. CASE Manage /\ SetStep
    BY <2>5 DEF Manage, SetStep, SetParses, SetPosts, Post, SetSaves, SetWrites
  <2>6. CASE HandlersMeet
    <3>1. UNCHANGED load
      BY <2>6 DEF HandlersMeet, cfgVars, loadVars
    <3> QED
      BY <2>6, <3>1 DEF HandlersMeet
  <2>7. CASE Hangup \/ Client
    BY <2>7 DEF Hangup, Client, ClientWakes, cfgVars, loadVars
  <2>8. CASE SyncJob \/ TimesOut \/ \E c \in Synced : Publish(c)
    BY <2>8 DEF SyncJob, Pull, Receive, Write, RoundEnds, Ends, TimesOut, Publish, SyncOnly,
                cfgVars, loadVars
  <2>9. CASE UNCHANGED vars
    BY <2>9 DEF vars, cfgVars, loadVars
  <2> QED
    BY <2>1, <2>2, <2>3, <2>4, <2>5, <2>6, <2>7, <2>8, <2>9 DEF Next, MainLoop, Manage
<1> QED
  BY <1>1, <1>2, PTL DEF Spec

\* The main loop always finds one handler that takes its answer (service.go 614).
THEOREM OneWaitsCorrect == Spec => []OneWaits
<1>1. OneServed => OneWaits
  BY FS_EmptySet, FS_Singleton DEF OneServed, OneWaits
<1> QED
  BY <1>1, ServedCorrect, PTL
=============================================================================
