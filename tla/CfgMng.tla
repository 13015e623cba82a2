------------------------------- MODULE CfgMng -------------------------------
(***************************************************************************)
(* The configuration manager (component/cfg/cfg.go).  A configuration has  *)
(* two buffers: Get returns the current one, and a load fills the other    *)
(* and then makes it the current one.  All loads run in the main loop, one *)
(* step after the other; readers and writers of the files come in between. *)
(* No configuration of the repository has a Prev hook.                     *)
(***************************************************************************)
EXTENDS Integers

CONSTANTS
  Names,      \* the registered configurations
  Reloadable, \* those that a reload loads
  Versions,   \* the texts of a configuration
  Refused,    \* the texts that a Post hook refuses
  Notifying,  \* the configuration whose Post hook notifies a client
  Server,     \* the configuration whose Post hook panics when it refuses
  Blank, Torn \* an allocated message; what a reader finds during a write

\* A hook that refuses a text, like one that notifies or panics, is OnNewCfg; the
\* configuration of the server is registered as not reloadable (cfgsync.go:317).
ASSUME CfgAssumption ==
  /\ Reloadable \subseteq Names /\ Notifying \in Reloadable /\ Server \in Names \ Reloadable
  /\ 0 \in Versions \ Refused /\ Refused \subseteq Versions
  /\ Blank \notin Versions /\ Torn \notin Versions /\ Blank # Torn

VARIABLES
  file,    \* the text of each file
  data,    \* the two buffers
  currIdx,
  md5,     \* the text whose checksum is recorded
  loaded,  \* InitLoadAll has succeeded
  load,    \* where the main loop is: "next" and what follows are loads
  todo,    \* configurations that loadAll has still to load
  name,    \* the one it is loading
  text,    \* and what it has read
  failed,  \* configurations whose last new text was refused or not saved
  notice   \* Client.reloadChan: the signals that the client has not taken

managerVars == <<data, currIdx, md5, loaded, failed>>
loadVars == <<load, todo, name, text>>
cfgVars == <<file, managerVars, loadVars, notice>>

Texts == Versions \union {Blank, Torn}
Current(c) == data[c][currIdx[c]]
NextIdx(c) == 1 - currIdx[c]

CfgTypeOK ==
  /\ file \in [Names -> Versions \union {Torn}]
  /\ data \in [Names -> [0..1 -> Texts]]
  /\ currIdx \in [Names -> 0..1]
  /\ md5 \in [Names -> Texts]
  /\ loaded \in BOOLEAN
  /\ load \in {"select", "next", "parse", "post", "switch", "exit",
               "set", "hook", "save", "write", "reply"}
  /\ todo \subseteq Names /\ name \in Names
  /\ text \in Texts
  /\ failed \subseteq Names
  /\ notice \in 0..1

\* The files were there, or cloned, and are registered; InitLoadAll begins.
CfgInit ==
  /\ file = [c \in Names |-> 0]
  /\ data = [c \in Names |-> [i \in 0..1 |-> Blank]]
  /\ currIdx = [c \in Names |-> 0]
  /\ md5 = [c \in Names |-> Blank]
  /\ loaded = FALSE
  /\ load = "next" /\ todo = Names /\ name = Notifying /\ text = Blank
  /\ failed = {}
  /\ notice = 0

-----------------------------------------------------------------------------
(* loadAll, in any order of the map.                                       *)

\* Nothing is being loaded any more.
LetGo == name' = Notifying /\ text' = Blank
Keep == UNCHANGED <<name, text>>

\* A reload passes over what is not reloadable.
LoadReads(c) ==
  /\ load = "next" /\ c \in todo
  /\ todo' = todo \ {c}
  /\ IF c \in Reloadable \/ ~loaded
     THEN name' = c /\ text' = file[c] /\ load' = "parse"
     ELSE UNCHANGED <<name, text, load>>
  /\ UNCHANGED <<file, managerVars, notice>>

\* UnmarshalText fills the buffer i; a torn text may be no text of a configuration:
\* then loadAll stops, and InitLoadAll fails.
Parses(i, unread) ==
  /\ load = "parse"
  /\ data' = [data EXCEPT ![name][i] = text]
  /\ \/ /\ text = Torn
        /\ todo' = {}
        /\ load' = IF loaded THEN "select" ELSE "exit"
        /\ md5' = unread
        /\ LetGo
        /\ UNCHANGED failed
     \/ /\ text = md5[name]
        /\ load' = "next"
        /\ LetGo
        /\ UNCHANGED <<todo, md5, failed>>
     \/ /\ text # md5[name]
        /\ md5' = [md5 EXCEPT ![name] = text]
        /\ failed' = failed \ {name}
        /\ load' = "post"
        /\ Keep
        /\ UNCHANGED todo
  /\ UNCHANGED <<file, currIdx, loaded, notice>>
LoadParsesInPlace == Parses(currIdx[name], md5)                     \* faulty
LoadParsesSignsFirst == Parses(NextIdx(name), [md5 EXCEPT ![name] = text])  \* faulty
LoadParses == Parses(NextIdx(name), md5)

\* OnNewCfg: accepts and notifies the client, waiting for room in its channel,
\* or refuses; the server's panics, and nothing recovers: the process ends (GoMain).
\* The client is started after InitLoadAll.
Post(next, otherwise) ==
  \/ /\ text \notin Refused
     /\ IF name = Notifying /\ loaded THEN notice = 0 /\ notice' = 1 ELSE UNCHANGED notice
     /\ load' = next
     /\ Keep
     /\ UNCHANGED failed
  \/ /\ text \in Refused \union {Torn}
     /\ failed' = failed \union {name}
     /\ load' = IF name = Server THEN "exit" ELSE otherwise
     /\ LetGo
     /\ UNCHANGED notice

LoadPosts ==
  /\ load = "post"
  /\ Post("switch", "next")
  /\ UNCHANGED <<file, data, currIdx, md5, loaded, todo>>

SwitchBuffer == currIdx' = [currIdx EXCEPT ![name] = NextIdx(name)]

LoadSwitches ==
  /\ load = "switch"
  /\ SwitchBuffer
  /\ load' = "next"
  /\ LetGo
  /\ UNCHANGED <<file, data, md5, loaded, failed, todo, notice>>

LoadEnds ==
  /\ load = "next" /\ todo = {}
  /\ loaded' = TRUE
  /\ load' = "select"
  /\ UNCHANGED <<file, data, currIdx, md5, failed, todo, name, text, notice>>

LoadStep == (\E c \in Names : LoadReads(c)) \/ LoadParses \/ LoadPosts \/ LoadSwitches \/ LoadEnds

-----------------------------------------------------------------------------
(* ReloadAndSave.                                                          *)

\* What cannot be parsed is refused at once.
SetParses ==
  /\ load = "set"
  /\ data' = [data EXCEPT ![name][NextIdx(name)] = text]
  /\ IF text \in {Torn, md5[name]}
     THEN load' = "reply" /\ LetGo /\ UNCHANGED <<md5, failed>>
     ELSE /\ load' = "hook"
          /\ Keep
          /\ md5' = [md5 EXCEPT ![name] = text]
          /\ failed' = failed \ {name}
  /\ UNCHANGED <<file, currIdx, loaded, todo, notice>>

SetPosts ==
  /\ load = "hook"
  /\ Post("save", "reply")
  /\ UNCHANGED <<file, data, currIdx, md5, loaded, todo>>

\* WriteFile: the file cannot be opened, or it is truncated and then written.
SetSaves ==
  /\ load = "save"
  /\ \/ /\ file' = [file EXCEPT ![name] = Torn]
        /\ load' = "write"
        /\ Keep
        /\ UNCHANGED failed
     \/ /\ failed' = failed \union {name}
        /\ load' = "reply"
        /\ LetGo
        /\ UNCHANGED file
  /\ UNCHANGED <<data, currIdx, md5, loaded, todo, notice>>

SetWrites ==
  /\ load = "write"
  /\ file' = [file EXCEPT ![name] = text]
  /\ SwitchBuffer
  /\ load' = "reply"
  /\ LetGo
  /\ UNCHANGED <<data, md5, loaded, failed, todo, notice>>

SetStep == SetParses \/ SetPosts \/ SetSaves \/ SetWrites

-----------------------------------------------------------------------------
(* The client takes the signal; what Get then returns may still be old,     *)
(* because the hook runs before the buffers are exchanged (ClientConns).   *)

ClientWakes ==
  /\ notice = 1
  /\ notice' = 0
  /\ UNCHANGED <<file, managerVars, loadVars>>

-----------------------------------------------------------------------------
\* cfg.go:29: what Get returned changes only when the buffers are exchanged, however
\* a load ends.
StableUntilSwitch ==
  [][\A c \in Names : currIdx'[c] = currIdx[c] => Current(c)' = Current(c)]_cfgVars

\* cfg.go:320: between loads, the recorded checksum is that of the current buffer,
\* unless the last new text was refused by the hook or could not be saved: only
\* then does loading the same text again change nothing.
ChecksumOfCurrent ==
  load = "select" => \A c \in Names \ failed : md5[c] = Current(c)
=============================================================================
