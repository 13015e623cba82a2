---------------------------- MODULE ClientLists ----------------------------
(***************************************************************************)
(* What the two halves of the client component (component/net/client/      *)
(* client.go) share: ClientConns models its connections, ClientSend the    *)
(* callers of SendMsg.                                                     *)
(***************************************************************************)
EXTENDS Naturals, SequencesExt, FiniteSets

CONSTANTS
  Servers,    \* the ids of servers
  Configs,    \* the versions of the configuration
  First,      \* the one that Start reads
  ServersOf   \* the list of servers of a version (ServerEntries)

VARIABLES
  mu,         \* the mutex: "free", "held", or "lost" by a panic of its holder
  allSvrId,   \* the list of servers
  fresh       \* the configuration reloadCfg has read last
=============================================================================
