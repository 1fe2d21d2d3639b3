------------------------------ MODULE MCMachine ------------------------------
(***************************************************************************)
(* The components that change what other processes share and a crash       *)
(* leaves behind: on one machine the storage set-up, the update of the     *)
(* CLI, the control master of a pod and the portal's session cache; on a   *)
(* pod the authorized keys of one that is copied to; in an account the     *)
(* clusters of one name; in config.ini the keys of accounts, and those of  *)
(* workspaces; on a provider's host the node, at the portal its            *)
(* registration and what it says of it.  They share no state: a behaviour  *)
(* is one of one component, named by `part`, with the others in their      *)
(* initial states.                                                         *)
(***************************************************************************)
EXTENDS StorageSetup, SelfUpdate, SshMux, TokenCache, TransferKey, Clusters, AccountKeys,
        MineNode, RegisterNode, NodeStatus

VARIABLE part
machineVars == <<part, setupVars, updateVars, muxVars, cacheVars, copyVars,
                 clusterVars, keysVars, mineVars, registerVars, statusVars>>
providerVars == <<mineVars, registerVars, statusVars>>

(* With --ttl and --wait every step is taken.                              *)
ClusterLines == {[ttl |-> TRUE, wait |-> TRUE]}

(* Accounts are interchangeable: one process works for a chosen one.       *)
FirstHotkey == CHOOSE h \in Hotkeys : TRUE
FirstCommand == CHOOSE c \in Commands : TRUE
NobodySignedIn == /\ owner = [s \in Sessions |-> NoHotkey]
                  /\ \A c \in Commands : task[c] = "login" /\ hotkeyOf[c] = FirstHotkey
(* Signups and logins share the file with the workspaces' keys, and that   *)
(* only: to each the other is a command that sets some other option.       *)
FirstAccount == CHOOSE a \in Accounts : TRUE
(* What the components that a behaviour is not of start from.              *)
NodeUnwatched == watch = "once" /\ ~strict /\ ~person /\ ~serves /\ reasons = {}
MachineInit ==
  /\ part \in {"setup", "update", "mux", "cache", "copies", "cluster", "accounts", "teams",
               "node", "register", "status"}
  /\ SetupInit /\ (part # "setup" => layout = [loop |-> TRUE, own |-> TRUE])
  /\ UpdateInit /\ MuxInit
  /\ CacheInit /\ hotkeyOf[FirstCommand] = FirstHotkey /\ (part # "cache" => NobodySignedIn)
  /\ CopyInit /\ (part # "copies" => theirs = {})
  /\ ClustersInit /\ (part # "cluster" => honours)
  /\ KeysInit /\ existing \subseteq {FirstAccount}
  /\ part # "accounts" => existing = {}
  /\ MineInit /\ (part # "node" => occupied = {})
  /\ RegisterInit /\ (part # "register" => portalNode = "none")
  /\ StatusInit /\ (part # "status" => NodeUnwatched)

HostNext ==
  \/ part = "setup" /\ SetupNext
       /\ UNCHANGED <<part, updateVars, muxVars, cacheVars, copyVars, clusterVars, keysVars>>
  \/ part = "update" /\ UpdateNext
       /\ UNCHANGED <<part, setupVars, muxVars, cacheVars, copyVars, clusterVars, keysVars>>
  \/ part = "mux" /\ MuxNext
       /\ UNCHANGED <<part, setupVars, updateVars, cacheVars, copyVars, clusterVars, keysVars>>
  \/ part = "cache" /\ CacheNext
       /\ UNCHANGED <<part, setupVars, updateVars, muxVars, copyVars, clusterVars, keysVars>>
  \/ part = "copies" /\ CopyNext
       /\ UNCHANGED <<part, setupVars, updateVars, muxVars, cacheVars, clusterVars, keysVars>>
  \/ part = "cluster" /\ ClustersNext
       /\ UNCHANGED <<part, setupVars, updateVars, muxVars, cacheVars, copyVars, keysVars>>
  \/ /\ part \in {"accounts", "teams"} /\ KeysNext
     /\ part = "accounts" => \A shell \in Shells : whose'[shell] \notin Teams
     /\ part = "teams" => \A shell \in Shells : whose'[shell] \notin Accounts
     /\ UNCHANGED <<part, setupVars, updateVars, muxVars, cacheVars, copyVars, clusterVars>>
ProviderNext ==
  /\ \/ part = "node" /\ MineNext /\ UNCHANGED <<registerVars, statusVars>>
     \/ part = "register" /\ RegisterNext /\ UNCHANGED <<mineVars, statusVars>>
     \/ part = "status" /\ StatusNext /\ UNCHANGED <<mineVars, registerVars>>
  /\ UNCHANGED <<part, setupVars, updateVars, muxVars, cacheVars, copyVars, clusterVars, keysVars>>
MachineNext == (HostNext /\ UNCHANGED providerVars) \/ ProviderNext
MachineSpec == MachineInit /\ [][MachineNext]_machineVars

MachineTypeOK ==
  CASE part = "setup" -> SetupTypeOK
    [] part = "update" -> UpdateTypeOK
    [] part = "mux" -> MuxTypeOK
    [] part = "cache" -> TokenTypeOK
    [] part = "copies" -> CopyTypeOK
    [] part = "cluster" -> ClustersTypeOK
    [] part \in {"accounts", "teams"} -> KeysTypeOK
    [] part = "node" -> MineTypeOK
    [] part = "register" -> RegisterTypeOK
    [] part = "status" -> StatusTypeOK

(* The first stolen lock ends a behaviour: what follows is excused.  Two   *)
(* reasons at a node in one refresh.                                       *)
RunFollowed == ~stolen /\ Cardinality(ever \cup reasons) <= 2
==============================================================================
