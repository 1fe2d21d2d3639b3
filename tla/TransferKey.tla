---------------------------- MODULE TransferKey -----------------------------
(***************************************************************************)
(* Copies from pods to one pod (Lium.cp, src/lium/sdk/client.py).  Each    *)
(* makes a key, places its private half on the source pod, appends the     *)
(* public half to the destination's authorized_keys, copies, and takes     *)
(* both away again.  Appending is one command on the pod; taking away      *)
(* reads the file, then writes it back; flock on the pod keeps them apart. *)
(* A command goes on running when the connection of its client is lost.    *)
(* A key is named by its copy, or is one of Others.                        *)
(***************************************************************************)
EXTENDS Integers

CONSTANTS
  Copies,  \* cp() calls into the pod
  Others   \* keys of users, which some other program appends

ASSUME CopyAssumption == Copies \cap Others = {}

VARIABLES
  copyStep,   \* where each call is
  granted,    \* the calls whose `authorized` is true
  keysFile,   \* the keys in authorized_keys
  placed,     \* the calls whose private half is on their source pod
  command,    \* what each call's command on the destination does
  scratch,    \* what a revoke has read: its authorized_keys.<marker> file
  warned,     \* the calls that warned of a failed clean-up
  theirs,     \* history: the keys others appended
  overwritten \* history: those appended while a revoke was between read and write

copyVars == <<copyStep, granted, keysFile, placed, command, scratch, warned, theirs, overwritten>>
podSide == <<keysFile, scratch, theirs, overwritten>>

Copying == {"new", "grant", "granting", "copy", "revoke", "revoking", "remove"}

CopyTypeOK ==
  /\ copyStep \in [Copies -> Copying \cup {"ended", "killed"}]
  /\ granted \subseteq Copies /\ placed \subseteq Copies /\ warned \subseteq Copies
  /\ keysFile \subseteq Copies \cup Others
  /\ command \in [Copies -> {"none", "grant", "revoke", "filtered", "ok", "failed"}]
  /\ scratch \in [Copies -> SUBSET (Copies \cup Others)]
  /\ overwritten \subseteq theirs /\ theirs \subseteq Others

CopyInit ==
  /\ copyStep = [c \in Copies |-> "new"] /\ granted = {} /\ placed = {} /\ warned = {}
  /\ theirs \in SUBSET Others /\ keysFile = theirs /\ overwritten = {}
  /\ command = [c \in Copies |-> "none"] /\ scratch = [c \in Copies |-> {}]

Turns(c, from, to) == copyStep[c] = from /\ copyStep' = [copyStep EXCEPT ![c] = to]
SetCommand(c, s) == command' = [command EXCEPT ![c] = s]
Answered(c) == command[c] \in {"ok", "failed"}

-----------------------------------------------------------------------------
(* The private half.  A failure here raises before the `try`: nothing is   *)
(* taken away, although the file may have been written.                    *)
Place(c) ==
  /\ \/ Turns(c, "new", "grant") /\ placed' = placed \cup {c}
     \/ Turns(c, "new", "ended") /\ placed' \in {placed, placed \cup {c}}
  /\ UNCHANGED <<granted, command, warned, podSide>>

(* The public half; the pod may be out of reach.                           *)
SendGrant(c) ==
  /\ \/ Turns(c, "grant", "granting") /\ SetCommand(c, "grant")
     \/ Turns(c, "grant", "remove") /\ UNCHANGED command
  /\ UNCHANGED <<granted, placed, warned, podSide>>

GrantAnswered(c) ==
  /\ Answered(c) /\ SetCommand(c, "none")
  /\ \/ command[c] = "ok" /\ Turns(c, "granting", "copy") /\ granted' = granted \cup {c}
     \/ command[c] = "failed" /\ Turns(c, "granting", "remove") /\ UNCHANGED granted
  /\ UNCHANGED <<placed, warned, podSide>>

(* The connection drops, or the user interrupts: `authorized` stays false  *)
(* whatever becomes of the command.                                        *)
GrantLost(c) == Turns(c, "granting", "remove") /\ UNCHANGED <<granted, placed, command, warned, podSide>>

(* The destination's host key is placed and rsync runs on the source, and  *)
(* end well or badly.                                                      *)
CopyFiles(c) == Turns(c, "copy", "revoke") /\ UNCHANGED <<granted, placed, command, warned, podSide>>

(* `finally`: the revoke, run by _exec_quietly.                            *)
SendRevoke(c) ==
  /\ \/ Turns(c, "revoke", "revoking") /\ SetCommand(c, "revoke") /\ UNCHANGED warned
     \/ Turns(c, "revoke", "remove") /\ warned' = warned \cup {c} /\ UNCHANGED command
  /\ UNCHANGED <<granted, placed, podSide>>

(* Its answer, or the loss of it.                                          *)
RevokeReturns(c) ==
  /\ Turns(c, "revoking", "remove")
  /\ \/ command[c] = "ok" /\ UNCHANGED warned
     \/ warned' = warned \cup {c}
  /\ UNCHANGED <<granted, placed, command, podSide>>

(* ... and the private half.                                               *)
RemovePrivate(c) ==
  /\ Turns(c, "remove", "ended")
  /\ \/ placed' = placed \ {c} /\ UNCHANGED warned
     \/ placed' \in {placed, placed \ {c}} /\ warned' = warned \cup {c}
  /\ UNCHANGED <<granted, command, podSide>>

KillCopy(c) ==
  /\ copyStep[c] \in Copying /\ copyStep' = [copyStep EXCEPT ![c] = "killed"]
  /\ UNCHANGED <<granted, placed, command, warned, podSide>>

-----------------------------------------------------------------------------
(* The destination.  Only a revoke holds the lock over more than one step. *)
Unlocked == \A d \in Copies : command[d] # "filtered"

Grant(c) ==
  /\ command[c] = "grant" /\ Unlocked
  /\ \/ keysFile' = keysFile \cup {c} /\ SetCommand(c, "ok")
     \/ SetCommand(c, "failed") /\ UNCHANGED keysFile
  /\ UNCHANGED <<copyStep, granted, placed, scratch, warned, theirs, overwritten>>

(* grep -v into the scratch file; a failure leaves authorized_keys alone.  *)
(* Faulty: without flock.                                                  *)
FilterFaulty(c) ==
  /\ command[c] = "revoke"
  /\ \/ scratch' = [scratch EXCEPT ![c] = keysFile \ {c}] /\ SetCommand(c, "filtered")
     \/ SetCommand(c, "failed") /\ UNCHANGED scratch
  /\ UNCHANGED <<copyStep, granted, keysFile, placed, warned, theirs, overwritten>>
Filter(c) ==
  /\ command[c] = "revoke" /\ Unlocked
  /\ \/ scratch' = [scratch EXCEPT ![c] = keysFile \ {c}] /\ SetCommand(c, "filtered")
     \/ SetCommand(c, "failed") /\ UNCHANGED scratch
  /\ UNCHANGED <<copyStep, granted, keysFile, placed, warned, theirs, overwritten>>

(* cat > authorized_keys; rm the scratch file.                             *)
WriteBack(c) ==
  /\ command[c] = "filtered" /\ SetCommand(c, "ok")
  /\ keysFile' = scratch[c] /\ scratch' = [scratch EXCEPT ![c] = {}]
  /\ UNCHANGED <<copyStep, granted, placed, warned, theirs, overwritten>>

(* flock -w 30 gives up.                                                   *)
LockTimeout(c) ==
  /\ command[c] \in {"grant", "revoke"} /\ ~Unlocked /\ SetCommand(c, "failed")
  /\ UNCHANGED <<copyStep, granted, placed, warned, podSide>>

(* The user or the platform adds a key, without the lock.                  *)
OtherAppends ==
  /\ \E o \in Others \ theirs :
       /\ keysFile' = keysFile \cup {o} /\ theirs' = theirs \cup {o}
       /\ overwritten' = IF Unlocked THEN overwritten ELSE overwritten \cup {o}
  /\ UNCHANGED <<copyStep, granted, placed, command, scratch, warned>>

CopyNext ==
  \/ \E c \in Copies :
       \/ Place(c) \/ SendGrant(c) \/ GrantAnswered(c) \/ GrantLost(c) \/ CopyFiles(c) \/ SendRevoke(c)
       \/ RevokeReturns(c) \/ RemovePrivate(c) \/ KillCopy(c)
       \/ Grant(c) \/ Filter(c) \/ WriteBack(c) \/ LockTimeout(c)
  \/ OtherAppends

CopySpec == CopyInit /\ [][CopyNext]_copyVars

-----------------------------------------------------------------------------
(* Copies that overlap neither lose a key nor bring one back ("two         *)
(* concurrent ``cp`` into the same pod otherwise both filter the same      *)
(* authorized_keys"): a key that others appended stays, unless it came     *)
(* between a revoke's read and its write; a copy that runs has its key;    *)
(* and a copy whose grant was answered and that warned of nothing leaves   *)
(* neither half behind.                                                    *)
OtherKeysStay == theirs \ overwritten \subseteq keysFile
CopyHasItsKey == \A c \in Copies : copyStep[c] = "copy" => c \in keysFile /\ c \in placed
EndedLeavesNothing ==
  \A c \in granted \ warned : copyStep[c] = "ended" => c \notin keysFile /\ c \notin placed
KeysAreRight == OtherKeysStay /\ CopyHasItsKey /\ EndedLeavesNothing
=============================================================================
