-------------------------- MODULE SharedFilesProofs --------------------------
(***************************************************************************)
(* Files and sockets that several processes change at once, for any number *)
(* of processes: the authorized keys of a pod that is copied to            *)
(* (TransferKey), the control master of a pod (SshMux), the portal's       *)
(* session cache (TokenCache) and the installation that updates itself     *)
(* (SelfUpdate).                                                           *)
(***************************************************************************)
EXTENDS TransferKey, SshMux, TokenCache, SelfUpdate, TLAPS

(* Copies into a pod (TransferKey).                                        *)

(* Where a call is tells which command it has on the destination, and      *)
(* whether it was answered and has its private half.                       *)
CopyPhase(c) ==
  /\ copyStep[c] \in {"new", "grant", "copy", "revoke"} => command[c] = "none"
  /\ copyStep[c] = "granting" => command[c] \in {"grant", "ok", "failed"}
  /\ command[c] \in {"revoke", "filtered"} =>
       c \in granted /\ copyStep[c] \in {"revoking", "remove", "ended", "killed"}
  /\ copyStep[c] \in {"new", "grant", "granting"} => c \notin granted
  /\ copyStep[c] \in {"copy", "revoke", "revoking"} => c \in granted
  /\ copyStep[c] \in {"grant", "granting", "copy", "revoke"} => c \in placed
  /\ c \in granted => command[c] # "grant"

(* A key that was granted is there until its revoke is sent, and gone once *)
(* the revoke has ended well.                                              *)
OwnKey(c) ==
  /\ copyStep[c] \in {"copy", "revoke"} => c \in keysFile
  /\ copyStep[c] = "granting" /\ command[c] = "ok" => c \in keysFile
  /\ copyStep[c] = "revoking" /\ command[c] = "ok" => c \notin keysFile
  /\ c \in granted \ warned /\ copyStep[c] \in {"remove", "ended"} => c \notin keysFile
     /\ command[c] = "ok"
  /\ c \in granted \ warned /\ copyStep[c] = "ended" => c \notin placed

(* What a revoke has read is the file without its key, but for what others *)
(* appended since; no two revokes are between read and write.              *)
RevokeRead(c) ==
  command[c] = "filtered" =>
    /\ scratch[c] \subseteq keysFile /\ c \notin scratch[c]
    /\ keysFile \ {c} \subseteq scratch[c] \cup overwritten
    /\ \A d \in Copies : command[d] = "filtered" => d = c

CopyInv ==
  /\ CopyTypeOK /\ OtherKeysStay
  /\ \A c \in Copies : CopyPhase(c) /\ OwnKey(c) /\ RevokeRead(c)

LEMMA CopyInitInv == CopyInit => CopyInv
  BY CopyAssumption
       DEF CopyInit, CopyInv, CopyTypeOK, OtherKeysStay, CopyPhase, OwnKey, RevokeRead, Copying

LEMMA CopyInvImplies == CopyInv => KeysAreRight
  BY DEF CopyInv, CopyTypeOK, KeysAreRight, CopyHasItsKey, EndedLeavesNothing, CopyPhase, OwnKey

(* Each action keeps the three together; the write of a revoke is the one  *)
(* that could undo what other copies and users did.                        *)
LEMMA CopyNextInv == CopyInv /\ [CopyNext]_copyVars => CopyInv'
<1> SUFFICES ASSUME CopyInv, [CopyNext]_copyVars PROVE CopyInv'
  OBVIOUS
<1> USE CopyAssumption DEF CopyInv, CopyTypeOK, OtherKeysStay, CopyPhase, OwnKey, RevokeRead,
     Copying, podSide, Turns, SetCommand, Answered, Unlocked
<1>1. ASSUME NEW c \in Copies, Place(c) PROVE CopyInv'
  BY <1>1 DEF Place
<1>2. ASSUME NEW c \in Copies, SendGrant(c) PROVE CopyInv'
  BY <1>2 DEF SendGrant
<1>3. ASSUME NEW c \in Copies, GrantAnswered(c) PROVE CopyInv'
  BY <1>3 DEF GrantAnswered
<1>4. ASSUME NEW c \in Copies, GrantLost(c) PROVE CopyInv'
  BY <1>4 DEF GrantLost
<1>5. ASSUME NEW c \in Copies, CopyFiles(c) PROVE CopyInv'
  BY <1>5 DEF CopyFiles
<1>6. ASSUME NEW c \in Copies, SendRevoke(c) PROVE CopyInv'
  BY <1>6 DEF SendRevoke
<1>7. ASSUME NEW c \in Copies, RevokeReturns(c) PROVE CopyInv'
  BY <1>7 DEF RevokeReturns
<1>8. ASSUME NEW c \in Copies, RemovePrivate(c) PROVE CopyInv'
  BY <1>8 DEF RemovePrivate
<1>9. ASSUME NEW c \in Copies, KillCopy(c) PROVE CopyInv'
  BY <1>9 DEF KillCopy
<1>10. ASSUME NEW c \in Copies, Grant(c) PROVE CopyInv'
  BY <1>10 DEF Grant
<1>11. ASSUME NEW c \in Copies, Filter(c) PROVE CopyInv'
  BY <1>11 DEF Filter
<1>12. ASSUME NEW c \in Copies, WriteBack(c) PROVE CopyInv'
  <2> USE <1>12 DEF WriteBack
  <2>1. keysFile' \subseteq keysFile /\ c \notin keysFile'
        /\ keysFile \ ({c} \cup overwritten) \subseteq keysFile'
    OBVIOUS
  <2>2. CopyTypeOK' /\ OtherKeysStay'
    BY <2>1
  <2>3. ASSUME NEW d \in Copies PROVE CopyPhase(d)' /\ OwnKey(d)'
    BY <2>1
  <2>4. ASSUME NEW d \in Copies PROVE RevokeRead(d)'
    \* no other revoke has read what this one overwrites
    <3>1. command'[d] # "filtered"
      OBVIOUS
    <3> QED
      BY <3>1
  <2> QED
    BY <2>2, <2>3, <2>4
<1>13. ASSUME NEW c \in Copies, LockTimeout(c) PROVE CopyInv'
  BY <1>13 DEF LockTimeout
<1>14. CASE OtherAppends
  BY <1>14 DEF OtherAppends
<1>15. CASE UNCHANGED copyVars
  BY <1>15 DEF copyVars
<1> QED
  BY <1>1, <1>2, <1>3, <1>4, <1>5, <1>6, <1>7, <1>8, <1>9, <1>10, <1>11, <1>12, <1>13, <1>14,
       <1>15 DEF CopyNext

(* Copies into one pod, however they overlap and whatever fails, neither   *)
(* lose a key of its users nor leave one of theirs unannounced (cp and the *)
(* lock its grants and revokes take, client.py 4984-5194).                 *)
THEOREM KeysStayRight == CopySpec => []KeysAreRight
<1>1. CopySpec => []CopyInv
  BY CopyInitInv, CopyNextInv, PTL DEF CopySpec
<1> QED
  BY <1>1, CopyInvImplies, PTL
-----------------------------------------------------------------------------
(* One control master per pod (SshMux).                                    *)

(* Who is past the second look found no master, and what it removes or     *)
(* starts is at an empty path.                                             *)
PathIsFree ==
  \A e \in Execs :
    /\ step[e] = "unlink" => ~Up(socket)
    /\ step[e] \in {"launch", "connect"} => socket = 0

(* A master that connects is the one its starter waits for.                *)
StarterWaits ==
  /\ \A e \in Execs :
       /\ on[e] # 0 => master[on[e]] # "unborn"
       /\ step[e] = "connect" => on[e] # 0 /\ master[on[e]] = "connecting"
  /\ \A m \in Masters : master[m] = "connecting" =>
       /\ \E e \in Execs : step[e] = "connect" /\ on[e] = m
       /\ \A e \in Execs : on[e] = m => step[e] = "connect"

MuxInv == MuxTypeOK /\ MasterHasItsSocket /\ (~killed => PathIsFree /\ StarterWaits)

LEMMA MuxFlagsInit == MuxInit => killed \in BOOLEAN
  BY Zenon DEF MuxInit

LEMMA MuxInitInv == MuxInit => MuxInv
  BY MuxAssumption, MuxFlagsInit
  DEF MuxInit, MuxInv, MuxTypeOK, MasterHasItsSocket, PathIsFree, StarterWaits, Masters, Up

LEMMA MuxNextInv == MuxInv /\ [MuxNext]_muxVars => MuxInv'
<1> SUFFICES ASSUME MuxInv, [MuxNext]_muxVars PROVE MuxInv'
  OBVIOUS
<1> USE MuxAssumption
    DEF MuxInv, MuxTypeOK, MasterHasItsSocket, PathIsFree, StarterWaits, Masters, Up, Moves
<1>1. ASSUME NEW e \in Execs, CheckMaster(e) PROVE MuxInv'
  BY <1>1 DEF CheckMaster
<1>2. ASSUME NEW e \in Execs, LockStart(e) PROVE MuxInv'
  BY <1>2 DEF LockStart
<1>3. ASSUME NEW e \in Execs, Recheck(e) PROVE MuxInv'
  BY <1>3 DEF Recheck
<1>4. ASSUME NEW e \in Execs, UnlinkSocket(e) PROVE MuxInv'
  BY <1>4 DEF UnlinkSocket
<1>5. ASSUME NEW e \in Execs, Launch(e) PROVE MuxInv'
  BY <1>5 DEF Launch, Begun
<1>6. ASSUME NEW e \in Execs, Connect(e) PROVE MuxInv'
  <2>1. killed' = killed /\ step[e] = "connect" /\ on' = on /\ starter' = NoExec /\ starter = e
        /\ step' = [step EXCEPT ![e] = "use"]
    BY <1>6 DEF Connect
  <2>2. on[e] \in 0..MaxMasters /\ socket' \in {socket, on[e]}
        /\ master' \in {[master EXCEPT ![on[e]] = "up"], [master EXCEPT ![on[e]] = "plain"]}
    BY <1>6 DEF Connect, Bind
  <2>3. MuxTypeOK'
    <3>1. socket' \in 0..MaxMasters
      BY <2>2
    <3>2. master' \in [Masters -> {"unborn", "connecting", "up", "plain", "gone"}]
      BY <2>2
    <3>3. \A d \in Execs : step'[d] \in {"recheck", "unlink", "launch", "connect"} => starter' = d
      BY <2>1
    <3> QED
      BY <2>1, <3>1, <3>2, <3>3
  <2>4. ASSUME ~killed PROVE MasterHasItsSocket' /\ PathIsFree' /\ StarterWaits'
    <3>1. socket = 0 /\ socket' = on[e] /\ master' = [master EXCEPT ![on[e]] = "up"]
          /\ on[e] \in Masters
      <4>1. socket = 0 /\ on[e] # 0
        BY <2>1, <2>4
      <4>2. on[e] \in Masters
        BY <2>2, <4>1
      <4> QED
        BY <4>1, <4>2, <1>6 DEF Connect, Bind
    <3>2. \A m \in Masters : master[m] \notin {"up", "plain"}
      BY <3>1, <2>4
    <3>3. MasterHasItsSocket'
      BY <2>1, <3>1, <3>2
    <3>4. PathIsFree'
      BY <2>1
    <3>5. StarterWaits'
      BY <2>1, <2>4, <3>1
    <3> QED
      BY <3>3, <3>4, <3>5
  <2> QED
    BY <2>1, <2>3, <2>4
<1>7. ASSUME NEW e \in Execs, ConnectFails(e) PROVE MuxInv'
  <2>1. killed' = killed /\ step[e] = "connect" /\ on' = on /\ starter' = NoExec /\ starter = e
        /\ step' = [step EXCEPT ![e] = "failed"] /\ socket' = socket
        /\ master' = [master EXCEPT ![on[e]] = "gone"]
    BY <1>7 DEF ConnectFails
  <2>2. MuxTypeOK'
    BY <2>1
  <2>3. ASSUME ~killed PROVE MasterHasItsSocket' /\ PathIsFree'
    BY <2>1, <2>3
  <2>4. ASSUME ~killed PROVE StarterWaits'
    BY <2>1, <2>4
  <2> QED
    BY <2>1, <2>2, <2>3, <2>4
<1>8. ASSUME NEW e \in Execs, RunCommand(e) PROVE MuxInv'
  BY <1>8 DEF RunCommand
<1>9. ASSUME NEW e \in Execs, CommandEnds(e) \/ Status255(e) \/ AskMaster(e) PROVE MuxInv'
  <2>1. CASE CommandEnds(e) BY <2>1 DEF CommandEnds
  <2>2. CASE Status255(e) BY <2>2 DEF Status255
  <2>3. CASE AskMaster(e) BY <2>3 DEF AskMaster
  <2> QED BY <1>9, <2>1, <2>2, <2>3
<1>10. ASSUME NEW e \in Execs, ExecKilled(e) PROVE MuxInv'
  <2>1. /\ step' = [step EXCEPT ![e] = "killed"] /\ UNCHANGED <<socket, master, on>>
        /\ starter' = IF starter = e THEN NoExec ELSE starter
    BY <1>10 DEF ExecKilled
  <2>2. killed' \in BOOLEAN /\ (killed' <=> killed \/ step[e] = "connect")
    BY <1>10, Zenon DEF ExecKilled
  <2>3. MuxTypeOK'
    BY <2>1, <2>2
  <2>4. MasterHasItsSocket'
    BY <2>1, <2>2
  <2>5. ~killed' => PathIsFree' /\ StarterWaits'
    BY <2>1, <2>2
  <2> QED
    BY <2>3, <2>4, <2>5
<1>11. ASSUME NEW p \in Stoppers, StopMaster(p) PROVE MuxInv'
  BY <1>11 DEF StopMaster, Exits
<1>12. ASSUME NEW m \in Masters, MasterIdles(m) \/ MasterDies(m) PROVE MuxInv'
  BY <1>12 DEF MasterIdles, MasterDies, Exits
<1>13. ASSUME NEW m \in Masters, Abandoned(m) PROVE MuxInv'
  BY <1>13 DEF Abandoned, Bind
<1>14. CASE UNCHANGED muxVars
  BY <1>14 DEF muxVars
<1> QED
  BY <1>1, <1>2, <1>3, <1>4, <1>5, <1>6, <1>7, <1>8, <1>9, <1>10, <1>11, <1>12, <1>13, <1>14
  DEF MuxNext

(* However many commands start, use, stop and lose the master of a pod: no *)
(* connection stays up that the socket does not lead to, unless a process  *)
(* was killed while its ssh connected (ControlMaster.start, ssh_mux.py).   *)
THEOREM OneMasterPerSocket == MuxSpec => []MasterHasItsSocket
<1>1. MuxSpec => []MuxInv
  BY MuxInitInv, MuxNextInv, PTL DEF MuxSpec
<1>2. MuxInv => MasterHasItsSocket
  BY DEF MuxInv
<1> QED
  BY <1>1, <1>2, PTL

-----------------------------------------------------------------------------
(* The portal's session cache (TokenCache).                                *)

(* The sessions that had ended when a process began were handed out before.*)
EndedWereIssued == ended \subseteq Issued /\ \A c \in Commands : before[c] \subseteq ended

(* Under the lock the file a process will write differs from the one that  *)
(* is there by its own entry.                                              *)
CopyIsCurrent ==
  unread = {} => \A c \in Commands : doing[c] = "replace" =>
    \A h \in Hotkeys \ {hotkeyOf[c]} : copy[c][h] = saved[h]

(* What a process is about to check or to save is a session, and a new one *)
(* where it saves it.                                                      *)
InStore == {"lock", "read", "replace"}
InHand(c) ==
  /\ doing[c] = "lock" => tries[c] < MaxTries
  /\ doing[c] = "check" => mine[c] # 0 /\ task[c] = "login"
  /\ doing[c] = "replace" => call[c] # "load"
  /\ doing[c] \in InStore /\ call[c] = "save" => mine[c] \notin before[c] \cup {0}
  /\ doing[c] \in InStore /\ call[c] = "load" => task[c] = "login"
  /\ doing[c] \in InStore /\ call[c] = "clear" => task[c] \in {"login", "logout"}
Signed(c) == doing[c] = "done" /\ task[c] # "logout" => mine[c] \notin before[c] \cup {0}

CacheInv ==
  /\ TokenTypeOK /\ SessionsAreKept /\ EndedWereIssued /\ CopyIsCurrent
  /\ \A c \in Commands : InHand(c)

LEMMA CacheInitInv == CacheInit => CacheInv
<1> SUFFICES ASSUME CacheInit PROVE CacheInv
  OBVIOUS
<1> USE CacheAssumption DEF CacheInit
<1>1. saved \in CacheFiles
  <2> DEFINE tokenOf(h) == IF \E s \in Sessions : owner[s] = h THEN CHOOSE s \in Sessions : owner[s] = h ELSE 0
  <2>1. \A h \in Hotkeys : tokenOf(h) \in Sessions \cup {0}
    BY Zenon
  <2>2. \A h \in Hotkeys : tokenOf(h) \in 0..MaxSessions
    BY <2>1 DEF Sessions
  <2> QED
    BY <2>2 DEF CacheFiles
<1>2. TokenTypeOK
  BY <1>1 DEF TokenTypeOK, CacheFiles, Empty, Finished
<1>3. SessionsAreKept
  BY DEF SessionsAreKept, CacheIsLastWord, SignInIsLive
<1>4. EndedWereIssued /\ CopyIsCurrent /\ \A c \in Commands : InHand(c)
  BY DEF EndedWereIssued, CopyIsCurrent, InHand, InStore
<1> QED
  BY <1>2, <1>3, <1>4 DEF CacheInv

LEMMA CacheNextInv == CacheInv /\ [CacheNext]_cacheVars => CacheInv'
<1> SUFFICES ASSUME CacheInv, [CacheNext]_cacheVars PROVE CacheInv'
  OBVIOUS
<1> USE CacheAssumption DEF Put, Does, SameFile, SamePortal, SameRest, Calls
<1>0. TokenTypeOK /\ SessionsAreKept /\ EndedWereIssued /\ CopyIsCurrent
      /\ \A c \in Commands : InHand(c)
  BY DEF CacheInv
<1>a. /\ 0 \in 0..MaxSessions /\ \A t \in Sessions : t \in 0..MaxSessions /\ t # 0
      /\ 0 < MaxTries /\ 0 \in 0..MaxTries
  BY DEF Sessions
<1>1. ASSUME NEW c \in Commands, Begin(c) PROVE CacheInv'
  <2>1. \A d \in Commands \ {c} :
          /\ doing'[d] = doing[d] /\ call'[d] = call[d] /\ tries'[d] = tries[d]
          /\ task'[d] = task[d]
          /\ copy'[d] = copy[d] /\ mine'[d] = mine[d] /\ before'[d] = before[d]
          /\ (d \in unread <=> d \in unread')
    BY <1>0, <1>1 DEF TokenTypeOK, Begin
  <2>2. tries' \in [Commands -> 0..MaxTries]
    BY <1>0, <1>1 DEF TokenTypeOK, InHand, Begin
  <2>3. /\ saved' \in CacheFiles /\ meant' \in CacheFiles /\ copy' \in [Commands -> CacheFiles]
        /\ owner' \in [Sessions -> Hotkeys \cup {NoHotkey}]
        /\ mine' \in [Commands -> 0..MaxSessions]
    <3>1. saved' \in CacheFiles /\ meant' \in CacheFiles
      BY <1>0, <1>1 DEF TokenTypeOK, CacheFiles, Begin
    <3>2. copy' \in [Commands -> CacheFiles]
      BY <1>0, <1>1 DEF TokenTypeOK, CacheFiles, Begin
    <3>3. owner' \in [Sessions -> Hotkeys \cup {NoHotkey}]
      BY <1>0, <1>1 DEF TokenTypeOK, Begin
    <3>4. mine' \in [Commands -> 0..MaxSessions]
      BY <1>0, <1>a, <1>1 DEF TokenTypeOK, Begin
    <3> QED
      BY <3>1, <3>2, <3>3, <3>4
  <2>4. /\ ended' \subseteq Sessions /\ unread' \subseteq Commands
        /\ before' \in [Commands -> SUBSET Sessions]
        /\ hotkeyOf' \in [Commands -> Hotkeys]
        /\ task' \in [Commands -> {"login", "force", "logout", "email", "address"}]
        /\ doing' \in [Commands -> {"start", "lock", "read", "replace", "check", "sign", "set"} \cup Finished]
        /\ call' \in [Commands -> {"load", "save", "clear"}]
    BY <1>0, <1>1 DEF TokenTypeOK, Finished, Issued, Begin
  <2>5. holder' \in Commands \cup {NoCommand}
        /\ \A d \in Commands : doing'[d] \in {"read", "replace"} <=> holder' = d
    BY <1>0, <1>1 DEF TokenTypeOK, Finished, Begin
  <2>6. EndedWereIssued'
    BY <1>0, <1>1 DEF TokenTypeOK, EndedWereIssued, Issued, Begin
  <2>7. CacheIsLastWord' /\ CopyIsCurrent'
    BY <1>0, <1>1, <2>1
         DEF TokenTypeOK, SessionsAreKept, CacheIsLastWord, CopyIsCurrent, CacheFiles, Begin
  <2>8. InHand(c)'
    BY <1>0, <1>a, <1>1, <2>2 DEF TokenTypeOK, EndedWereIssued, InHand, InStore, Issued, Begin
  <2>9. c \notin unread' => Signed(c)'
    BY <1>0, <1>1 DEF TokenTypeOK, EndedWereIssued, InHand, InStore, Signed, Begin
  <2>10. SignInIsLive' /\ \A d \in Commands : InHand(d)'
    BY <1>0, <2>1, <2>8, <2>9 DEF SessionsAreKept, SignInIsLive, InHand, Signed
  <2>11. TokenTypeOK'
    BY <2>2, <2>3, <2>4, <2>5 DEF TokenTypeOK
  <2> QED
    BY <2>6, <2>7, <2>10, <2>11 DEF CacheInv, SessionsAreKept
<1>2. ASSUME NEW c \in Commands, LockCache(c) PROVE CacheInv'
  <2>1. \A d \in Commands \ {c} :
          /\ doing'[d] = doing[d] /\ call'[d] = call[d] /\ tries'[d] = tries[d]
          /\ task'[d] = task[d]
          /\ copy'[d] = copy[d] /\ mine'[d] = mine[d] /\ before'[d] = before[d]
          /\ (d \in unread <=> d \in unread')
    BY <1>0, <1>2 DEF TokenTypeOK, LockCache
  <2>2. tries' \in [Commands -> 0..MaxTries]
    BY <1>0, <1>2 DEF TokenTypeOK, InHand, LockCache
  <2>3. /\ saved' \in CacheFiles /\ meant' \in CacheFiles /\ copy' \in [Commands -> CacheFiles]
        /\ owner' \in [Sessions -> Hotkeys \cup {NoHotkey}]
        /\ mine' \in [Commands -> 0..MaxSessions]
    <3>1. saved' \in CacheFiles /\ meant' \in CacheFiles
      BY <1>0, <1>2 DEF TokenTypeOK, CacheFiles, LockCache
    <3>2. copy' \in [Commands -> CacheFiles]
      BY <1>0, <1>2 DEF TokenTypeOK, CacheFiles, LockCache
    <3>3. owner' \in [Sessions -> Hotkeys \cup {NoHotkey}]
      BY <1>0, <1>2 DEF TokenTypeOK, LockCache
    <3>4. mine' \in [Commands -> 0..MaxSessions]
      BY <1>0, <1>a, <1>2 DEF TokenTypeOK, LockCache
    <3> QED
      BY <3>1, <3>2, <3>3, <3>4
  <2>4. /\ ended' \subseteq Sessions /\ unread' \subseteq Commands
        /\ before' \in [Commands -> SUBSET Sessions]
        /\ hotkeyOf' \in [Commands -> Hotkeys]
        /\ task' \in [Commands -> {"login", "force", "logout", "email", "address"}]
        /\ doing' \in [Commands -> {"start", "lock", "read", "replace", "check", "sign", "set"} \cup Finished]
        /\ call' \in [Commands -> {"load", "save", "clear"}]
    BY <1>0, <1>2 DEF TokenTypeOK, Finished, Issued, LockCache
  <2>5. holder' \in Commands \cup {NoCommand}
        /\ \A d \in Commands : doing'[d] \in {"read", "replace"} <=> holder' = d
    BY <1>0, <1>2 DEF TokenTypeOK, Finished, LockCache
  <2>6. EndedWereIssued'
    BY <1>0, <1>2 DEF TokenTypeOK, EndedWereIssued, Issued, LockCache
  <2>7. CacheIsLastWord' /\ CopyIsCurrent'
    BY <1>0, <1>2, <2>1
         DEF TokenTypeOK, SessionsAreKept, CacheIsLastWord, CopyIsCurrent, CacheFiles, LockCache
  <2>8. InHand(c)'
    BY <1>0, <1>a, <1>2, <2>2 DEF TokenTypeOK, EndedWereIssued, InHand, InStore, Issued, LockCache
  <2>9. c \notin unread' => Signed(c)'
    BY <1>0, <1>2 DEF TokenTypeOK, EndedWereIssued, InHand, InStore, Signed, LockCache
  <2>10. SignInIsLive' /\ \A d \in Commands : InHand(d)'
    BY <1>0, <2>1, <2>8, <2>9 DEF SessionsAreKept, SignInIsLive, InHand, Signed
  <2>11. TokenTypeOK'
    BY <2>2, <2>3, <2>4, <2>5 DEF TokenTypeOK
  <2> QED
    BY <2>6, <2>7, <2>10, <2>11 DEF CacheInv, SessionsAreKept
<1>3. ASSUME NEW c \in Commands, ReadCache(c) PROVE CacheInv'
  <2>1. \A d \in Commands \ {c} :
          /\ doing'[d] = doing[d] /\ call'[d] = call[d] /\ tries'[d] = tries[d]
          /\ task'[d] = task[d]
          /\ copy'[d] = copy[d] /\ mine'[d] = mine[d] /\ before'[d] = before[d]
          /\ (d \in unread <=> d \in unread')
    BY <1>0, <1>3 DEF TokenTypeOK, ReadCache, Loads, AfterStore, Own, Empty
  <2>0. PICK data \in {saved, Empty} :
          /\ data = saved \/ unread' # {}
          /\ \/ Loads(c, Own(c, data))
             \/ UNCHANGED <<copy, mine>> /\ doing' # Put(doing, c, "replace")
                /\ Does(c, "read", AfterStore(c))
             \/ /\ Does(c, "read", "replace") /\ UNCHANGED mine
                /\ \E token \in {mine[c], 0} : copy' = Put(copy, c, Put(data, hotkeyOf[c], token))
    BY <1>0, <1>3 DEF ReadCache, AfterStore, TokenTypeOK
  <2>2. tries' \in [Commands -> 0..MaxTries]
    BY <1>0, <1>3 DEF TokenTypeOK, InHand, ReadCache, Loads, AfterStore, Own, Empty
  <2>3. /\ saved' \in CacheFiles /\ meant' \in CacheFiles /\ copy' \in [Commands -> CacheFiles]
        /\ owner' \in [Sessions -> Hotkeys \cup {NoHotkey}]
        /\ mine' \in [Commands -> 0..MaxSessions]
    <3>1. saved' \in CacheFiles /\ meant' \in CacheFiles
      BY <1>0, <1>3 DEF TokenTypeOK, CacheFiles, ReadCache, Loads, AfterStore, Own, Empty
    <3>2. copy' \in [Commands -> CacheFiles]
      <4>1. data \in CacheFiles
        BY <1>0, <1>a, <2>0 DEF TokenTypeOK, CacheFiles, Empty
      <4>2. \A token \in {mine[c], 0} : Put(data, hotkeyOf[c], token) \in CacheFiles
        BY <1>0, <1>a, <4>1 DEF TokenTypeOK, CacheFiles
      <4>3. copy' = copy \/ \E file \in CacheFiles : copy' = [copy EXCEPT ![c] = file]
        BY <2>0, <4>2 DEF Loads
      <4> QED
        BY <1>0, <4>3 DEF TokenTypeOK
    <3>3. owner' \in [Sessions -> Hotkeys \cup {NoHotkey}]
      BY <1>0, <1>3 DEF TokenTypeOK, ReadCache, Loads, AfterStore, Own, Empty
    <3>4. mine' \in [Commands -> 0..MaxSessions]
      <4>1. Own(c, data) \in 0..MaxSessions
        BY <1>0, <1>a, <2>0 DEF TokenTypeOK, CacheFiles, Empty, Own
      <4> QED
        BY <1>0, <1>a, <2>0, <4>1 DEF TokenTypeOK, Loads
    <3> QED
      BY <3>1, <3>2, <3>3, <3>4
  <2>4. /\ ended' \subseteq Sessions /\ unread' \subseteq Commands
        /\ before' \in [Commands -> SUBSET Sessions]
        /\ hotkeyOf' \in [Commands -> Hotkeys]
        /\ task' \in [Commands -> {"login", "force", "logout", "email", "address"}]
        /\ doing' \in [Commands -> {"start", "lock", "read", "replace", "check", "sign", "set"} \cup Finished]
        /\ call' \in [Commands -> {"load", "save", "clear"}]
    BY <1>0, <1>3 DEF TokenTypeOK, Finished, Issued, ReadCache, Loads, AfterStore, Own, Empty
  <2>5. holder' \in Commands \cup {NoCommand}
        /\ \A d \in Commands : doing'[d] \in {"read", "replace"} <=> holder' = d
    BY <1>0, <1>3 DEF TokenTypeOK, Finished, ReadCache, Loads, AfterStore, Own, Empty
  <2>6. EndedWereIssued'
    BY <1>0, <1>3 DEF TokenTypeOK, EndedWereIssued, Issued, ReadCache, Loads, AfterStore, Own, Empty
  <2>7. CacheIsLastWord' /\ CopyIsCurrent'
    <3>1. UNCHANGED <<saved, meant, hotkeyOf>> /\ unread \subseteq unread'
      BY <1>3 DEF ReadCache
    <3>2. ASSUME unread' = {}, doing'[c] = "replace", NEW h \in Hotkeys \ {hotkeyOf[c]} PROVE copy'[c][h] = saved[h]
      <4>1. data = saved /\ doing[c] = "read"
        BY <2>0, <3>2 DEF Loads
      <4>2. \E token \in {mine[c], 0} : copy' = Put(copy, c, Put(data, hotkeyOf[c], token))
        BY <1>0, <2>0, <3>2 DEF TokenTypeOK, Loads, AfterStore
      <4> QED
        BY <1>0, <4>1, <4>2 DEF TokenTypeOK, CacheFiles
    <3> QED
      BY <1>0, <2>1, <3>1, <3>2 DEF SessionsAreKept, CacheIsLastWord, CopyIsCurrent
  <2>8. InHand(c)'
    BY <1>0, <1>a, <1>3, <2>2 DEF TokenTypeOK, EndedWereIssued, InHand, InStore, Issued, ReadCache,
         Loads, AfterStore, Own, Empty
  <2>9. c \notin unread' => Signed(c)'
    BY <1>0, <1>3 DEF TokenTypeOK, EndedWereIssued, InHand, InStore, Signed, ReadCache, Loads,
         AfterStore, Own, Empty
  <2>10. SignInIsLive' /\ \A d \in Commands : InHand(d)'
    BY <1>0, <2>1, <2>8, <2>9 DEF SessionsAreKept, SignInIsLive, InHand, Signed
  <2>11. TokenTypeOK'
    BY <2>2, <2>3, <2>4, <2>5 DEF TokenTypeOK
  <2> QED
    BY <2>6, <2>7, <2>10, <2>11 DEF CacheInv, SessionsAreKept
<1>4. ASSUME NEW c \in Commands, ReplaceCache(c) PROVE CacheInv'
  <2>1. \A d \in Commands \ {c} :
          /\ doing'[d] = doing[d] /\ call'[d] = call[d] /\ tries'[d] = tries[d]
          /\ task'[d] = task[d]
          /\ copy'[d] = copy[d] /\ mine'[d] = mine[d] /\ before'[d] = before[d]
          /\ (d \in unread <=> d \in unread')
    BY <1>0, <1>4 DEF TokenTypeOK, ReplaceCache, AfterStore, Own, Empty
  <2>2. tries' \in [Commands -> 0..MaxTries]
    BY <1>0, <1>4 DEF TokenTypeOK, InHand, ReplaceCache, AfterStore, Own, Empty
  <2>3. /\ saved' \in CacheFiles /\ meant' \in CacheFiles /\ copy' \in [Commands -> CacheFiles]
        /\ owner' \in [Sessions -> Hotkeys \cup {NoHotkey}]
        /\ mine' \in [Commands -> 0..MaxSessions]
    <3>1. saved' \in CacheFiles /\ meant' \in CacheFiles
      BY <1>0, <1>4 DEF TokenTypeOK, CacheFiles, ReplaceCache, AfterStore, Own, Empty
    <3>2. copy' \in [Commands -> CacheFiles]
      BY <1>0, <1>4 DEF TokenTypeOK, CacheFiles, ReplaceCache, AfterStore, Own, Empty
    <3>3. owner' \in [Sessions -> Hotkeys \cup {NoHotkey}]
      BY <1>0, <1>4 DEF TokenTypeOK, ReplaceCache, AfterStore, Own, Empty
    <3>4. mine' \in [Commands -> 0..MaxSessions]
      BY <1>0, <1>a, <1>4 DEF TokenTypeOK, ReplaceCache, AfterStore, Own, Empty
    <3> QED
      BY <3>1, <3>2, <3>3, <3>4
  <2>4. /\ ended' \subseteq Sessions /\ unread' \subseteq Commands
        /\ before' \in [Commands -> SUBSET Sessions]
        /\ hotkeyOf' \in [Commands -> Hotkeys]
        /\ task' \in [Commands -> {"login", "force", "logout", "email", "address"}]
        /\ doing' \in [Commands -> {"start", "lock", "read", "replace", "check", "sign", "set"} \cup Finished]
        /\ call' \in [Commands -> {"load", "save", "clear"}]
    BY <1>0, <1>4 DEF TokenTypeOK, Finished, Issued, ReplaceCache, AfterStore, Own, Empty
  <2>5. holder' \in Commands \cup {NoCommand}
        /\ \A d \in Commands : doing'[d] \in {"read", "replace"} <=> holder' = d
    BY <1>0, <1>4 DEF TokenTypeOK, Finished, ReplaceCache, AfterStore, Own, Empty
  <2>6. EndedWereIssued'
    BY <1>0, <1>4 DEF TokenTypeOK, EndedWereIssued, Issued, ReplaceCache, AfterStore, Own, Empty
  <2>7. CacheIsLastWord' /\ CopyIsCurrent'
    BY <1>0, <1>4, <2>1 DEF TokenTypeOK, SessionsAreKept, CacheIsLastWord, CopyIsCurrent,
         CacheFiles, ReplaceCache, AfterStore, Own, Empty
  <2>8. InHand(c)'
    BY <1>0, <1>a, <1>4, <2>2 DEF TokenTypeOK, EndedWereIssued, InHand, InStore, Issued,
         ReplaceCache, AfterStore, Own, Empty
  <2>9. c \notin unread' => Signed(c)'
    BY <1>0, <1>4 DEF TokenTypeOK, EndedWereIssued, InHand, InStore, Signed, ReplaceCache,
         AfterStore, Own, Empty
  <2>10. SignInIsLive' /\ \A d \in Commands : InHand(d)'
    BY <1>0, <2>1, <2>8, <2>9 DEF SessionsAreKept, SignInIsLive, InHand, Signed
  <2>11. TokenTypeOK'
    BY <2>2, <2>3, <2>4, <2>5 DEF TokenTypeOK
  <2> QED
    BY <2>6, <2>7, <2>10, <2>11 DEF CacheInv, SessionsAreKept
<1>5. ASSUME NEW c \in Commands, CheckSession(c) PROVE CacheInv'
  <2>1. \A d \in Commands \ {c} :
          /\ doing'[d] = doing[d] /\ call'[d] = call[d] /\ tries'[d] = tries[d]
          /\ task'[d] = task[d]
          /\ copy'[d] = copy[d] /\ mine'[d] = mine[d] /\ before'[d] = before[d]
          /\ (d \in unread <=> d \in unread')
    BY <1>0, <1>5 DEF TokenTypeOK, CheckSession
  <2>2. tries' \in [Commands -> 0..MaxTries]
    BY <1>0, <1>5 DEF TokenTypeOK, InHand, CheckSession
  <2>3. /\ saved' \in CacheFiles /\ meant' \in CacheFiles /\ copy' \in [Commands -> CacheFiles]
        /\ owner' \in [Sessions -> Hotkeys \cup {NoHotkey}]
        /\ mine' \in [Commands -> 0..MaxSessions]
    <3>1. saved' \in CacheFiles /\ meant' \in CacheFiles
      BY <1>0, <1>5 DEF TokenTypeOK, CacheFiles, CheckSession
    <3>2. copy' \in [Commands -> CacheFiles]
      BY <1>0, <1>5 DEF TokenTypeOK, CacheFiles, CheckSession
    <3>3. owner' \in [Sessions -> Hotkeys \cup {NoHotkey}]
      BY <1>0, <1>5 DEF TokenTypeOK, CheckSession
    <3>4. mine' \in [Commands -> 0..MaxSessions]
      BY <1>0, <1>a, <1>5 DEF TokenTypeOK, CheckSession
    <3> QED
      BY <3>1, <3>2, <3>3, <3>4
  <2>4. /\ ended' \subseteq Sessions /\ unread' \subseteq Commands
        /\ before' \in [Commands -> SUBSET Sessions]
        /\ hotkeyOf' \in [Commands -> Hotkeys]
        /\ task' \in [Commands -> {"login", "force", "logout", "email", "address"}]
        /\ doing' \in [Commands -> {"start", "lock", "read", "replace", "check", "sign", "set"} \cup Finished]
        /\ call' \in [Commands -> {"load", "save", "clear"}]
    BY <1>0, <1>5 DEF TokenTypeOK, Finished, Issued, CheckSession
  <2>5. holder' \in Commands \cup {NoCommand}
        /\ \A d \in Commands : doing'[d] \in {"read", "replace"} <=> holder' = d
    BY <1>0, <1>5 DEF TokenTypeOK, Finished, CheckSession
  <2>6. EndedWereIssued'
    BY <1>0, <1>5 DEF TokenTypeOK, EndedWereIssued, Issued, CheckSession
  <2>7. CacheIsLastWord' /\ CopyIsCurrent'
    BY <1>0, <1>5, <2>1
         DEF TokenTypeOK, SessionsAreKept, CacheIsLastWord, CopyIsCurrent, CacheFiles, CheckSession
  <2>8. InHand(c)'
    BY <1>0, <1>a, <1>5, <2>2
         DEF TokenTypeOK, EndedWereIssued, InHand, InStore, Issued, CheckSession
  <2>9. c \notin unread' => Signed(c)'
    BY <1>0, <1>5 DEF TokenTypeOK, EndedWereIssued, InHand, InStore, Signed, CheckSession
  <2>10. SignInIsLive' /\ \A d \in Commands : InHand(d)'
    BY <1>0, <2>1, <2>8, <2>9 DEF SessionsAreKept, SignInIsLive, InHand, Signed
  <2>11. TokenTypeOK'
    BY <2>2, <2>3, <2>4, <2>5 DEF TokenTypeOK
  <2> QED
    BY <2>6, <2>7, <2>10, <2>11 DEF CacheInv, SessionsAreKept
<1>6. ASSUME NEW c \in Commands, SignIn(c) PROVE CacheInv'
  <2>1. \A d \in Commands \ {c} :
          /\ doing'[d] = doing[d] /\ call'[d] = call[d] /\ tries'[d] = tries[d]
          /\ task'[d] = task[d]
          /\ copy'[d] = copy[d] /\ mine'[d] = mine[d] /\ before'[d] = before[d]
          /\ (d \in unread <=> d \in unread')
    BY <1>0, <1>6 DEF TokenTypeOK, SignIn, NewSession
  <2>2. tries' \in [Commands -> 0..MaxTries]
    BY <1>0, <1>6 DEF TokenTypeOK, InHand, SignIn, NewSession
  <2>3. /\ saved' \in CacheFiles /\ meant' \in CacheFiles /\ copy' \in [Commands -> CacheFiles]
        /\ owner' \in [Sessions -> Hotkeys \cup {NoHotkey}]
        /\ mine' \in [Commands -> 0..MaxSessions]
    <3>1. saved' \in CacheFiles /\ meant' \in CacheFiles
      BY <1>0, <1>6 DEF TokenTypeOK, CacheFiles, SignIn, NewSession
    <3>2. copy' \in [Commands -> CacheFiles]
      BY <1>0, <1>6 DEF TokenTypeOK, CacheFiles, SignIn, NewSession
    <3>3. owner' \in [Sessions -> Hotkeys \cup {NoHotkey}]
      BY <1>0, <1>6 DEF TokenTypeOK, SignIn, NewSession
    <3>4. mine' \in [Commands -> 0..MaxSessions]
      BY <1>0, <1>a, <1>6 DEF TokenTypeOK, SignIn, NewSession
    <3> QED
      BY <3>1, <3>2, <3>3, <3>4
  <2>4. /\ ended' \subseteq Sessions /\ unread' \subseteq Commands
        /\ before' \in [Commands -> SUBSET Sessions]
        /\ hotkeyOf' \in [Commands -> Hotkeys]
        /\ task' \in [Commands -> {"login", "force", "logout", "email", "address"}]
        /\ doing' \in [Commands -> {"start", "lock", "read", "replace", "check", "sign", "set"} \cup Finished]
        /\ call' \in [Commands -> {"load", "save", "clear"}]
    BY <1>0, <1>6 DEF TokenTypeOK, Finished, Issued, SignIn, NewSession
  <2>5. holder' \in Commands \cup {NoCommand}
        /\ \A d \in Commands : doing'[d] \in {"read", "replace"} <=> holder' = d
    BY <1>0, <1>6 DEF TokenTypeOK, Finished, SignIn, NewSession
  <2>6. EndedWereIssued'
    BY <1>0, <1>6 DEF TokenTypeOK, EndedWereIssued, Issued, SignIn, NewSession
  <2>7. CacheIsLastWord' /\ CopyIsCurrent'
    BY <1>0, <1>6, <2>1, SMTT(20)
       DEF TokenTypeOK, SessionsAreKept, CacheIsLastWord, CopyIsCurrent, CacheFiles, SignIn,
           NewSession
  <2>8. InHand(c)'
    BY <1>0, <1>a, <1>6, <2>2
         DEF TokenTypeOK, EndedWereIssued, InHand, InStore, Issued, SignIn, NewSession
  <2>9. c \notin unread' => Signed(c)'
    BY <1>0, <1>6 DEF TokenTypeOK, EndedWereIssued, InHand, InStore, Signed, SignIn, NewSession
  <2>10. SignInIsLive' /\ \A d \in Commands : InHand(d)'
    BY <1>0, <2>1, <2>8, <2>9 DEF SessionsAreKept, SignInIsLive, InHand, Signed
  <2>11. TokenTypeOK'
    BY <2>2, <2>3, <2>4, <2>5 DEF TokenTypeOK
  <2> QED
    BY <2>6, <2>7, <2>10, <2>11 DEF CacheInv, SessionsAreKept
<1>7. ASSUME NEW c \in Commands, SetEmail(c) PROVE CacheInv'
  <2>1. \A d \in Commands \ {c} :
          /\ doing'[d] = doing[d] /\ call'[d] = call[d] /\ tries'[d] = tries[d]
          /\ task'[d] = task[d]
          /\ copy'[d] = copy[d] /\ mine'[d] = mine[d] /\ before'[d] = before[d]
          /\ (d \in unread <=> d \in unread')
    BY <1>0, <1>7 DEF TokenTypeOK, SetEmail, NewSession
  <2>2. tries' \in [Commands -> 0..MaxTries]
    BY <1>0, <1>7 DEF TokenTypeOK, InHand, SetEmail, NewSession
  <2>3. /\ saved' \in CacheFiles /\ meant' \in CacheFiles /\ copy' \in [Commands -> CacheFiles]
        /\ owner' \in [Sessions -> Hotkeys \cup {NoHotkey}]
        /\ mine' \in [Commands -> 0..MaxSessions]
    <3>1. saved' \in CacheFiles /\ meant' \in CacheFiles
      BY <1>0, <1>7 DEF TokenTypeOK, CacheFiles, SetEmail, NewSession
    <3>2. copy' \in [Commands -> CacheFiles]
      BY <1>0, <1>7 DEF TokenTypeOK, CacheFiles, SetEmail, NewSession
    <3>3. owner' \in [Sessions -> Hotkeys \cup {NoHotkey}]
      BY <1>0, <1>7 DEF TokenTypeOK, SetEmail, NewSession
    <3>4. mine' \in [Commands -> 0..MaxSessions]
      BY <1>0, <1>a, <1>7 DEF TokenTypeOK, SetEmail, NewSession
    <3> QED
      BY <3>1, <3>2, <3>3, <3>4
  <2>4. /\ ended' \subseteq Sessions /\ unread' \subseteq Commands
        /\ before' \in [Commands -> SUBSET Sessions]
        /\ hotkeyOf' \in [Commands -> Hotkeys]
        /\ task' \in [Commands -> {"login", "force", "logout", "email", "address"}]
        /\ doing' \in [Commands -> {"start", "lock", "read", "replace", "check", "sign", "set"} \cup Finished]
        /\ call' \in [Commands -> {"load", "save", "clear"}]
    BY <1>0, <1>7 DEF TokenTypeOK, Finished, Issued, SetEmail, NewSession
  <2>5. holder' \in Commands \cup {NoCommand}
        /\ \A d \in Commands : doing'[d] \in {"read", "replace"} <=> holder' = d
    BY <1>0, <1>7 DEF TokenTypeOK, Finished, SetEmail, NewSession
  <2>6. EndedWereIssued'
    BY <1>0, <1>7 DEF TokenTypeOK, EndedWereIssued, Issued, SetEmail, NewSession
  <2>7. CacheIsLastWord' /\ CopyIsCurrent'
    BY <1>0, <1>7, <2>1 DEF TokenTypeOK, SessionsAreKept, CacheIsLastWord, CopyIsCurrent,
         CacheFiles, SetEmail, NewSession
  <2>8. InHand(c)'
    BY <1>0, <1>a, <1>7, <2>2
         DEF TokenTypeOK, EndedWereIssued, InHand, InStore, Issued, SetEmail, NewSession
  <2>9. c \notin unread' => Signed(c)'
    BY <1>0, <1>7 DEF TokenTypeOK, EndedWereIssued, InHand, InStore, Signed, SetEmail, NewSession
  <2>10. SignInIsLive' /\ \A d \in Commands : InHand(d)'
    BY <1>0, <2>1, <2>8, <2>9 DEF SessionsAreKept, SignInIsLive, InHand, Signed
  <2>11. TokenTypeOK'
    BY <2>2, <2>3, <2>4, <2>5 DEF TokenTypeOK
  <2> QED
    BY <2>6, <2>7, <2>10, <2>11 DEF CacheInv, SessionsAreKept
<1>8. ASSUME NEW c \in Commands, CommandKilled(c) PROVE CacheInv'
  <2>1. \A d \in Commands \ {c} :
          /\ doing'[d] = doing[d] /\ call'[d] = call[d] /\ tries'[d] = tries[d]
          /\ task'[d] = task[d]
          /\ copy'[d] = copy[d] /\ mine'[d] = mine[d] /\ before'[d] = before[d]
          /\ (d \in unread <=> d \in unread')
    BY <1>0, <1>8 DEF TokenTypeOK, CommandKilled, Empty
  <2>2. tries' \in [Commands -> 0..MaxTries]
    BY <1>0, <1>8 DEF TokenTypeOK, InHand, CommandKilled, Empty
  <2>3. /\ saved' \in CacheFiles /\ meant' \in CacheFiles /\ copy' \in [Commands -> CacheFiles]
        /\ owner' \in [Sessions -> Hotkeys \cup {NoHotkey}]
        /\ mine' \in [Commands -> 0..MaxSessions]
    <3>1. saved' \in CacheFiles /\ meant' \in CacheFiles
      BY <1>0, <1>8 DEF TokenTypeOK, CacheFiles, CommandKilled, Empty
    <3>2. copy' \in [Commands -> CacheFiles]
      BY <1>0, <1>8 DEF TokenTypeOK, CacheFiles, CommandKilled, Empty
    <3>3. owner' \in [Sessions -> Hotkeys \cup {NoHotkey}]
      BY <1>0, <1>8 DEF TokenTypeOK, CommandKilled, Empty
    <3>4. mine' \in [Commands -> 0..MaxSessions]
      BY <1>0, <1>a, <1>8 DEF TokenTypeOK, CommandKilled, Empty
    <3> QED
      BY <3>1, <3>2, <3>3, <3>4
  <2>4. /\ ended' \subseteq Sessions /\ unread' \subseteq Commands
        /\ before' \in [Commands -> SUBSET Sessions]
        /\ hotkeyOf' \in [Commands -> Hotkeys]
        /\ task' \in [Commands -> {"login", "force", "logout", "email", "address"}]
        /\ doing' \in [Commands -> {"start", "lock", "read", "replace", "check", "sign", "set"} \cup Finished]
        /\ call' \in [Commands -> {"load", "save", "clear"}]
    BY <1>0, <1>8 DEF TokenTypeOK, Finished, Issued, CommandKilled, Empty
  <2>5. holder' \in Commands \cup {NoCommand}
        /\ \A d \in Commands : doing'[d] \in {"read", "replace"} <=> holder' = d
    BY <1>0, <1>8 DEF TokenTypeOK, Finished, CommandKilled, Empty
  <2>6. EndedWereIssued'
    BY <1>0, <1>8 DEF TokenTypeOK, EndedWereIssued, Issued, CommandKilled, Empty
  <2>7. CacheIsLastWord' /\ CopyIsCurrent'
    BY <1>0, <1>8, <2>1 DEF TokenTypeOK, SessionsAreKept, CacheIsLastWord, CopyIsCurrent,
         CacheFiles, CommandKilled, Empty
  <2>8. InHand(c)'
    BY <1>0, <1>a, <1>8, <2>2
         DEF TokenTypeOK, EndedWereIssued, InHand, InStore, Issued, CommandKilled, Empty
  <2>9. c \notin unread' => Signed(c)'
    BY <1>0, <1>8 DEF TokenTypeOK, EndedWereIssued, InHand, InStore, Signed, CommandKilled, Empty
  <2>10. SignInIsLive' /\ \A d \in Commands : InHand(d)'
    BY <1>0, <2>1, <2>8, <2>9 DEF SessionsAreKept, SignInIsLive, InHand, Signed
  <2>11. TokenTypeOK'
    BY <2>2, <2>3, <2>4, <2>5 DEF TokenTypeOK
  <2> QED
    BY <2>6, <2>7, <2>10, <2>11 DEF CacheInv, SessionsAreKept
<1>9. CASE SessionEnds \/ UNCHANGED cacheVars
  <2>1. /\ UNCHANGED <<saved, holder, owner, hotkeyOf, task, doing, call, copy, mine, tries, meant, before, unread>>
        /\ ended \subseteq ended' /\ ended' \subseteq Issued
    BY <1>0, <1>9 DEF SessionEnds, cacheVars, EndedWereIssued
  <2>2. TokenTypeOK'
    BY <1>0, <2>1 DEF TokenTypeOK, Issued
  <2>3. SessionsAreKept' /\ EndedWereIssued' /\ CopyIsCurrent' /\ \A c \in Commands : InHand(c)'
    BY <1>0, <2>1
    DEF SessionsAreKept, CacheIsLastWord, SignInIsLive, EndedWereIssued, Issued, CopyIsCurrent,
        InHand
  <2> QED
    BY <2>2, <2>3 DEF CacheInv
<1> QED
  BY <1>1, <1>2, <1>3, <1>4, <1>5, <1>6, <1>7, <1>8, <1>9 DEF CacheNext

(* Any number of processes and accounts: the cache is what the completed   *)
(* calls have left, wherever a process is killed, and a sign-in that       *)
(* succeeds has a session that was live when it began (token_store.py,     *)
(* login).                                                                 *)
THEOREM SessionsStayKept == CacheSpec => []SessionsAreKept
<1>1. CacheSpec => []CacheInv
  BY CacheInitInv, CacheNextInv, PTL DEF CacheSpec
<1>2. CacheInv => SessionsAreKept
  BY DEF CacheInv
<1> QED
  BY <1>1, <1>2, PTL

-----------------------------------------------------------------------------
(* The update of the installation (SelfUpdate).                            *)

(* The lock file is that of the launch that updates.                       *)
UpdaterHasLock == \A l \in Launches : Updating(l) => lock = l

(* No version is newer than the latest one, and what a launch installs is  *)
(* no older than what is live.                                             *)
NoneIsNewer == link <= latest /\ \A l \in Launches : new[l] <= latest
Installing == {"download", "clear", "extract", "remove", "removing", "swap", "switch"}
InstallsFor(l) ==
  /\ pc[l] \in Installing => new[l] > cur[l] /\ new[l] >= link
  /\ pc[l] = "clean" => new[l] = link
InstallsNewer == \A l \in Launches : Updating(l) => InstallsFor(l)

(* It is staged whole, never over the live bundle, and whole before the    *)
(* link is switched.                                                       *)
StagedFor(l) ==
  /\ pc[l] \in {"remove", "removing", "swap"} => staging[new[l]] = "whole"
  /\ pc[l] \in {"removing", "swap"} /\ ~reinstalled => new[l] # link
  /\ pc[l] = "switch" => bundle[new[l]] = "whole"
StagedWhole == \A l \in Launches : Updating(l) => StagedFor(l)

UpdateInv ==
  /\ UpdateTypeOK /\ UpdateIsSafe /\ NoneIsNewer
  /\ ~stolen => UpdaterHasLock /\ InstallsNewer /\ StagedWhole

UpdateFlags == old \in BOOLEAN /\ fresh \in BOOLEAN /\ stolen \in BOOLEAN /\ reinstalled \in BOOLEAN

LEMMA UpdateFlagsInit == UpdateInit => UpdateFlags
  BY Zenon DEF UpdateInit, UpdateFlags

LEMMA UpdateFlagsNext == UpdateTypeOK /\ [UpdateNext]_updateVars => UpdateFlags'
<1> USE DEF UpdateTypeOK, UpdateFlags, KeepsFiles, KeepsRest, updateFiles, Unlink
<1>1. ASSUME NEW l \in Launches, UpdateTypeOK,
             \/ UnlinkStale(l) \/ TurnedAway(l) \/ ReleaseLock(l) \/ OpenLock(l) \/ WriteState(l)
      PROVE UpdateFlags'
  BY <1>1, Zenon DEF UnlinkStale, TurnedAway, ReleaseLock, OpenLock, WriteState
<1>2. ASSUME NEW l \in Launches, UpdateTypeOK,
             \/ Discover(l) \/ LockExists(l) \/ LockAge(l) \/ Resolve(l) \/ Download(l)
                \/ ClearStaging(l)
             \/ Extract(l) \/ BundleRemoved(l) \/ Swap(l) \/ Unstage(l) \/ SwitchLink(l)
                \/ CleanUp(l)
             \/ Killed(l)
      PROVE UpdateFlags'
  BY <1>2, Zenon
  DEF Discover, LockExists, LockAge, Resolve, Download, ClearStaging, Extract, BundleRemoved, Swap,
      Unstage, SwitchLink, CleanUp, Killed
<1>3. ASSUME NEW l \in Launches, UpdateTypeOK, RemoveBundle(l) PROVE UpdateFlags'
  BY <1>3, Zenon DEF RemoveBundle
<1>4. UpdateTypeOK /\ (Publish \/ HourPasses \/ DayPasses \/ UNCHANGED updateVars) => UpdateFlags'
  BY Zenon DEF Publish, HourPasses, DayPasses, updateVars
<1> QED
  BY <1>1, <1>2, <1>3, <1>4, Zenon DEF UpdateNext, LaunchStep

LEMMA UpdateInitInv == UpdateInit => UpdateInv
  BY UpdateAssumption, UpdateFlagsInit
  DEF UpdateFlags, UpdateInit, UpdateInv, UpdateTypeOK, UpdateIsSafe, OneUpdater, LiveBundleWhole,
      UpdaterHasLock, NoneIsNewer, InstallsNewer, StagedWhole, Updating, Installing, Holding, Steps,
      Versions

(* Which steps are taken under the lock.                                   *)
LEMMA HoldingSteps ==
  /\ Holding \subseteq Steps
  /\ {"resolve", "download", "clear", "extract", "remove", "removing", "swap", "switch", "clean",
      "unstage", "write", "release"} \subseteq Holding
  /\ {"discover", "exists", "stat", "stale", "open", "away", "done"} \subseteq Steps \ Holding
  BY DEF Holding, Steps

LEMMA MishapsNext == UpdateTypeOK /\ [UpdateNext]_updateVars => mishaps' \in 0..MaxMishaps
<1> SUFFICES ASSUME UpdateTypeOK, [UpdateNext]_updateVars PROVE mishaps' \in 0..MaxMishaps
  OBVIOUS
<1>1. mishaps \in 0..MaxMishaps /\ MaxMishaps \in Nat
  BY UpdateAssumption DEF UpdateTypeOK
<1>2. UNCHANGED mishaps \/ Mishap
  BY DEF UpdateNext, LaunchStep, updateVars, Fails, Discover, LockExists, LockAge, UnlinkStale,
       OpenLock,
         TurnedAway, Resolve, Download, ClearStaging, Extract, RemoveBundle, BundleRemoved, Swap,
         Unstage,
         SwitchLink, CleanUp, WriteState, ReleaseLock, Killed, Publish, HourPasses, DayPasses
<1> QED
  BY <1>1, <1>2 DEF Mishap

LEMMA UpdateTypeNext == UpdateTypeOK /\ [UpdateNext]_updateVars => UpdateTypeOK'
<1> SUFFICES ASSUME UpdateTypeOK, [UpdateNext]_updateVars PROVE UpdateTypeOK'
  OBVIOUS
<1>0. UpdateFlags' /\ mishaps' \in 0..MaxMishaps
  BY UpdateFlagsNext, MishapsNext
<1> USE UpdateAssumption, <1>0, HoldingSteps
    DEF UpdateFlags, UpdateTypeOK, Versions,
        At, To, Mishap, Fails, KeepsFiles, KeepsRest, updateFiles
<1>1. ASSUME NEW l \in Launches, Discover(l) PROVE UpdateTypeOK'
  BY <1>1 DEF Discover
<1>2. ASSUME NEW l \in Launches, LockExists(l) PROVE UpdateTypeOK'
  BY <1>2 DEF LockExists
<1>3. ASSUME NEW l \in Launches, LockAge(l) PROVE UpdateTypeOK'
  BY <1>3 DEF LockAge
<1>4. ASSUME NEW l \in Launches, UnlinkStale(l) PROVE UpdateTypeOK'
  BY <1>4 DEF UnlinkStale, Unlink
<1>5. ASSUME NEW l \in Launches, OpenLock(l) PROVE UpdateTypeOK'
  <2>1. \A k \in Launches : lock' = k => pc'[k] \in Holding
    BY <1>5 DEF OpenLock
  <2>2. pc' \in [Launches -> Steps] /\ new' \in [Launches -> Versions] /\ link' \in Versions
    BY <1>5 DEF OpenLock
  <2> QED
    BY <1>5, <2>1, <2>2 DEF OpenLock
<1>6. ASSUME NEW l \in Launches, TurnedAway(l) PROVE UpdateTypeOK'
  BY <1>6 DEF TurnedAway, Unlink
<1>7. ASSUME NEW l \in Launches, Resolve(l) PROVE UpdateTypeOK'
  <2>1. pc' \in {[pc EXCEPT ![l] = "download"], [pc EXCEPT ![l] = "write"]} /\ pc[l] \in Holding
    BY <1>7 DEF Resolve
  <2>2. new' \in [Launches -> Versions]
    BY <1>7 DEF Resolve
  <2>3. pc' \in [Launches -> Steps] /\ \A k \in Launches : lock = k => pc'[k] \in Holding
    BY <2>1
  <2> QED
    BY <1>7, <2>2, <2>3 DEF Resolve
<1>8. ASSUME NEW l \in Launches, Download(l) PROVE UpdateTypeOK'
  BY <1>8 DEF Download
<1>9. ASSUME NEW l \in Launches, ClearStaging(l) PROVE UpdateTypeOK'
  BY <1>9 DEF ClearStaging
<1>10. ASSUME NEW l \in Launches, Extract(l) PROVE UpdateTypeOK'
  BY <1>10 DEF Extract
<1>11. ASSUME NEW l \in Launches, RemoveBundle(l) PROVE UpdateTypeOK'
  <2>1. pc' \in {[pc EXCEPT ![l] = "swap"], [pc EXCEPT ![l] = "removing"]}
    BY <1>11 DEF RemoveBundle
  <2>2. bundle' \in [Versions -> {"none", "torn", "whole"}]
    BY <1>11 DEF RemoveBundle
  <2>3. pc' \in [Launches -> Steps] /\ \A k \in Launches : lock = k => pc'[k] \in Holding
    BY <2>1
  <2> QED
    BY <1>11, <2>2, <2>3 DEF RemoveBundle
<1>12. ASSUME NEW l \in Launches, BundleRemoved(l) PROVE UpdateTypeOK'
  BY <1>12 DEF BundleRemoved
<1>13. ASSUME NEW l \in Launches, Swap(l) PROVE UpdateTypeOK'
  <2>1. pc' \in {[pc EXCEPT ![l] = "switch"], [pc EXCEPT ![l] = "unstage"]}
    BY <1>13 DEF Swap
  <2>2. bundle' \in [Versions -> {"none", "torn", "whole"}]
    BY <1>13 DEF Swap
  <2>3. staging' \in [Versions -> {"none", "part", "whole"}]
    BY <1>13 DEF Swap
  <2>4. pc' \in [Launches -> Steps] /\ \A k \in Launches : lock = k => pc'[k] \in Holding
    BY <2>1
  <2> QED
    BY <1>13, <2>2, <2>3, <2>4 DEF Swap
<1>14. ASSUME NEW l \in Launches, Unstage(l) PROVE UpdateTypeOK'
  BY <1>14 DEF Unstage
<1>15. ASSUME NEW l \in Launches, SwitchLink(l) PROVE UpdateTypeOK'
  <2>1. \A k \in Launches : lock' = k => pc'[k] \in Holding
    BY <1>15 DEF SwitchLink
  <2>2. pc' \in [Launches -> Steps] /\ new' \in [Launches -> Versions] /\ link' \in Versions
    BY <1>15 DEF SwitchLink
  <2> QED
    BY <1>15, <2>1, <2>2 DEF SwitchLink
<1>16. ASSUME NEW l \in Launches, CleanUp(l) PROVE UpdateTypeOK'
  BY <1>16 DEF CleanUp
<1>17. ASSUME NEW l \in Launches, WriteState(l) PROVE UpdateTypeOK'
  BY <1>17 DEF WriteState
<1>18. ASSUME NEW l \in Launches, ReleaseLock(l) PROVE UpdateTypeOK'
  BY <1>18 DEF ReleaseLock, Unlink
<1>19. ASSUME NEW l \in Launches, Killed(l) PROVE UpdateTypeOK'
  BY <1>19 DEF Killed
<1>20. CASE Publish
  BY <1>20 DEF Publish
<1>21. CASE HourPasses
  BY <1>21 DEF HourPasses
<1>22. CASE DayPasses
  BY <1>22 DEF DayPasses
<1>23. CASE UNCHANGED updateVars
  BY <1>23 DEF updateVars
<1> QED
  BY <1>1, <1>2, <1>3, <1>4, <1>5, <1>6, <1>7, <1>8, <1>9, <1>10, <1>11, <1>12, <1>13, <1>14,
       <1>15, <1>16, <1>17, <1>18, <1>19, <1>20, <1>21, <1>22, <1>23
  DEF UpdateNext, LaunchStep

UpdateKept ==
  /\ NoneIsNewer' /\ (~stolen => link' >= link) /\ LiveBundleWhole'
  /\ ~stolen' => UpdaterHasLock' /\ InstallsNewer' /\ StagedWhole'

(* Every step keeps the invariant, and takes the link to no older version. *)
LEMMA UpdateNextInv ==
  UpdateInv /\ [UpdateNext]_updateVars => UpdateInv' /\ (~stolen => link' >= link)
<1> SUFFICES ASSUME UpdateInv, [UpdateNext]_updateVars
             PROVE UpdateInv' /\ (~stolen => link' >= link)
  OBVIOUS
<1>0. UpdateTypeOK'
  BY UpdateTypeNext DEF UpdateInv
<1> USE DEF At, To, Mishap, KeepsFiles, KeepsRest, updateFiles
<1>1. ASSUME NEW l \in Launches, Discover(l) PROVE UpdateKept
  <2>1. NoneIsNewer' /\ (~stolen => link' >= link)
    BY <1>1 DEF UpdateInv, UpdateTypeOK, NoneIsNewer, InstallsNewer, InstallsFor, Updating,
         Installing, Holding, Versions, Discover
  <2>2. ~stolen' => UpdaterHasLock'
    BY <1>1, UpdateAssumption, HoldingSteps
         DEF UpdateInv, UpdateTypeOK, UpdaterHasLock, Updating, Discover
  <2>3. ~stolen' => InstallsNewer'
    BY <1>1 DEF UpdateInv, UpdateTypeOK, NoneIsNewer, InstallsNewer, InstallsFor, Updating,
         Installing, Holding, Versions, Discover
  <2>4. ~stolen' => StagedWhole'
    BY <1>1
         DEF UpdateInv, UpdateTypeOK, StagedWhole, StagedFor, Updating, Holding, Versions, Discover
  <2>5. LiveBundleWhole'
    BY <1>1 DEF UpdateInv, UpdateTypeOK, UpdateIsSafe, LiveBundleWhole, InstallsNewer, InstallsFor,
         StagedWhole, StagedFor, Updating, Installing, Holding, Versions, Discover
  <2> QED
    BY <2>1, <2>2, <2>3, <2>4, <2>5 DEF UpdateKept
<1>2. ASSUME NEW l \in Launches, LockExists(l) PROVE UpdateKept
  <2>1. NoneIsNewer' /\ (~stolen => link' >= link)
    BY <1>2 DEF UpdateInv, UpdateTypeOK, NoneIsNewer, InstallsNewer, InstallsFor, Updating,
         Installing, Holding, Versions, LockExists
  <2>2. ~stolen' => UpdaterHasLock'
    BY <1>2, UpdateAssumption, HoldingSteps
         DEF UpdateInv, UpdateTypeOK, UpdaterHasLock, Updating, LockExists
  <2>3. ~stolen' => InstallsNewer'
    BY <1>2 DEF UpdateInv, UpdateTypeOK, NoneIsNewer, InstallsNewer, InstallsFor, Updating,
         Installing, Holding, Versions, LockExists
  <2>4. ~stolen' => StagedWhole'
    BY <1>2 DEF UpdateInv, UpdateTypeOK, StagedWhole, StagedFor, Updating, Holding, Versions,
         LockExists
  <2>5. LiveBundleWhole'
    BY <1>2 DEF UpdateInv, UpdateTypeOK, UpdateIsSafe, LiveBundleWhole, InstallsNewer, InstallsFor,
         StagedWhole, StagedFor, Updating, Installing, Holding, Versions, LockExists
  <2> QED
    BY <2>1, <2>2, <2>3, <2>4, <2>5 DEF UpdateKept
<1>3. ASSUME NEW l \in Launches, LockAge(l) PROVE UpdateKept
  <2>1. NoneIsNewer' /\ (~stolen => link' >= link)
    BY <1>3 DEF UpdateInv, UpdateTypeOK, NoneIsNewer, InstallsNewer, InstallsFor, Updating,
         Installing, Holding, Versions, LockAge
  <2>2. ~stolen' => UpdaterHasLock'
    BY <1>3, UpdateAssumption, HoldingSteps
         DEF UpdateInv, UpdateTypeOK, UpdaterHasLock, Updating, LockAge
  <2>3. ~stolen' => InstallsNewer'
    BY <1>3 DEF UpdateInv, UpdateTypeOK, NoneIsNewer, InstallsNewer, InstallsFor, Updating,
         Installing, Holding, Versions, LockAge
  <2>4. ~stolen' => StagedWhole'
    BY <1>3
         DEF UpdateInv, UpdateTypeOK, StagedWhole, StagedFor, Updating, Holding, Versions, LockAge
  <2>5. LiveBundleWhole'
    BY <1>3 DEF UpdateInv, UpdateTypeOK, UpdateIsSafe, LiveBundleWhole, InstallsNewer, InstallsFor,
         StagedWhole, StagedFor, Updating, Installing, Holding, Versions, LockAge
  <2> QED
    BY <2>1, <2>2, <2>3, <2>4, <2>5 DEF UpdateKept
<1>4. ASSUME NEW l \in Launches, UnlinkStale(l) PROVE UpdateKept
  <2>1. NoneIsNewer' /\ (~stolen => link' >= link)
    BY <1>4 DEF UpdateInv, UpdateTypeOK, NoneIsNewer, InstallsNewer, InstallsFor, Updating,
         Installing, Holding, Versions, UnlinkStale, Unlink
  <2>2. ~stolen' => UpdaterHasLock'
    BY <1>4, UpdateAssumption, HoldingSteps
         DEF UpdateInv, UpdateTypeOK, UpdaterHasLock, Updating, UnlinkStale, Unlink
  <2>3. ~stolen' => InstallsNewer'
    BY <1>4 DEF UpdateInv, UpdateTypeOK, NoneIsNewer, InstallsNewer, InstallsFor, Updating,
         Installing, Holding, Versions, UnlinkStale, Unlink
  <2>4. ~stolen' => StagedWhole'
    BY <1>4 DEF UpdateInv, UpdateTypeOK, StagedWhole, StagedFor, Updating, Holding, Versions,
         UnlinkStale, Unlink
  <2>5. LiveBundleWhole'
    BY <1>4 DEF UpdateInv, UpdateTypeOK, UpdateIsSafe, LiveBundleWhole, InstallsNewer, InstallsFor,
         StagedWhole, StagedFor, Updating, Installing, Holding, Versions, UnlinkStale, Unlink
  <2> QED
    BY <2>1, <2>2, <2>3, <2>4, <2>5 DEF UpdateKept
<1>5. ASSUME NEW l \in Launches, OpenLock(l) PROVE UpdateKept
  <2>1. NoneIsNewer' /\ (~stolen => link' >= link)
    BY <1>5 DEF UpdateInv, UpdateTypeOK, NoneIsNewer, InstallsNewer, InstallsFor, Updating,
         Installing, Holding, Versions, OpenLock
  <2>2. ~stolen' => UpdaterHasLock'
    BY <1>5, UpdateAssumption, HoldingSteps
         DEF UpdateInv, UpdateTypeOK, UpdaterHasLock, Updating, OpenLock
  <2>3. ~stolen' => InstallsNewer'
    BY <1>5 DEF UpdateInv, UpdateTypeOK, NoneIsNewer, InstallsNewer, InstallsFor, Updating,
         Installing, Holding, Versions, OpenLock
  <2>4. ~stolen' => StagedWhole'
    BY <1>5
         DEF UpdateInv, UpdateTypeOK, StagedWhole, StagedFor, Updating, Holding, Versions, OpenLock
  <2>5. LiveBundleWhole'
    BY <1>5 DEF UpdateInv, UpdateTypeOK, UpdateIsSafe, LiveBundleWhole, InstallsNewer, InstallsFor,
         StagedWhole, StagedFor, Updating, Installing, Holding, Versions, OpenLock
  <2> QED
    BY <2>1, <2>2, <2>3, <2>4, <2>5 DEF UpdateKept
<1>6. ASSUME NEW l \in Launches, TurnedAway(l) PROVE UpdateKept
  <2>1. NoneIsNewer' /\ (~stolen => link' >= link)
    BY <1>6 DEF UpdateInv, UpdateTypeOK, NoneIsNewer, InstallsNewer, InstallsFor, Updating,
         Installing, Holding, Versions, TurnedAway, Unlink
  <2>2. ~stolen' => UpdaterHasLock'
    BY <1>6, UpdateAssumption, HoldingSteps
         DEF UpdateInv, UpdateTypeOK, UpdaterHasLock, Updating, TurnedAway, Unlink
  <2>3. ~stolen' => InstallsNewer'
    BY <1>6 DEF UpdateInv, UpdateTypeOK, NoneIsNewer, InstallsNewer, InstallsFor, Updating,
         Installing, Holding, Versions, TurnedAway, Unlink
  <2>4. ~stolen' => StagedWhole'
    BY <1>6 DEF UpdateInv, UpdateTypeOK, StagedWhole, StagedFor, Updating, Holding, Versions,
         TurnedAway, Unlink
  <2>5. LiveBundleWhole'
    BY <1>6 DEF UpdateInv, UpdateTypeOK, UpdateIsSafe, LiveBundleWhole, InstallsNewer, InstallsFor,
         StagedWhole, StagedFor, Updating, Installing, Holding, Versions, TurnedAway, Unlink
  <2> QED
    BY <2>1, <2>2, <2>3, <2>4, <2>5 DEF UpdateKept
<1>7. ASSUME NEW l \in Launches, Resolve(l) PROVE UpdateKept
  <2>0. ~stolen => \A k \in Launches \ {l} : ~Updating(k) /\ ~Updating(k)'
    BY <1>7, HoldingSteps DEF UpdateInv, UpdaterHasLock, UpdateTypeOK, Updating, Resolve
  <2>1. NoneIsNewer' /\ (~stolen => link' >= link)
    BY <1>7, <2>0 DEF UpdateInv, UpdateTypeOK, NoneIsNewer, InstallsNewer, InstallsFor, Updating,
         Installing, Holding, Versions, Resolve
  <2>2. ~stolen' => UpdaterHasLock'
    BY <1>7, UpdateAssumption, HoldingSteps, <2>0
         DEF UpdateInv, UpdateTypeOK, UpdaterHasLock, Updating, Resolve
  <2>3. ~stolen' /\ Updating(l)' => InstallsFor(l)'
    BY <1>7 DEF UpdateInv, UpdateTypeOK, NoneIsNewer, InstallsNewer, InstallsFor, Updating,
         Installing, Holding, Versions, Resolve
  <2>4. ~stolen' /\ Updating(l)' => StagedFor(l)'
    BY <1>7, <2>0 DEF UpdateInv, UpdateTypeOK, UpdateIsSafe, LiveBundleWhole, InstallsNewer,
         InstallsFor, StagedWhole, StagedFor, Updating, Installing, Holding, Versions, Resolve
  <2>5. LiveBundleWhole'
    BY <1>7, <2>0 DEF UpdateInv, UpdateTypeOK, UpdateIsSafe, LiveBundleWhole, InstallsNewer,
         InstallsFor, StagedWhole, StagedFor, Updating, Installing, Holding, Versions, Resolve
  <2>6. stolen => stolen'
    BY <1>7 DEF Resolve
  <2> QED
    BY <2>0, <2>1, <2>2, <2>3, <2>4, <2>5, <2>6 DEF UpdateKept, InstallsNewer, StagedWhole
<1>8. ASSUME NEW l \in Launches, Download(l) PROVE UpdateKept
  <2>0. ~stolen => \A k \in Launches \ {l} : ~Updating(k) /\ ~Updating(k)'
    BY <1>8, HoldingSteps DEF UpdateInv, UpdaterHasLock, UpdateTypeOK, Updating, Download
  <2>1. NoneIsNewer' /\ (~stolen => link' >= link)
    BY <1>8, <2>0 DEF UpdateInv, UpdateTypeOK, NoneIsNewer, InstallsNewer, InstallsFor, Updating,
         Installing, Holding, Versions, Download
  <2>2. ~stolen' => UpdaterHasLock'
    BY <1>8, UpdateAssumption, HoldingSteps, <2>0
         DEF UpdateInv, UpdateTypeOK, UpdaterHasLock, Updating, Download
  <2>3. ~stolen' /\ Updating(l)' => InstallsFor(l)'
    BY <1>8 DEF UpdateInv, UpdateTypeOK, NoneIsNewer, InstallsNewer, InstallsFor, Updating,
         Installing, Holding, Versions, Download
  <2>4. ~stolen' /\ Updating(l)' => StagedFor(l)'
    BY <1>8, <2>0 DEF UpdateInv, UpdateTypeOK, UpdateIsSafe, LiveBundleWhole, InstallsNewer,
         InstallsFor, StagedWhole, StagedFor, Updating, Installing, Holding, Versions, Download
  <2>5. LiveBundleWhole'
    BY <1>8, <2>0 DEF UpdateInv, UpdateTypeOK, UpdateIsSafe, LiveBundleWhole, InstallsNewer,
         InstallsFor, StagedWhole, StagedFor, Updating, Installing, Holding, Versions, Download
  <2>6. stolen => stolen'
    BY <1>8 DEF Download
  <2> QED
    BY <2>0, <2>1, <2>2, <2>3, <2>4, <2>5, <2>6 DEF UpdateKept, InstallsNewer, StagedWhole
<1>9. ASSUME NEW l \in Launches, ClearStaging(l) PROVE UpdateKept
  <2>0. ~stolen => \A k \in Launches \ {l} : ~Updating(k) /\ ~Updating(k)'
    BY <1>9, HoldingSteps DEF UpdateInv, UpdaterHasLock, UpdateTypeOK, Updating, ClearStaging, Fails
  <2>1. NoneIsNewer' /\ (~stolen => link' >= link)
    BY <1>9, <2>0 DEF UpdateInv, UpdateTypeOK, NoneIsNewer, InstallsNewer, InstallsFor, Updating,
         Installing, Holding, Versions, ClearStaging, Fails
  <2>2. ~stolen' => UpdaterHasLock'
    BY <1>9, UpdateAssumption, HoldingSteps, <2>0
         DEF UpdateInv, UpdateTypeOK, UpdaterHasLock, Updating, ClearStaging, Fails
  <2>3. ~stolen' /\ Updating(l)' => InstallsFor(l)'
    BY <1>9 DEF UpdateInv, UpdateTypeOK, NoneIsNewer, InstallsNewer, InstallsFor, Updating,
         Installing, Holding, Versions, ClearStaging, Fails
  <2>4. ~stolen' /\ Updating(l)' => StagedFor(l)'
    BY <1>9, <2>0 DEF UpdateInv, UpdateTypeOK, UpdateIsSafe, LiveBundleWhole, InstallsNewer,
         InstallsFor, StagedWhole, StagedFor, Updating, Installing, Holding, Versions,
         ClearStaging, Fails
  <2>5. LiveBundleWhole'
    BY <1>9, <2>0 DEF UpdateInv, UpdateTypeOK, UpdateIsSafe, LiveBundleWhole, InstallsNewer,
         InstallsFor, StagedWhole, StagedFor, Updating, Installing, Holding, Versions,
         ClearStaging, Fails
  <2>6. stolen => stolen'
    BY <1>9 DEF ClearStaging, Fails
  <2> QED
    BY <2>0, <2>1, <2>2, <2>3, <2>4, <2>5, <2>6 DEF UpdateKept, InstallsNewer, StagedWhole
<1>10. ASSUME NEW l \in Launches, Extract(l) PROVE UpdateKept
  <2>0. ~stolen => \A k \in Launches \ {l} : ~Updating(k) /\ ~Updating(k)'
    BY <1>10, HoldingSteps DEF UpdateInv, UpdaterHasLock, UpdateTypeOK, Updating, Extract, Fails
  <2>1. NoneIsNewer' /\ (~stolen => link' >= link)
    BY <1>10, <2>0 DEF UpdateInv, UpdateTypeOK, NoneIsNewer, InstallsNewer, InstallsFor, Updating,
         Installing, Holding, Versions, Extract, Fails
  <2>2. ~stolen' => UpdaterHasLock'
    BY <1>10, UpdateAssumption, HoldingSteps, <2>0
         DEF UpdateInv, UpdateTypeOK, UpdaterHasLock, Updating, Extract, Fails
  <2>3. ~stolen' /\ Updating(l)' => InstallsFor(l)'
    BY <1>10 DEF UpdateInv, UpdateTypeOK, NoneIsNewer, InstallsNewer, InstallsFor, Updating,
         Installing, Holding, Versions, Extract, Fails
  <2>4. ~stolen' /\ Updating(l)' => StagedFor(l)'
    <3>1. /\ pc'[l] \in {"remove", "unstage"} /\ UNCHANGED new
          /\ ~stolen /\ pc'[l] = "remove" => staging'[new[l]] = "whole"
      BY <1>10, <2>0 DEF UpdateInv, UpdateTypeOK, Extract, Fails
    <3> QED
      BY <3>1, <1>10 DEF Extract, StagedFor
  <2>5. LiveBundleWhole'
    BY <1>10, <2>0 DEF UpdateInv, UpdateTypeOK, UpdateIsSafe, LiveBundleWhole, InstallsNewer,
         InstallsFor, StagedWhole, StagedFor, Updating, Installing, Holding, Versions, Extract,
         Fails
  <2>6. stolen => stolen'
    BY <1>10 DEF Extract, Fails
  <2> QED
    BY <2>0, <2>1, <2>2, <2>3, <2>4, <2>5, <2>6 DEF UpdateKept, InstallsNewer, StagedWhole
<1>11. ASSUME NEW l \in Launches, RemoveBundle(l) PROVE UpdateKept
  <2>0. ~stolen => \A k \in Launches \ {l} : ~Updating(k) /\ ~Updating(k)'
    BY <1>11, HoldingSteps DEF UpdateInv, UpdaterHasLock, UpdateTypeOK, Updating, RemoveBundle
  <2>r. ~stolen /\ ~reinstalled' => ~reinstalled /\ new[l] # link
    <3>1. ~stolen => new[l] > cur[l]
      BY <1>11
           DEF UpdateInv, InstallsNewer, InstallsFor, Updating, Installing, Holding, RemoveBundle
    <3>2. reinstalled => reinstalled'
      BY <1>11, Zenon DEF RemoveBundle
    <3>3. bundle[new[l]] # "none" /\ new[l] = link /\ cur[l] # link => reinstalled'
      BY <1>11, Zenon DEF RemoveBundle
    <3>4. ~stolen /\ ~reinstalled => bundle[link] # "none"
      BY DEF UpdateInv, UpdateIsSafe, LiveBundleWhole
    <3>5. ~stolen /\ new[l] = link => cur[l] # link
      BY <3>1, <1>11 DEF UpdateInv, UpdateTypeOK, Versions
    <3> QED
      BY <3>2, <3>3, <3>4, <3>5
  <2>1. NoneIsNewer' /\ (~stolen => link' >= link)
    BY <1>11, <2>0 DEF UpdateInv, UpdateTypeOK, NoneIsNewer, InstallsNewer, InstallsFor, Updating,
         Installing, Holding, Versions, RemoveBundle
  <2>2. ~stolen' => UpdaterHasLock'
    BY <1>11, UpdateAssumption, HoldingSteps, <2>0
         DEF UpdateInv, UpdateTypeOK, UpdaterHasLock, Updating, RemoveBundle
  <2>3. ~stolen' /\ Updating(l)' => InstallsFor(l)'
    BY <1>11 DEF UpdateInv, UpdateTypeOK, NoneIsNewer, InstallsNewer, InstallsFor, Updating,
         Installing, Holding, Versions, RemoveBundle
  <2>4. ~stolen' /\ Updating(l)' => StagedFor(l)'
    <3>1. /\ pc'[l] \in {"swap", "removing"} /\ UNCHANGED <<new, link, staging, stolen>>
          /\ reinstalled => reinstalled'
      BY <1>11 DEF UpdateInv, UpdateTypeOK, RemoveBundle
    <3>2. ~stolen => staging[new[l]] = "whole" /\ new[l] > cur[l] /\ Updating(l)
      BY <1>11 DEF UpdateInv, UpdateTypeOK, InstallsNewer, InstallsFor, StagedWhole, StagedFor,
           Updating, Installing, Holding, RemoveBundle
    <3>3. ~stolen /\ ~reinstalled' => new[l] # link
      BY <2>r
    <3> QED
      BY <3>1, <3>2, <3>3 DEF StagedFor
  <2>5. LiveBundleWhole'
    BY <1>11, <2>r
         DEF UpdateInv, UpdateTypeOK, UpdateIsSafe, LiveBundleWhole, Versions, RemoveBundle
  <2>6. stolen => stolen'
    BY <1>11 DEF RemoveBundle
  <2> QED
    BY <2>0, <2>1, <2>2, <2>3, <2>4, <2>5, <2>6 DEF UpdateKept, InstallsNewer, StagedWhole
<1>12. ASSUME NEW l \in Launches, BundleRemoved(l) PROVE UpdateKept
  <2>0. ~stolen => \A k \in Launches \ {l} : ~Updating(k) /\ ~Updating(k)'
    BY <1>12, HoldingSteps
         DEF UpdateInv, UpdaterHasLock, UpdateTypeOK, Updating, BundleRemoved, Fails
  <2>1. NoneIsNewer' /\ (~stolen => link' >= link)
    BY <1>12, <2>0 DEF UpdateInv, UpdateTypeOK, NoneIsNewer, InstallsNewer, InstallsFor, Updating,
         Installing, Holding, Versions, BundleRemoved, Fails
  <2>2. ~stolen' => UpdaterHasLock'
    BY <1>12, UpdateAssumption, HoldingSteps, <2>0
         DEF UpdateInv, UpdateTypeOK, UpdaterHasLock, Updating, BundleRemoved, Fails
  <2>3. ~stolen' /\ Updating(l)' => InstallsFor(l)'
    BY <1>12 DEF UpdateInv, UpdateTypeOK, NoneIsNewer, InstallsNewer, InstallsFor, Updating,
         Installing, Holding, Versions, BundleRemoved, Fails
  <2>4. ~stolen' /\ Updating(l)' => StagedFor(l)'
    BY <1>12, <2>0 DEF UpdateInv, UpdateTypeOK, UpdateIsSafe, LiveBundleWhole, InstallsNewer,
         InstallsFor, StagedWhole, StagedFor, Updating, Installing, Holding, Versions,
         BundleRemoved, Fails
  <2>5. LiveBundleWhole'
    BY <1>12, <2>0 DEF UpdateInv, UpdateTypeOK, UpdateIsSafe, LiveBundleWhole, InstallsNewer,
         InstallsFor, StagedWhole, StagedFor, Updating, Installing, Holding, Versions,
         BundleRemoved, Fails
  <2>6. stolen => stolen'
    BY <1>12 DEF BundleRemoved, Fails
  <2> QED
    BY <2>0, <2>1, <2>2, <2>3, <2>4, <2>5, <2>6 DEF UpdateKept, InstallsNewer, StagedWhole
<1>13. ASSUME NEW l \in Launches, Swap(l) PROVE UpdateKept
  <2>0. ~stolen => \A k \in Launches \ {l} : ~Updating(k) /\ ~Updating(k)'
    BY <1>13, HoldingSteps DEF UpdateInv, UpdaterHasLock, UpdateTypeOK, Updating, Swap, Fails
  <2>1. NoneIsNewer' /\ (~stolen => link' >= link)
    BY <1>13, <2>0 DEF UpdateInv, UpdateTypeOK, NoneIsNewer, InstallsNewer, InstallsFor, Updating,
         Installing, Holding, Versions, Swap, Fails
  <2>2. ~stolen' => UpdaterHasLock'
    BY <1>13, UpdateAssumption, HoldingSteps, <2>0
         DEF UpdateInv, UpdateTypeOK, UpdaterHasLock, Updating, Swap, Fails
  <2>3. ~stolen' /\ Updating(l)' => InstallsFor(l)'
    BY <1>13 DEF UpdateInv, UpdateTypeOK, NoneIsNewer, InstallsNewer, InstallsFor, Updating,
         Installing, Holding, Versions, Swap, Fails
  <2>4. ~stolen' /\ Updating(l)' => StagedFor(l)'
    BY <1>13, <2>0 DEF UpdateInv, UpdateTypeOK, UpdateIsSafe, LiveBundleWhole, InstallsNewer,
         InstallsFor, StagedWhole, StagedFor, Updating, Installing, Holding, Versions, Swap, Fails
  <2>5. LiveBundleWhole'
    BY <1>13, <2>0 DEF UpdateInv, UpdateTypeOK, UpdateIsSafe, LiveBundleWhole, InstallsNewer,
         InstallsFor, StagedWhole, StagedFor, Updating, Installing, Holding, Versions, Swap, Fails
  <2>6. stolen => stolen'
    BY <1>13 DEF Swap, Fails
  <2> QED
    BY <2>0, <2>1, <2>2, <2>3, <2>4, <2>5, <2>6 DEF UpdateKept, InstallsNewer, StagedWhole
<1>14. ASSUME NEW l \in Launches, Unstage(l) PROVE UpdateKept
  <2>0. ~stolen => \A k \in Launches \ {l} : ~Updating(k) /\ ~Updating(k)'
    BY <1>14, HoldingSteps DEF UpdateInv, UpdaterHasLock, UpdateTypeOK, Updating, Unstage
  <2>1. NoneIsNewer' /\ (~stolen => link' >= link)
    BY <1>14, <2>0 DEF UpdateInv, UpdateTypeOK, NoneIsNewer, InstallsNewer, InstallsFor, Updating,
         Installing, Holding, Versions, Unstage
  <2>2. ~stolen' => UpdaterHasLock'
    BY <1>14, UpdateAssumption, HoldingSteps, <2>0
         DEF UpdateInv, UpdateTypeOK, UpdaterHasLock, Updating, Unstage
  <2>3. ~stolen' /\ Updating(l)' => InstallsFor(l)'
    BY <1>14 DEF UpdateInv, UpdateTypeOK, NoneIsNewer, InstallsNewer, InstallsFor, Updating,
         Installing, Holding, Versions, Unstage
  <2>4. ~stolen' /\ Updating(l)' => StagedFor(l)'
    BY <1>14, <2>0 DEF UpdateInv, UpdateTypeOK, UpdateIsSafe, LiveBundleWhole, InstallsNewer,
         InstallsFor, StagedWhole, StagedFor, Updating, Installing, Holding, Versions, Unstage
  <2>5. LiveBundleWhole'
    BY <1>14, <2>0 DEF UpdateInv, UpdateTypeOK, UpdateIsSafe, LiveBundleWhole, InstallsNewer,
         InstallsFor, StagedWhole, StagedFor, Updating, Installing, Holding, Versions, Unstage
  <2>6. stolen => stolen'
    BY <1>14 DEF Unstage
  <2> QED
    BY <2>0, <2>1, <2>2, <2>3, <2>4, <2>5, <2>6 DEF UpdateKept, InstallsNewer, StagedWhole
<1>15. ASSUME NEW l \in Launches, SwitchLink(l) PROVE UpdateKept
  <2>0. ~stolen => \A k \in Launches \ {l} : ~Updating(k) /\ ~Updating(k)'
    BY <1>15, HoldingSteps DEF UpdateInv, UpdaterHasLock, UpdateTypeOK, Updating, SwitchLink
  <2>1. NoneIsNewer' /\ (~stolen => link' >= link)
    BY <1>15, <2>0 DEF UpdateInv, UpdateTypeOK, NoneIsNewer, InstallsNewer, InstallsFor, Updating,
         Installing, Holding, Versions, SwitchLink
  <2>2. ~stolen' => UpdaterHasLock'
    BY <1>15, UpdateAssumption, HoldingSteps, <2>0
         DEF UpdateInv, UpdateTypeOK, UpdaterHasLock, Updating, SwitchLink
  <2>3. ~stolen' /\ Updating(l)' => InstallsFor(l)'
    BY <1>15 DEF UpdateInv, UpdateTypeOK, NoneIsNewer, InstallsNewer, InstallsFor, Updating,
         Installing, Holding, Versions, SwitchLink
  <2>4. ~stolen' /\ Updating(l)' => StagedFor(l)'
    BY <1>15, <2>0 DEF UpdateInv, UpdateTypeOK, UpdateIsSafe, LiveBundleWhole, InstallsNewer,
         InstallsFor, StagedWhole, StagedFor, Updating, Installing, Holding, Versions, SwitchLink
  <2>5. LiveBundleWhole'
    BY <1>15, <2>0 DEF UpdateInv, UpdateTypeOK, UpdateIsSafe, LiveBundleWhole, InstallsNewer,
         InstallsFor, StagedWhole, StagedFor, Updating, Installing, Holding, Versions, SwitchLink
  <2>6. stolen => stolen'
    BY <1>15 DEF SwitchLink
  <2> QED
    BY <2>0, <2>1, <2>2, <2>3, <2>4, <2>5, <2>6 DEF UpdateKept, InstallsNewer, StagedWhole
<1>16. ASSUME NEW l \in Launches, CleanUp(l) PROVE UpdateKept
  <2>0. ~stolen => \A k \in Launches \ {l} : ~Updating(k) /\ ~Updating(k)'
    BY <1>16, HoldingSteps DEF UpdateInv, UpdaterHasLock, UpdateTypeOK, Updating, CleanUp
  <2>1. NoneIsNewer' /\ (~stolen => link' >= link)
    BY <1>16, <2>0 DEF UpdateInv, UpdateTypeOK, NoneIsNewer, InstallsNewer, InstallsFor, Updating,
         Installing, Holding, Versions, CleanUp
  <2>2. ~stolen' => UpdaterHasLock'
    BY <1>16, UpdateAssumption, HoldingSteps, <2>0
         DEF UpdateInv, UpdateTypeOK, UpdaterHasLock, Updating, CleanUp
  <2>3. ~stolen' /\ Updating(l)' => InstallsFor(l)'
    BY <1>16 DEF UpdateInv, UpdateTypeOK, NoneIsNewer, InstallsNewer, InstallsFor, Updating,
         Installing, Holding, Versions, CleanUp
  <2>4. ~stolen' /\ Updating(l)' => StagedFor(l)'
    BY <1>16, <2>0 DEF UpdateInv, UpdateTypeOK, UpdateIsSafe, LiveBundleWhole, InstallsNewer,
         InstallsFor, StagedWhole, StagedFor, Updating, Installing, Holding, Versions, CleanUp
  <2>5. LiveBundleWhole'
    BY <1>16, <2>0 DEF UpdateInv, UpdateTypeOK, UpdateIsSafe, LiveBundleWhole, InstallsNewer,
         InstallsFor, StagedWhole, StagedFor, Updating, Installing, Holding, Versions, CleanUp
  <2>6. stolen => stolen'
    BY <1>16 DEF CleanUp
  <2> QED
    BY <2>0, <2>1, <2>2, <2>3, <2>4, <2>5, <2>6 DEF UpdateKept, InstallsNewer, StagedWhole
<1>17. ASSUME NEW l \in Launches, WriteState(l) PROVE UpdateKept
  <2>0. ~stolen => \A k \in Launches \ {l} : ~Updating(k) /\ ~Updating(k)'
    BY <1>17, HoldingSteps DEF UpdateInv, UpdaterHasLock, UpdateTypeOK, Updating, WriteState
  <2>1. NoneIsNewer' /\ (~stolen => link' >= link)
    BY <1>17, <2>0 DEF UpdateInv, UpdateTypeOK, NoneIsNewer, InstallsNewer, InstallsFor, Updating,
         Installing, Holding, Versions, WriteState
  <2>2. ~stolen' => UpdaterHasLock'
    BY <1>17, UpdateAssumption, HoldingSteps, <2>0
         DEF UpdateInv, UpdateTypeOK, UpdaterHasLock, Updating, WriteState
  <2>3. ~stolen' /\ Updating(l)' => InstallsFor(l)'
    BY <1>17 DEF UpdateInv, UpdateTypeOK, NoneIsNewer, InstallsNewer, InstallsFor, Updating,
         Installing, Holding, Versions, WriteState
  <2>4. ~stolen' /\ Updating(l)' => StagedFor(l)'
    BY <1>17, <2>0 DEF UpdateInv, UpdateTypeOK, UpdateIsSafe, LiveBundleWhole, InstallsNewer,
         InstallsFor, StagedWhole, StagedFor, Updating, Installing, Holding, Versions, WriteState
  <2>5. LiveBundleWhole'
    BY <1>17, <2>0 DEF UpdateInv, UpdateTypeOK, UpdateIsSafe, LiveBundleWhole, InstallsNewer,
         InstallsFor, StagedWhole, StagedFor, Updating, Installing, Holding, Versions, WriteState
  <2>6. stolen => stolen'
    BY <1>17 DEF WriteState
  <2> QED
    BY <2>0, <2>1, <2>2, <2>3, <2>4, <2>5, <2>6 DEF UpdateKept, InstallsNewer, StagedWhole
<1>18. ASSUME NEW l \in Launches, ReleaseLock(l) PROVE UpdateKept
  <2>0. ~stolen => \A k \in Launches \ {l} : ~Updating(k) /\ ~Updating(k)'
    BY <1>18, HoldingSteps
         DEF UpdateInv, UpdaterHasLock, UpdateTypeOK, Updating, ReleaseLock, Unlink
  <2>1. NoneIsNewer' /\ (~stolen => link' >= link)
    BY <1>18, <2>0 DEF UpdateInv, UpdateTypeOK, NoneIsNewer, InstallsNewer, InstallsFor, Updating,
         Installing, Holding, Versions, ReleaseLock, Unlink
  <2>2. ~stolen' => UpdaterHasLock'
    BY <1>18, UpdateAssumption, HoldingSteps, <2>0
         DEF UpdateInv, UpdateTypeOK, UpdaterHasLock, Updating, ReleaseLock, Unlink
  <2>3. ~stolen' /\ Updating(l)' => InstallsFor(l)'
    BY <1>18 DEF UpdateInv, UpdateTypeOK, NoneIsNewer, InstallsNewer, InstallsFor, Updating,
         Installing, Holding, Versions, ReleaseLock, Unlink
  <2>4. ~stolen' /\ Updating(l)' => StagedFor(l)'
    BY <1>18, <2>0 DEF UpdateInv, UpdateTypeOK, UpdateIsSafe, LiveBundleWhole, InstallsNewer,
         InstallsFor, StagedWhole, StagedFor, Updating, Installing, Holding, Versions, ReleaseLock,
         Unlink
  <2>5. LiveBundleWhole'
    BY <1>18, <2>0 DEF UpdateInv, UpdateTypeOK, UpdateIsSafe, LiveBundleWhole, InstallsNewer,
         InstallsFor, StagedWhole, StagedFor, Updating, Installing, Holding, Versions, ReleaseLock,
         Unlink
  <2>6. stolen => stolen'
    BY <1>18 DEF ReleaseLock, Unlink
  <2> QED
    BY <2>0, <2>1, <2>2, <2>3, <2>4, <2>5, <2>6 DEF UpdateKept, InstallsNewer, StagedWhole
<1>19. ASSUME NEW l \in Launches, Killed(l) PROVE UpdateKept
  <2>1. NoneIsNewer' /\ (~stolen => link' >= link)
    BY <1>19 DEF UpdateInv, UpdateTypeOK, NoneIsNewer, InstallsNewer, InstallsFor, Updating,
         Installing, Holding, Versions, Killed
  <2>2. ~stolen' => UpdaterHasLock'
    BY <1>19, UpdateAssumption, HoldingSteps
         DEF UpdateInv, UpdateTypeOK, UpdaterHasLock, Updating, Killed
  <2>3. ~stolen' => InstallsNewer'
    BY <1>19 DEF UpdateInv, UpdateTypeOK, NoneIsNewer, InstallsNewer, InstallsFor, Updating,
         Installing, Holding, Versions, Killed
  <2>4. ~stolen' => StagedWhole'
    BY <1>19
         DEF UpdateInv, UpdateTypeOK, StagedWhole, StagedFor, Updating, Holding, Versions, Killed
  <2>5. LiveBundleWhole'
    BY <1>19 DEF UpdateInv, UpdateTypeOK, UpdateIsSafe, LiveBundleWhole, InstallsNewer,
         InstallsFor, StagedWhole, StagedFor, Updating, Installing, Holding, Versions, Killed
  <2> QED
    BY <2>1, <2>2, <2>3, <2>4, <2>5 DEF UpdateKept
<1>20. ASSUME Publish \/ HourPasses \/ DayPasses \/ UNCHANGED updateVars PROVE UpdateKept
  <2>1. /\ UNCHANGED <<link, bundle, staging, lock, pc, dead, cur, new, stolen, reinstalled>>
        /\ latest' \in {latest, latest + 1}
    BY <1>20 DEF Publish, HourPasses, DayPasses, updateVars
  <2>2. NoneIsNewer' /\ (~stolen => link' >= link)
    BY <2>1 DEF UpdateInv, UpdateTypeOK, NoneIsNewer, Versions
  <2>3. ~stolen' => UpdaterHasLock' /\ InstallsNewer' /\ StagedWhole'
    BY <2>1 DEF UpdateInv, UpdaterHasLock, InstallsNewer, InstallsFor, StagedWhole, StagedFor,
         Updating
  <2>4. LiveBundleWhole'
    BY <2>1 DEF UpdateInv, UpdateIsSafe, LiveBundleWhole
  <2> QED
    BY <2>2, <2>3, <2>4 DEF UpdateKept
<1>21. UpdateKept
  BY <1>1, <1>2, <1>3, <1>4, <1>5, <1>6, <1>7, <1>8, <1>9, <1>10, <1>11, <1>12, <1>13, <1>14,
       <1>15, <1>16, <1>17, <1>18, <1>19, <1>20
  DEF UpdateNext, LaunchStep
<1> QED
  BY <1>0, <1>21 DEF UpdateKept, UpdateInv, UpdateIsSafe, OneUpdater, UpdaterHasLock

(* Whatever fails, is killed or runs beside it, for any number of launches *)
(* and releases: one launch updates at a time, and the link leads to a     *)
(* whole bundle (UpdateLock, install_versioned_binary).                    *)
THEOREM UpdateStaysSafe == UpdateSpec => []UpdateIsSafe
<1>1. UpdateSpec => []UpdateInv
  BY UpdateInitInv, UpdateNextInv, PTL DEF UpdateSpec
<1>2. UpdateInv => UpdateIsSafe
  BY DEF UpdateInv
<1> QED
  BY <1>1, <1>2, PTL

(* Nor does an update take the CLI back to an older version, though the    *)
(* layout it compares with was read before the lock.                       *)
THEOREM UpdateKeepsBoth == UpdateSpec => UpdateKeepsItsWord
<1>1. UpdateSpec => []UpdateInv
  BY UpdateInitInv, UpdateNextInv, PTL DEF UpdateSpec
<1>2. UpdateInv /\ [UpdateNext]_updateVars => [~stolen => link' >= link]_updateVars
  BY UpdateNextInv
<1>3. UpdateSpec => NoDowngrade
  BY <1>1, <1>2, PTL DEF UpdateSpec, NoDowngrade
<1> QED
  BY <1>3, UpdateStaysSafe, PTL DEF UpdateKeepsItsWord
=============================================================================
