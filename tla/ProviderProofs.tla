--------------------------- MODULE ProviderProofs ---------------------------
(***************************************************************************)
(* The provider's side, for any settings, times and number of runs: what a *)
(* provider is told of its node (NodeKeepsItsWord, RegisterKeepsItsWord,   *)
(* StatusKeepsItsWord), that the Docker data is on the host in one whole   *)
(* copy at every moment of the storage set-up (DataKept), and that the     *)
(* host is left with Docker on it or masked, however the set-up ends       *)
(* (HostIsLeftWhole).                                                      *)
(***************************************************************************)
EXTENDS MineNode, RegisterNode, NodeStatus, StorageSetup, FiniteSetTheorems, TLAPS

(* `lium mine` on the host (MineNode).                                     *)

(* A run that is to restart nothing found the executor with the settings   *)
(* of .env, and one that is to restart it waits for another one.           *)
RestartIsDue ==
  /\ mineStep \in {"prepare", "check", "template", "overrides", "stale", "look"} => ~rentals
  /\ mineStep = "look" /\ ~stale => executor.state = "none" \/ executor.set = env
  /\ mineStep \in {"up", "wait"} /\ ~(stale /\ rentals) =>
       executor.set = env \/ ~Runs(executor.state) \/ lingers

(* A rental that was seen under a runner that is up: nothing the run does  *)
(* restarts it.                                                            *)
SparedIsSeen ==
  /\ spared => runner = "up"
  /\ mineStep = "up" /\ spared => rentals

(* A port that is held is the executor's own, or was taken since a check   *)
(* found it free, but for the defaults before the first executor.          *)
BeforeExecutor ==
  /\ runner = "down" /\ executor.state = "none"
  /\ mineStep \notin {"stale", "look", "up"}
HeldWasTaken ==
  /\ Runs(executor.state) => executor.set.ports \notin occupied
  /\ mineStep \in {"template", "overrides"} /\ answers.ports \in occupied => answers.ports \in taken
  /\ given.ports \in occupied => given.ports \in taken \/ BeforeExecutor

MineInv ==
  /\ MineTypeOK /\ NodeKeepsItsWord
  /\ RestartIsDue /\ SparedIsSeen /\ HeldWasTaken

(* The Boolean variables, apart: a step of their own for the prover.       *)
MineFlags ==
  /\ rented \in BOOLEAN /\ stale \in BOOLEAN /\ rentals \in BOOLEAN /\ lingers \in BOOLEAN
  /\ torn \in BOOLEAN /\ spared \in BOOLEAN /\ hurt \in BOOLEAN /\ lost \in BOOLEAN

LEMMA MineFlagsInit == MineInit => MineFlags
  BY Zenon DEF MineInit, MineFlags

LEMMA MineFlagsNext == MineTypeOK /\ [MineNext]_mineVars => MineFlags'
<1> USE DEF MineTypeOK, MineFlags, mineHistory, mineRunVars, dockerVars
<1>1. MineTypeOK /\ CheckStale => MineFlags'
  BY Zenon DEF CheckStale, Stale
<1>2. MineTypeOK /\ LookForRentals => MineFlags'
  BY Zenon DEF LookForRentals
<1>3. MineTypeOK /\ CutRun => MineFlags'
  BY Zenon DEF CutRun
<1>4. MineTypeOK /\ RunnerStarts => MineFlags'
  BY Zenon DEF RunnerStarts
<1>5. MineTypeOK /\ (RunnerStops \/ RentalBegins \/ RentalEnds) => MineFlags'
  BY Zenon DEF RunnerStops, RentalBegins, RentalEnds
<1>6. MineTypeOK /\ (Prepare \/ CheckPorts \/ WriteTemplate \/ WriteOverrides \/ ComposeUp
                      \/ WaitHealthy \/ ExecutorIsHealthy) => MineFlags'
  BY Zenon DEF Prepare, CheckPorts, WriteTemplate, WriteOverrides, ComposeUp, WaitHealthy,
       ExecutorIsHealthy
<1>7. ASSUME NEW ports, NEW claim, MineTypeOK,
             BeginsWith(ports, claim) \/ OtherBinds(ports) \/ OtherLeaves(ports)
      PROVE MineFlags'
  BY <1>7, Zenon DEF BeginsWith, MineBegins, OtherBinds, OtherLeaves
<1> QED
  BY <1>1, <1>2, <1>3, <1>4, <1>5, <1>6, <1>7, Zenon DEF MineNext, mineVars

LEMMA MineInitInv == MineInit => MineInv
  BY MineAssumption, MineFlagsInit
  DEF MineFlags, MineInit, MineInv, MineTypeOK, NodeKeepsItsWord, SettingsReachTheNode,
      RentalsAreSpared,
      WorkingNodeIsKept, SettingsAreKept, RestartIsDue, SparedIsSeen, HeldWasTaken, BeforeExecutor,
      Fresh, Settings, MineEnds, MineSteps, Runs

LEMMA MineNextInv == MineInv /\ [MineNext]_mineVars => MineInv'
<1> SUFFICES ASSUME MineInv, [MineNext]_mineVars PROVE MineInv'
  OBVIOUS
<1>0. MineFlags'
  BY MineFlagsNext DEF MineInv
<1> USE MineAssumption, <1>0
    DEF MineFlags, MineInv, MineTypeOK, NodeKeepsItsWord, SettingsReachTheNode, RentalsAreSpared,
        WorkingNodeIsKept, SettingsAreKept, RestartIsDue, SparedIsSeen, HeldWasTaken,
        BeforeExecutor,
        Settings, MineEnds, MineSteps, Runs, MineGoes, mineHistory, mineRunVars, dockerVars
<1>1. ASSUME NEW ports \in PortChoices \cup {"saved"}, NEW claim \in Claims \cup {NoClaim},
             BeginsWith(ports, claim)
      PROVE MineInv'
  BY <1>1 DEF BeginsWith, MineBegins
<1>2. CASE Prepare
  BY <1>2 DEF Prepare
<1>3. CASE CheckPorts
  BY <1>3 DEF CheckPorts, OwnPorts
<1>4. CASE WriteTemplate
  BY <1>4 DEF WriteTemplate, FromTemplate, Fresh
<1>5. CASE WriteOverrides
  BY <1>5 DEF WriteOverrides, Overridden
<1>6. CASE CheckStale
  <2>1. CASE Stale
    BY <1>6, <2>1, ZenonT(30) DEF CheckStale, Stale
  <2>2. CASE ~Stale
    <3>1. ~stale'
      BY <1>6, <2>2, Zenon DEF CheckStale
    <3> QED
      BY <1>6, <2>2, <3>1 DEF CheckStale, Stale
  <2> QED
    BY <2>1, <2>2
<1>7. CASE LookForRentals
  BY <1>7 DEF LookForRentals
<1>8. CASE ComposeUp
  BY <1>8 DEF ComposeUp, UpOutcomes
<1>9. CASE WaitHealthy
  BY <1>9 DEF WaitHealthy
<1>10. CASE CutRun
  <2>1. CASE mineStep = "overrides"
    BY <1>10, <2>1, ZenonT(30) DEF CutRun
  <2>2. CASE mineStep # "overrides"
    <3>1. torn => torn'
      BY <1>10, Zenon DEF CutRun
    <3> QED
      BY <1>10, <2>2, <3>1 DEF CutRun
  <2> QED
    BY <2>1, <2>2
<1>11. CASE RunnerStarts
  BY <1>11 DEF RunnerStarts
<1>12. CASE ExecutorIsHealthy
  BY <1>12 DEF ExecutorIsHealthy
<1>13. CASE RunnerStops
  BY <1>13 DEF RunnerStops
<1>14. CASE RentalBegins
  BY <1>14 DEF RentalBegins
<1>15. CASE RentalEnds
  BY <1>15 DEF RentalEnds
<1>16. ASSUME NEW ports \in PortChoices, OtherBinds(ports) PROVE MineInv'
  BY <1>16 DEF OtherBinds
<1>17. ASSUME NEW ports \in PortChoices, OtherLeaves(ports) PROVE MineInv'
  BY <1>17 DEF OtherLeaves
<1>18. CASE UNCHANGED mineVars
  BY <1>18 DEF mineVars
<1> QED
  BY <1>1, <1>2, <1>3, <1>4, <1>5, <1>6, <1>7, <1>8, <1>9, <1>10, <1>11, <1>12, <1>13,
     <1>14, <1>15, <1>16, <1>17, <1>18 DEF MineNext

(* However runs of `lium mine` are cut and repeated, and whatever rentals  *)
(* and other processes do: a node that is reported has the settings in     *)
(* .env, a rental that was seen is spared, a working executor is not       *)
(* recreated for a port that was held, and .env keeps what was given       *)
(* (mine.py, _check_ports_free to _start_executor).                        *)
THEOREM NodeWordIsKept == MineSpec => []NodeKeepsItsWord
<1>1. MineSpec => []MineInv
  BY MineInitInv, MineNextInv, PTL DEF MineSpec
<1>2. MineInv => NodeKeepsItsWord
  BY DEF MineInv
<1> QED
  BY <1>1, <1>2, PTL

-----------------------------------------------------------------------------
(* `--register` and the wait for the listing (RegisterNode).               *)

(* The node was posted with the token, or was there already; no time has   *)
(* passed before the wait.                                                 *)
PostedOrThere ==
  /\ regStep = "find" /\ ~already => portalNode = "ours"
  /\ regStep \in {"confirm", "install", "post", "find"} => elapsed = 0

(* The OFFLINE that is waited on was read after every other status.        *)
OfflineSinceOther ==
  /\ otherAt <= elapsed
  /\ offlineSince # -1 => otherAt <= offlineSince /\ offlineSince <= elapsed

RegisterInv == RegisterTypeOK /\ RegisterKeepsItsWord /\ PostedOrThere /\ OfflineSinceOther

RegisterFlags ==
  /\ goodToken \in BOOLEAN /\ inList \in BOOLEAN
  /\ already \in BOOLEAN /\ listRead \in BOOLEAN

LEMMA RegisterFlagsInit == RegisterInit => RegisterFlags
  BY Zenon DEF RegisterInit, RegisterFlags

LEMMA RegisterFlagsNext == RegisterTypeOK /\ [RegisterNext]_registerVars => RegisterFlags'
  BY Zenon
  DEF RegisterTypeOK, RegisterFlags, RegisterNext, registerVars, portalVars, KeepsLookup, BeginRun,
      ConfirmToken, InstallNode, PostNode, FindNode, WatchNode, StopRun, TokenExpires,
      ListCatchesUp,
      OthersAddOrRemove

LEMMA RegisterInitInv == RegisterInit => RegisterInv
  BY RegisterAssumption, RegisterFlagsInit
  DEF RegisterFlags, RegisterInit, RegisterInv, RegisterTypeOK, RegisterKeepsItsWord,
      WatchesItsOwnNode,
      OfflineWasConfirmed, WaitIsWaitedOut, PostedOrThere, OfflineSinceOther, Unregistered, Left,
      LastTime, Readings

LEMMA RegisterNextInv == RegisterInv /\ [RegisterNext]_registerVars => RegisterInv'
<1> SUFFICES ASSUME RegisterInv, [RegisterNext]_registerVars PROVE RegisterInv'
  OBVIOUS
<1>0. RegisterFlags'
  BY RegisterFlagsNext DEF RegisterInv
<1> USE RegisterAssumption, <1>0
    DEF RegisterFlags, RegisterInv, RegisterTypeOK, RegisterKeepsItsWord, WatchesItsOwnNode,
        OfflineWasConfirmed,
        WaitIsWaitedOut, PostedOrThere, OfflineSinceOther, Unregistered, Left, LastTime, Readings,
        RegGoes, KeepsWatch, KeepsLookup, portalVars, watchVars
<1>1. CASE BeginRun
  BY <1>1 DEF BeginRun
<1>2. CASE ConfirmToken
  BY <1>2 DEF ConfirmToken
<1>3. CASE InstallNode
  BY <1>3 DEF InstallNode
<1>4. CASE PostNode
  BY <1>4 DEF PostNode
<1>5. CASE FindNode
  <2>1. regStep = "find"
        /\ regStep' \in {"watch", "added", "find", "elsewhere", "unseen", "rate_limited"}
    BY <1>5 DEF FindNode, NotFound
  <2>2. regStep' \in {"watch", "added"} => portalNode = "ours"
    BY <1>5 DEF FindNode, NotFound, InAccountsList
  <2>3. regStep' = "unseen" => ~already
    BY <1>5 DEF FindNode, NotFound
  <2>4. attempt' \in 1..FindTries
        /\ UNCHANGED <<runs, elapsed, offlineSince, settled, otherAt, portalVars, already>>
    BY <1>5 DEF FindNode
  <2> QED
    BY <2>1, <2>2, <2>3, <2>4
<1>6. CASE WatchNode
  <2>1. PICK time \in 0..ReadTime :
          ReadFails(elapsed + time) \/ \E reading \in Readings : ReadStatus(elapsed + time, reading)
    BY <1>6 DEF WatchNode
  <2> DEFINE now == elapsed + time
  <2>2. /\ regStep = "watch"
        /\ UNCHANGED <<runs, goodToken, portalNode, inList, already, attempt, listRead>>
        /\ now \in Nat /\ elapsed <= now /\ elapsed <= WaitLimit + ConfirmTime /\ now <= LastTime
    BY <1>6 DEF WatchNode
  <2>3. CASE ReadFails(now)
    BY <2>2, <2>3 DEF ReadFails, SleepOrEnd, TimeIsUp, TimedOut
  <2>4. ASSUME NEW reading \in Readings, ReadStatus(now, reading) PROVE RegisterInv'
    BY <2>2, <2>4 DEF ReadStatus, OfflineFrom, Verdict, SleepOrEnd, TimeIsUp, TimedOut
  <2> QED
    BY <2>1, <2>3, <2>4
<1>7. CASE StopRun
  BY <1>7 DEF StopRun
<1>8. CASE TokenExpires
  BY <1>8 DEF TokenExpires
<1>9. CASE ListCatchesUp
  BY <1>9 DEF ListCatchesUp
<1>10. CASE OthersAddOrRemove
  BY <1>10 DEF OthersAddOrRemove
<1>11. CASE UNCHANGED registerVars
  BY <1>11 DEF registerVars
<1> QED
  BY <1>1, <1>2, <1>3, <1>4, <1>5, <1>6, <1>7, <1>8, <1>9, <1>10, <1>11 DEF RegisterNext

(* For every limit and interval, however the token, the list and the       *)
(* readings fare: a node that is watched or left is the account's own, an  *)
(* OFFLINE that ends the wait was confirmed, and a wait without a verdict  *)
(* was waited out (register_node to wait_until_listed).                    *)
THEOREM RegisterWordIsKept == RegisterSpec => []RegisterKeepsItsWord
<1>1. RegisterSpec => []RegisterInv
  BY RegisterInitInv, RegisterNextInv, PTL DEF RegisterSpec
<1>2. RegisterInv => RegisterKeepsItsWord
  BY DEF RegisterInv
<1> QED
  BY <1>1, <1>2, PTL

-----------------------------------------------------------------------------
(* `lium provider node status` (NodeStatus).                               *)

(* What a refresh has read lies between what stood all through it and what *)
(* was ever there.                                                         *)
ReadIsBetween ==
  /\ seen \subseteq ever
  /\ gotIdle => gotNode
  /\ statusStep \in {"sleep", "verification", "record"} => seen = {} /\ ~gotNode /\ ~gotIdle
  /\ statusStep \in {"overview", "decide"} => standing \subseteq reasons /\ reasons \subseteq ever
  /\ statusStep = "overview" => gotNode /\ ~gotIdle /\ standing \cap InRecord \subseteq seen
  /\ statusStep = "decide" /\ gotNode /\ gotIdle => standing \ Advisory \subseteq seen
  /\ overdue => watch = "until_clear"

StatusInv == StatusTypeOK /\ StatusKeepsItsWord /\ ReadIsBetween
(* Blocking sees past advisories, and more reasons block no less.          *)
LEMMA BlockingIgnoresAdvisories == ASSUME NEW S PROVE Blocking(S) = Blocking(S \ Advisory)
<1>1. (S \ Advisory) \ (Advisory \cup NothingPaid) = S \ (Advisory \cup NothingPaid)
  OBVIOUS
<1>2. (S \ Advisory) \cap NothingPaid = S \cap NothingPaid
  BY DEF Advisory, NothingPaid
<1> QED
  BY <1>1, <1>2 DEF Blocking

LEMMA BlockingGrows ==
  ASSUME NEW S, NEW T, S \subseteq T, T \subseteq Reasons PROVE Blocking(S) \subseteq Blocking(T)
<1> DEFINE SO == S \ (Advisory \cup NothingPaid)
           TO == T \ (Advisory \cup NothingPaid)
<1>1. IsFiniteSet(Reasons)
  <2>1. Reasons = (({"failed_check"} \cup {"unpaid"}) \cup
                    (({"idle_pay"} \cup {"port_limited_remainder"}) \cup {"not_gated"}))
                    \cup {"advisory"}
    BY DEF Reasons, InRecord, NothingPaid, InOverview, NotGated, Advisory
  <2> QED
    BY <2>1, FS_Singleton, FS_Union
<1>2. IsFiniteSet(TO) /\ SO \subseteq TO
  BY <1>1, FS_Subset
<1>3. Cardinality(SO) <= Cardinality(TO) /\ Cardinality(SO) \in Nat /\ Cardinality(TO) \in Nat
  BY <1>2, FS_Subset, FS_CardinalityType
<1> QED
  BY <1>2, <1>3 DEF Blocking

StatusFlags ==
  /\ strict \in BOOLEAN /\ person \in BOOLEAN /\ serves \in BOOLEAN
  /\ gotNode \in BOOLEAN /\ gotIdle \in BOOLEAN /\ overdue \in BOOLEAN

LEMMA StatusFlagsInit == StatusInit => StatusFlags
  BY Zenon DEF StatusInit, StatusFlags

LEMMA StatusFlagsNext == StatusTypeOK /\ [StatusNext]_statusVars => StatusFlags'
  BY Zenon
  DEF StatusTypeOK, StatusFlags, StatusNext, statusVars, optionVars, refreshVars, GetVerification,
      GetNode, GetOverview, Decide, Sleep, Interrupt, DeadlinePasses, ReasonsChange

LEMMA StatusInitInv == StatusInit => StatusInv
  BY StatusFlagsInit DEF StatusFlags, StatusInit, StatusInv, StatusTypeOK, StatusKeepsItsWord,
       ClearIsClear, BlockedIsBlocked,
         ReadIsBetween, StatusExits, Watches

LEMMA StatusNextInv == StatusInv /\ [StatusNext]_statusVars => StatusInv'
<1> SUFFICES ASSUME StatusInv, [StatusNext]_statusVars PROVE StatusInv'
  OBVIOUS
<1>0. StatusFlags'
  BY StatusFlagsNext DEF StatusInv
<1> USE <1>0 DEF StatusFlags, StatusInv, StatusTypeOK, StatusKeepsItsWord, ClearIsClear,
     BlockedIsBlocked, ReadIsBetween,
        StatusExits, Watches, StGoes, KeepsHistory, optionVars, refreshVars
<1>1. CASE GetVerification
  BY <1>1 DEF GetVerification
<1>2. CASE GetNode
  BY <1>2 DEF GetNode
<1>3. CASE GetOverview
  <2>1. /\ statusStep = "overview" /\ statusStep' = "decide"
        /\ UNCHANGED <<watch, strict, person, serves, reasons, gotNode, overdue, standing, ever>>
    BY <1>3 DEF GetOverview
  <2>2. CASE gotIdle' = TRUE /\ seen' = seen \cup (reasons \cap InOverview)
    <3>1. standing \ Advisory \subseteq seen'
      BY <2>1, <2>2 DEF Reasons
    <3>2. seen' \subseteq Reasons
      BY <2>2 DEF Reasons
    <3>3. seen' \subseteq ever
      BY <2>1, <2>2
    <3> QED
      BY <2>1, <2>2, <3>1, <3>2, <3>3
  <2>3. CASE UNCHANGED <<gotIdle, seen>>
    BY <2>1, <2>3
  <2> QED
    BY <1>3, <2>2, <2>3 DEF GetOverview
<1>4. CASE Decide
  <2>1. statusStep' = Outcome /\ Outcome \in {"blocked", "unread", "clear", "shown", "sleep"}
    BY <1>4 DEF Decide, Outcome
  <2>2. gotNode /\ gotIdle => Blocking(standing) \subseteq Blocking(seen)
    BY <1>4, BlockingIgnoresAdvisories, BlockingGrows DEF Decide
  <2>3. Blocking(seen) \subseteq Blocking(ever)
    <3>1. seen \subseteq ever /\ ever \subseteq Reasons
      OBVIOUS
    <3> QED
      BY <3>1, BlockingGrows, Zenon
  <2>4. CASE Outcome = "sleep"
    BY <1>4, <2>1, <2>4 DEF Decide
  <2>5. CASE Outcome # "sleep"
    <3>1. UNCHANGED <<watch, strict, person, serves, reasons, gotNode, gotIdle, seen, overdue,
                       standing, ever>>
      BY <1>4, <2>5 DEF Decide
    <3>2. Outcome = "clear" => gotNode /\ gotIdle /\ Blocking(seen) = {}
      <4>1. Outcome = "clear" => IsLast /\ (strict => Found = {})
            /\ (watch = "until_clear" \/ strict)
        BY DEF Outcome
      <4>2. Outcome = "clear" /\ watch # "until_clear" => gotIdle
        BY <4>1 DEF Outcome, IsLast
      <4> QED
        BY <4>1, <4>2 DEF IsLast, Found
    <3>3. /\ Outcome = "blocked" => Blocking(seen) # {}
          /\ Outcome = "unread" => ~gotNode \/ ~gotIdle
          /\ Outcome \in {"blocked", "unread"} /\ watch = "until_clear" => overdue
      <4>1. Outcome = "blocked" => Found # {}
        BY DEF Outcome
      <4>2. Outcome = "unread" => (watch \in {"get", "once"} /\ ~gotIdle) \/ (TimedOutNow
                                                                              /\ Found = {})
        BY DEF Outcome
      <4>3. Outcome \in {"blocked", "unread"} /\ watch = "until_clear" => overdue
        BY DEF Outcome, TimedOutNow, IsLast
      <4> QED
        BY <4>1, <4>2, <4>3 DEF Found, TimedOutNow, IsLast
    <3> QED
      BY <2>1, <2>2, <2>3, <3>1, <3>2, <3>3, <2>5 DEF Blocking
  <2> QED
    BY <2>4, <2>5
<1>5. CASE Sleep
  BY <1>5 DEF Sleep
<1>6. CASE Interrupt
  BY <1>6 DEF Interrupt
<1>7. CASE DeadlinePasses
  BY <1>7 DEF DeadlinePasses
<1>8. CASE ReasonsChange
  <2>1. reasons' \subseteq Reasons /\ standing' = standing \cap reasons' /\ ever \subseteq ever'
        /\ ever' \subseteq Reasons
    BY <1>8 DEF ReasonsChange
  <2>2. statusStep \notin StatusExits
        /\ UNCHANGED <<watch, strict, person, serves, statusStep, gotNode, gotIdle, seen, overdue>>
    BY <1>8 DEF ReasonsChange
  <2>3. statusStep \in {"overview", "decide"} => reasons' \subseteq ever'
    BY <1>8 DEF ReasonsChange
  <2> QED
    BY <2>1, <2>2, <2>3
<1>9. CASE UNCHANGED statusVars
  BY <1>9 DEF statusVars, Blocking
<1> QED
  BY <1>1, <1>2, <1>3, <1>4, <1>5, <1>6, <1>7, <1>8, <1>9 DEF StatusNext

(* Whatever comes and goes while a refresh reads the portal, and whichever *)
(* read fails: "clear" is said only of a node nothing kept blocked, and    *)
(* "blocked" only of one something blocked (status_node, get_node).        *)
THEOREM StatusWordIsKept == StatusSpec => []StatusKeepsItsWord
<1>1. StatusSpec => []StatusInv
  BY StatusInitInv, StatusNextInv, PTL DEF StatusSpec
<1>2. StatusInv => StatusKeepsItsWord
  BY DEF StatusInv
<1> QED
  BY <1>1, <1>2, PTL

-----------------------------------------------------------------------------
(* `lium mine setup`: the storage of the host (StorageSetup).              *)

(* Docker's start and the boot only ever change a root without data.       *)
LEMMA StartedKeeps ==
  ASSUME NEW h \in HostType
  PROVE  /\ Started(h) \in HostType
         /\ Started(h).backup = h.backup
         /\ h.base = "full" => Started(h).base = "full"
         /\ h.target = "full" => Started(h).target = "full"
  BY DEF HostType, Started, Roots

Early == {"checks", "stop", "mask", "backup"}

(* The strengthening: where the commit point lies, and what each stretch   *)
(* of the command sequence can rely on.                                    *)
DataInv ==
  /\ host \in HostType
  /\ layout \in [loop : BOOLEAN, own : BOOLEAN]
  /\ committed \in BOOLEAN
  /\ committed => stage \in {"commit", "done", "crashed"}
  /\ stage \in {"commit", "done"} => committed
  /\ stage \in {"unmask", "start", "verify"} => host.target = "full"
  /\ stage \in Early /\ ~layout.own => host.base = "full" /\ host.mounts = {}
  /\ DataKept

(* A step whose host keeps a copy outside the target, in a state that is   *)
(* not committed, and that goes to a stage without a claim of its own.     *)
LEMMA CopyStays ==
  ASSUME layout \in [loop : BOOLEAN, own : BOOLEAN], committed = FALSE,
         UNCHANGED <<layout, committed>>,
         host' \in HostType, CopyOutside',
         stage' \notin Early \cup {"commit", "done", "unmask", "start", "verify"}
  PROVE  DataInv'
  BY DEF DataInv, DataKept

(* The half done effects of a command in flight.                           *)
LEMMA HalfDoneKeeps ==
  ASSUME DataInv, NEW h \in HalfDone
  PROVE  /\ h \in HostType
         /\ stage # "commit" => h.base = host.base
                /\ (h.backup = host.backup \/ (stage = "backup" /\ ~Renames))
         /\ stage = "commit" => h.target = host.target
  <1>1. CASE stage = "backup"
    BY <1>1 DEF HalfDone, DataInv, HostType, Roots
  <1>2. CASE stage = "image"
    BY <1>2, ZenonT(30) DEF HalfDone, DataInv, HostType, Roots
  <1>3. CASE stage = "restore"
    BY <1>3 DEF HalfDone, DataInv, HostType, Roots
  <1>4. CASE stage \in {"fstab", "dropin", "udev", "rb_fstab"}
    BY <1>4 DEF HalfDone, DataInv, HostType, With, Files
  <1>5. CASE stage = "commit"
    BY <1>5 DEF HalfDone, DataInv, HostType, Roots
  <1>6. CASE stage \notin {"backup", "image", "restore", "fstab", "dropin", "udev", "rb_fstab",
                            "commit"}
    BY <1>6 DEF HalfDone
  <1>7. QED
    BY <1>1, <1>2, <1>3, <1>4, <1>5, <1>6

(* Before the commit point a half done command leaves a copy outside.      *)
LEMMA HalfDoneCopy ==
  ASSUME DataInv, ~committed, host' \in HalfDone, UNCHANGED layout
  PROVE  host' \in HostType /\ CopyOutside'
  <1>1. stage # "commit" /\ CopyOutside
    BY DEF DataInv, DataKept
  <1>2. host' \in HostType /\ host'.base = host.base
    BY <1>1, HalfDoneKeeps
  <1>3. host'.backup = host.backup \/ (stage = "backup" /\ ~Renames)
    BY <1>1, HalfDoneKeeps
  <1>4. CASE host'.backup = host.backup
    BY <1>1, <1>2, <1>4 DEF CopyOutside
  <1>5. CASE stage = "backup"
    BY <1>2, <1>5 DEF CopyOutside, DataInv, Early
  <1>6. QED
    BY <1>2, <1>3, <1>4, <1>5

(* A command that keeps a copy outside keeps the invariant, whether it is  *)
(* carried out, fails or is cut short.                                     *)
LEMMA CommandKeeps ==
  ASSUME DataInv,
         NEW from \in Forward, NEW to, NEW pre, NEW post, NEW after \in HostType,
         Command(from, to, pre, post, after),
         CopyOutside => layout.own \/ after.base = "full" \/ after.backup = "full",
         to \notin {"commit", "done"},
         to \in {"unmask", "start", "verify"} => after.target = "full",
         to \in Early /\ ~layout.own => after.base = "full" /\ after.mounts = {}
  PROVE  DataInv'
  <1>1. ~committed /\ CopyOutside
    BY DEF DataInv, DataKept, Command, Forward
  <1>2. UNCHANGED <<layout, committed>>
    BY DEF Command
  <1>3. CASE host' = after /\ stage' = to
    BY <1>1, <1>2, <1>3 DEF DataInv, DataKept, CopyOutside
  <1>4. CASE stage' = "rb_stop" /\ host' \in {host, after}
    <2>1. host' \in HostType /\ CopyOutside'
      BY <1>1, <1>2, <1>4 DEF DataInv, CopyOutside
    <2>2. QED
      BY <1>1, <1>2, <1>4, <2>1, CopyStays DEF DataInv, Early
  <1>5. CASE stage' = "rb_stop" /\ host' \in HalfDone
    BY <1>1, <1>2, <1>5, HalfDoneCopy, CopyStays DEF DataInv, Early
  <1>6. QED
    BY <1>3, <1>4, <1>5 DEF Command

(* The same for a step of the rollback.                                    *)
LEMMA RollbackKeeps ==
  ASSUME DataInv, stage \in Rollback, stage' \in Rollback \cup {"failed"},
         UNCHANGED <<layout, committed>>,
         host' \in HostType, CopyOutside => CopyOutside'
  PROVE  DataInv'
  <1>1. committed = FALSE /\ CopyOutside
    BY DEF DataInv, DataKept, Rollback
  <1>2. QED
    BY <1>1, CopyStays DEF DataInv, Rollback, Early

(* The data survives every step of the set-up, of its rollback and of the  *)
(* host.                                                                   *)
LEMMA DataStep == DataInv /\ [SetupNext]_setupVars => DataInv'
  <1> SUFFICES ASSUME DataInv, [SetupNext]_setupVars
               PROVE  DataInv'
    OBVIOUS
  <1> USE DEF Forward, Early
  <1>a. host \in HostType
    BY DEF DataInv
  <1>h. /\ host \in HostType
        /\ \A r \in Roots : [host EXCEPT !.target = r] \in HostType
        /\ \A f \in Files : \A v \in {"old", "new", "torn"} :
             /\ With(f, v) \in HostType
             /\ With(f, v).base = host.base /\ With(f, v).backup = host.backup
        /\ \A m \in {"orig", "target", "probe"} :
             /\ Mounted(m) \in HostType /\ Unmounted(m) \in HostType
             /\ Mounted(m).base = host.base /\ Unmounted(m).base = host.base
             /\ Mounted(m).backup = host.backup /\ Unmounted(m).backup = host.backup
             /\ Mounted(m).target = host.target /\ Unmounted(m).target = host.target
    BY DEF DataInv, HostType, With, Mounted, Unmounted
  <1>t. Visible(host) \in Roots
    BY <1>h DEF Visible, HostType, Roots
  <1>s. Started(host) \in HostType /\ Started(host).backup = host.backup
          /\ (host.base = "full" => Started(host).base = "full")
          /\ (host.target = "full" => Started(host).target = "full")
    BY <1>h, StartedKeeps
  <1>1. CASE Checks
    BY <1>1 DEF Checks, KeepsRun, DataInv, DataKept, CopyOutside
  <1>2. CASE StopDocker
    <2> DEFINE after == [host EXCEPT !.docker = FALSE]
    <2>1. after \in HostType /\ after.base = host.base /\ after.backup = host.backup
            /\ after.mounts = host.mounts
      BY <1>a DEF HostType
    <2>2. ~layout.own => host.base = "full" /\ host.mounts = {}
      BY <1>2 DEF StopDocker, Command, DataInv
    <2>3. Command("stop", "mask", {"owed"}, {}, after)
      BY <1>2 DEF StopDocker
    <2> HIDE DEF after
    <2>4. QED
      BY <2>1, <2>2, <2>3, CommandKeeps DEF CopyOutside
  <1>3. CASE MaskDocker
    <2> DEFINE after == [host EXCEPT !.masked = TRUE]
    <2>1. after \in HostType /\ after.base = host.base /\ after.backup = host.backup
            /\ after.mounts = host.mounts
      BY <1>a DEF HostType
    <2>2. ~layout.own => host.base = "full" /\ host.mounts = {}
      BY <1>3 DEF MaskDocker, Command, DataInv
    <2>3. Command("mask", "backup", {"masked"}, {}, after)
      BY <1>3 DEF MaskDocker
    <2> HIDE DEF after
    <2>4. QED
      BY <2>1, <2>2, <2>3, CommandKeeps DEF CopyOutside
  <1>4. CASE BackUp
    <2> DEFINE after == [host EXCEPT !.backup = Visible(host),
                                     !.base = IF Renames THEN "none" ELSE @]
    <2>1. after \in HostType /\ after.backup = Visible(host)
            /\ (~Renames => after.base = host.base)
      BY <1>a, <1>t DEF HostType, Roots
    <2>2. ~layout.own => host.base = "full" /\ host.mounts = {}
      BY <1>4 DEF BackUp, Command, DataInv
    <2>3. ~layout.own => Visible(host) = "full"
      BY <2>2 DEF Visible
    <2>4. PICK post : Command("backup", "image", {}, post, after)
      BY <1>4 DEF BackUp
    <2> HIDE DEF after
    <2>5. QED
      BY <2>1, <2>3, <2>4, CommandKeeps
  <1>5. CASE CreateTarget
    <2>1. CASE Command("image", "format", {}, {}, host)
      BY <1>h, <2>1, CommandKeeps DEF CopyOutside
    <2>2. CASE /\ stage = "image" /\ KeepsRun /\ stage' \in {"format", "rb_stop"}
               /\ host' \in {host, [host EXCEPT !.image = TRUE]} \cup HalfDone
      <3>1. ~committed /\ UNCHANGED layout /\ CopyOutside
        BY <2>2 DEF DataInv, DataKept, KeepsRun
      <3>2. host' \in HostType /\ CopyOutside'
        <4>1. CASE host' \in HalfDone
          BY <3>1, <4>1, HalfDoneCopy
        <4>2. CASE host' \in {host, [host EXCEPT !.image = TRUE]}
          BY <1>a, <3>1, <4>2 DEF HostType, CopyOutside
        <4>3. QED
          BY <2>2, <4>1, <4>2
      <3>3. QED
        BY <2>2, <3>1, <3>2, CopyStays DEF KeepsRun, DataInv
    <2>3. QED
      BY <1>5, <2>1, <2>2 DEF CreateTarget, Goes
  <1>6. CASE Format
    <2> DEFINE after == [host EXCEPT !.target = "blank"]
    <2>1. after \in HostType /\ after.base = host.base /\ after.backup = host.backup
      BY <1>a DEF HostType, Roots
    <2>2. Command("format", "probe", {}, {}, after)
      BY <1>6 DEF Format
    <2> HIDE DEF after
    <2>3. QED
      BY <2>1, <2>2, CommandKeeps DEF CopyOutside
  <1>7. CASE MountProbe
    BY <1>7, <1>h, CommandKeeps DEF MountProbe, CopyOutside
  <1>8. CASE CheckProbe
    BY <1>8, <1>h, CommandKeeps DEF CheckProbe, CopyOutside
  <1>9. CASE WriteConfig
    <2>1. PICK f \in Files, to \in {"fstab", "dropin", "udev", "mkdir"} :
            Command(f, to, {f}, {}, With(f, "new"))
      BY <1>9 DEF WriteConfig
    <2>2. f \in Forward
      BY <2>1 DEF Files
    <2>3. QED
      BY <1>h, <2>1, <2>2, CommandKeeps DEF CopyOutside
  <1>10. CASE MakeRoot
    <2> DEFINE after == [host EXCEPT !.base = IF @ = "none" THEN "blank" ELSE @]
    <2>1. after \in HostType /\ after.backup = host.backup
          /\ (host.base = "full" => after.base = "full")
      BY <1>a DEF HostType, Roots
    <2>2. PICK to \in {"umount", "mount"} : Command("mkdir", to, {}, {}, after)
      BY <1>10 DEF MakeRoot
    <2> HIDE DEF after
    <2>3. QED
      BY <2>1, <2>2, CommandKeeps DEF CopyOutside
  <1>11. CASE UnmountOriginal
    <2>1. ~committed /\ UNCHANGED layout /\ CopyOutside
      BY <1>11 DEF UnmountOriginal, DataInv, DataKept, KeepsRun
    <2>2. host' \in {host, Unmounted("orig")} /\ stage' \in {"mount", "rb_stop"}
      BY <1>11 DEF UnmountOriginal, Goes
    <2>3. host' \in HostType /\ CopyOutside'
      BY <1>h, <2>1, <2>2 DEF CopyOutside
    <2>4. QED
      BY <1>11, <2>1, <2>2, <2>3, CopyStays DEF UnmountOriginal, KeepsRun, DataInv
  <1>12. CASE MountTarget
    BY <1>12, <1>h, CommandKeeps DEF MountTarget, CopyOutside
  <1>13. CASE CheckMount
    BY <1>13, <1>h, CommandKeeps DEF CheckMount, CopyOutside
  <1>14. CASE RestoreData
    <2> DEFINE after == [host EXCEPT !.target = "full"]
    <2>1. after \in HostType /\ after.base = host.base /\ after.backup = host.backup
          /\ after.target = "full"
      BY <1>a DEF HostType, Roots
    <2>2. Command("restore", "unmask", {}, {}, after)
      BY <1>14 DEF RestoreData
    <2> HIDE DEF after
    <2>3. QED
      BY <2>1, <2>2, CommandKeeps DEF CopyOutside
  <1>15. CASE UnmaskDocker
    <2>1. stage = "unmask" /\ ~committed /\ UNCHANGED <<layout, committed>> /\ CopyOutside
            /\ host.target = "full"
      BY <1>15 DEF UnmaskDocker, DataInv, DataKept
    <2>2. host' \in {host, [host EXCEPT !.masked = FALSE]} /\ stage' \in {"start", "rb_stop"}
      BY <1>15 DEF UnmaskDocker, Goes
    <2>3. host' \in HostType /\ CopyOutside' /\ host'.target = "full"
      BY <1>a, <2>1, <2>2 DEF CopyOutside, HostType
    <2>4. QED
      BY <2>1, <2>2, <2>3 DEF DataInv, DataKept
  <1>16. CASE StartDocker
    <2>1. Command("start", "verify", {"mayRun"}, {}, Started(host)) /\ host.target = "full"
      BY <1>16 DEF StartDocker, Command, DataInv
    <2>2. QED
      BY <1>s, <2>1, CommandKeeps DEF CopyOutside
  <1>17. CASE Verify
    <2>1. stage = "verify" /\ committed = FALSE /\ host.target = "full" /\ CopyOutside
      BY <1>17 DEF Verify, DataInv, DataKept
    <2>2. CopyOutside' = CopyOutside /\ UNCHANGED <<layout, host>>
      BY <1>17 DEF Verify, CopyOutside
    <2>3. CASE stage' = "commit" /\ committed' = TRUE
      BY <2>1, <2>2, <2>3 DEF DataInv, DataKept
    <2>4. CASE stage' = "rb_stop" /\ committed' = committed
      BY <2>1, <2>2, <2>4, CopyStays DEF DataInv
    <2>5. QED
      BY <1>17, <2>3, <2>4 DEF Verify, Goes
  <1>18. CASE RemoveBackup
    <2>1. stage = "commit" /\ committed /\ stage' = "done" /\ UNCHANGED <<layout, committed>>
            /\ host.target = "full"
      BY <1>18 DEF RemoveBackup, Goes, KeepsRun, DataInv, DataKept
    <2>2. host' \in HostType /\ host'.target = "full"
      <3>1. CASE host' \in HalfDone
        BY <2>1, <3>1, HalfDoneKeeps
      <3>2. CASE host' \in {host, [host EXCEPT !.backup = "none"]}
        BY <1>a, <2>1, <3>2 DEF HostType, Roots
      <3>3. QED
        BY <1>18, <3>1, <3>2 DEF RemoveBackup
    <2>3. QED
      BY <2>1, <2>2 DEF DataInv, DataKept
  <1>19. CASE Look
    BY <1>19 DEF Look, Goes, KeepsRun, DataInv, DataKept, CopyOutside
  <1>20. CASE Confirm
    BY <1>20 DEF Confirm, Goes, KeepsRun, DataInv, DataKept, CopyOutside
  <1>21. CASE StopAgain
    <2> DEFINE after == [host EXCEPT !.docker = FALSE]
    <2>0. after \in HostType /\ after.base = host.base /\ after.backup = host.backup
      BY <1>a DEF HostType, Roots
    <2>1. /\ stage \in Rollback /\ stage' \in Rollback \cup {"failed"}
          /\ UNCHANGED <<layout, committed>> /\ host' \in {host, after}
      BY <1>21 DEF StopAgain, Attempt, Goes, KeepsRun, Rollback
    <2> HIDE DEF after
    <2>2. host' \in HostType /\ (CopyOutside => CopyOutside')
      BY <1>a, <2>0, <2>1 DEF CopyOutside
    <2>3. QED
      BY <2>1, <2>2, RollbackKeeps
  <1>22. CASE UnmountTarget
    <2>1. /\ stage \in Rollback /\ stage' \in Rollback \cup {"failed"}
          /\ UNCHANGED <<layout, committed>>
          /\ host' \in {host, Unmounted("target"), Unmounted("orig")}
      BY <1>22 DEF UnmountTarget, Attempt, Goes, KeepsRun, Rollback
    <2>2. host' \in HostType /\ (CopyOutside => CopyOutside')
      BY <2>1, <1>h DEF CopyOutside
    <2>3. QED
      BY <2>1, <2>2, RollbackKeeps
  <1>23. CASE RemountOriginal
    <2>1. /\ stage \in Rollback /\ stage' \in Rollback \cup {"failed"}
          /\ UNCHANGED <<layout, committed>> /\ host' \in {host, Mounted("orig")}
      BY <1>23 DEF RemountOriginal, Attempt, Goes, KeepsRun, Rollback
    <2>2. host' \in HostType /\ (CopyOutside => CopyOutside')
      BY <2>1, <1>h DEF CopyOutside
    <2>3. QED
      BY <2>1, <2>2, RollbackKeeps
  <1>24. CASE MoveBack
    <2> DEFINE gone == [host EXCEPT !.base = "none"]
    <2>0. BackInPlace \in HostType /\ BackInPlace.base = host.backup
            /\ gone \in HostType /\ gone.backup = host.backup
      BY <1>a DEF BackInPlace, HostType, Roots
    <2>1. /\ stage \in Rollback /\ stage' \in Rollback \cup {"failed"}
          /\ UNCHANGED <<layout, committed>> /\ host' \in {host, gone, BackInPlace}
          /\ host' = host \/ host.base \in {"none", "blank"}
      BY <1>24 DEF MoveBack, Attempt, Goes, KeepsRun, Rollback
    <2> HIDE DEF gone
    <2>2. host' \in HostType /\ (CopyOutside => CopyOutside')
      BY <1>a, <2>0, <2>1 DEF CopyOutside
    <2>3. QED
      BY <2>1, <2>2, RollbackKeeps
  <1>25. CASE RestoreFstab
    <2>1. /\ stage \in Rollback /\ stage' \in Rollback \cup {"failed"}
          /\ UNCHANGED <<layout, committed>>
          /\ host' \in {host, With("fstab", "old"), With("fstab", "torn")}
      BY <1>25 DEF RestoreFstab, Attempt, Goes, KeepsRun, Rollback
    <2>2. host' \in HostType /\ (CopyOutside => CopyOutside')
      BY <2>1, <1>h DEF CopyOutside, Files
    <2>3. QED
      BY <2>1, <2>2, RollbackKeeps
  <1>26. CASE RestoreConfig
    <2>1. /\ stage \in Rollback /\ stage' \in Rollback \cup {"failed"}
          /\ UNCHANGED <<layout, committed>>
          /\ host' \in {host} \cup {With(f, v) : f \in Files, v \in {"old", "torn"}}
      BY <1>26 DEF RestoreConfig, Attempt, Goes, KeepsRun, Rollback, Files
    <2>2. host' \in HostType /\ (CopyOutside => CopyOutside')
      BY <2>1, <1>h DEF CopyOutside
    <2>3. QED
      BY <2>1, <2>2, RollbackKeeps
  <1>27. CASE RemoveImage
    <2> DEFINE after == [host EXCEPT !.image = FALSE, !.target = "none"]
    <2>0. after \in HostType /\ after.base = host.base /\ after.backup = host.backup
      BY <1>a DEF HostType, Roots
    <2>1. /\ stage \in Rollback /\ stage' \in Rollback \cup {"failed"}
          /\ UNCHANGED <<layout, committed>> /\ host' \in {host, after}
      BY <1>27 DEF RemoveImage, Attempt, Goes, KeepsRun, Rollback
    <2> HIDE DEF after
    <2>2. host' \in HostType /\ (CopyOutside => CopyOutside')
      BY <1>a, <2>0, <2>1 DEF CopyOutside
    <2>3. QED
      BY <2>1, <2>2, RollbackKeeps
  <1>28. CASE MaskAgain
    <2> DEFINE after == [host EXCEPT !.masked = IF DataBack THEN FALSE ELSE TRUE]
    <2>0. after \in HostType /\ after.base = host.base /\ after.backup = host.backup
      BY <1>a DEF HostType, Roots
    <2>1. /\ stage \in Rollback /\ stage' \in Rollback \cup {"failed"}
          /\ UNCHANGED <<layout, committed>> /\ host' \in {host, after}
      BY <1>28 DEF MaskAgain, Attempt, Goes, KeepsRun, Rollback
    <2> HIDE DEF after
    <2>2. host' \in HostType /\ (CopyOutside => CopyOutside')
      BY <1>a, <2>0, <2>1 DEF CopyOutside
    <2>3. QED
      BY <2>1, <2>2, RollbackKeeps
  <1>29. CASE StartAgain
    <2>1. /\ stage \in Rollback /\ stage' \in Rollback \cup {"failed"}
          /\ UNCHANGED <<layout, committed>> /\ host' \in {host, Started(host)}
      BY <1>29 DEF StartAgain, Attempt, Goes, KeepsRun, Rollback
    <2>2. host' \in HostType /\ (CopyOutside => CopyOutside')
      BY <2>1, <1>a, <1>s DEF CopyOutside
    <2>3. QED
      BY <2>1, <2>2, RollbackKeeps
  <1>30. CASE Crash
    <2>1. UNCHANGED <<layout, committed>> /\ stage' \in {"cut", "crashed"}
            /\ host' \in {host} \cup HalfDone /\ (committed => stage' = "crashed")
      BY <1>30 DEF Crash, Goes, KeepsRun, DataInv, Rollback
    <2>2. CASE committed
      <3>1. stage = "commit"
        BY <1>30, <2>2 DEF Crash, Ended, DataInv
      <3>2. host' \in HostType /\ host'.target = "full"
        BY <2>1, <2>2, <3>1, <1>h, HalfDoneKeeps DEF DataInv, DataKept
      <3>3. QED
        BY <2>1, <2>2, <3>2 DEF DataInv, DataKept
    <2>3. CASE ~committed
      <3>1. host' \in HostType /\ CopyOutside'
        BY <2>1, <2>3, <1>h, HalfDoneCopy DEF CopyOutside, DataInv, DataKept
      <3>2. QED
        BY <2>1, <2>3, <3>1, CopyStays DEF DataInv
    <2>4. QED
      BY <2>2, <2>3
  <1>31. CASE Reboot
    <2>1. UNCHANGED <<layout, committed, stage>> /\ host' \in Booted /\ stage \in Ended
      BY <1>31 DEF Reboot
    <2>2. /\ host' \in HostType /\ host'.backup = host.backup
          /\ host.base = "full" => host'.base = "full"
          /\ host.target = "full" => host'.target = "full"
      <3> DEFINE Rise(m) == [host EXCEPT !.mounts = m, !.docker = FALSE]
      <3> DEFINE Ms == SUBSET {"orig", "target", "probe"}
      <3>1. ASSUME NEW m \in Ms
            PROVE  /\ Rise(m) \in HostType /\ Rise(m).backup = host.backup
                   /\ Rise(m).base = host.base /\ Rise(m).target = host.target
        BY <1>a DEF HostType
      <3>2. PICK m \in Ms : \/ host' = Rise(m) \/ host' = Started(Rise(m))
                           \/ host' = [Started([Rise(m) EXCEPT !.mounts = {}]) EXCEPT !.mounts = m]
        BY <2>1 DEF Booted
      <3>3. [Rise(m) EXCEPT !.mounts = {}] = Rise({})
        BY <1>a DEF HostType
      <3> HIDE DEF Rise
      <3>4. ASSUME NEW g \in HostType, NEW n \in Ms
            PROVE  LET k == [g EXCEPT !.mounts = n]
                   IN k \in HostType /\ k.base = g.base /\ k.target = g.target
                   /\ k.backup = g.backup
        BY DEF HostType
      <3>5. Started(Rise(m)) \in HostType /\ Started(Rise({})) \in HostType
        BY <3>1, StartedKeeps
      <3>6. CASE host' = Rise(m) \/ host' = Started(Rise(m))
        BY <3>1, <3>6, StartedKeeps
      <3>7. CASE host' = [Started(Rise({})) EXCEPT !.mounts = m]
        <4>1. /\ host' \in HostType /\ host'.base = Started(Rise({})).base
              /\ host'.target = Started(Rise({})).target /\ host'.backup = Started(Rise({})).backup
          BY <3>4, <3>5, <3>7
        <4>2. QED
          BY <3>1, <4>1, StartedKeeps
      <3>8. QED
        BY <3>2, <3>3, <3>6, <3>7
    <2>3. QED
      BY <2>1, <2>2 DEF DataInv, DataKept, CopyOutside, Ended
  <1>32. CASE UNCHANGED setupVars
    BY <1>32 DEF setupVars, DataInv, DataKept, CopyOutside
  <1>33. QED
    BY <1>1, <1>2, <1>3, <1>4, <1>5, <1>6, <1>7, <1>8, <1>9, <1>10, <1>11, <1>12, <1>13,
       <1>14, <1>15, <1>16, <1>17, <1>18, <1>19, <1>20, <1>21, <1>22, <1>23, <1>24, <1>25,
       <1>26, <1>27, <1>28, <1>29, <1>30, <1>31, <1>32 DEF SetupNext

(* The host before the set-up has its data at the root.                    *)
LEMMA DataInit == SetupInit => DataInv
<1> SUFFICES ASSUME SetupInit
             PROVE  DataInv
  OBVIOUS
<1>1. host \in HostType
  <2>1. [f \in Files |-> "old"] \in [Files -> {"old", "new", "torn"}]
    OBVIOUS
  <2>2. QED
    BY <2>1 DEF SetupInit, HostType, Roots
<1>2. CopyOutside /\ (~layout.own => host.base = "full" /\ host.mounts = {})
  BY DEF SetupInit, CopyOutside
<1>3. QED
  BY <1>1, <1>2 DEF SetupInit, DataInv, DataKept

(* At every moment the host holds a whole copy of the Docker data, on      *)
(* every layout and for any number of faults and reboots.                  *)
THEOREM DataIsKept == SetupSpec => []DataKept
<1>1. DataInv => DataKept BY DEF DataInv
<1> QED BY <1>1, DataInit, DataStep, PTL DEF SetupSpec

-----------------------------------------------------------------------------
(* Stretches of the set-up: before anything is changed, the unit masked,   *)
(* the new root there, the target on it; and of the rollback.              *)
Untouched == {"checks", "stop", "mask"}
Masking == {"backup", "image", "format", "probe", "unprobe", "daemon", "fstab", "dropin",
            "udev", "mkdir", "umount", "mount", "check", "restore", "unmask"}
Moved == {"image", "format", "probe", "unprobe", "daemon", "fstab", "dropin", "udev", "mkdir"}
Placed == {"umount", "mount", "check", "restore", "unmask", "start", "verify"}
OnTarget == {"check", "restore", "unmask", "start", "verify"}
Looking == {"rb_stop", "rb_look"}
Undoing == {"rb_umount", "rb_remount", "rb_move"}
Afterwards == {"rb_fstab", "rb_dropin", "rb_udev", "rb_daemon", "rb_image", "rb_docker", "rb_start"}

Places ==
  /\ stage \in Forward \cup Rollback \cup Ended \cup {"checks", "commit"}
  /\ found \in FoundType /\ reboots \in Nat

(* Which roots there are: only an image file without a mount of its own    *)
(* has the root renamed, and the rollback knows of it.                     *)
RootsKept ==
  /\ layout.own => host.base # "none"
  /\ ~layout.own /\ ~layout.loop => host.base = "full"
  /\ ~Renames => "moved" \notin flags
  /\ stage = "umount" \/ "unmounted" \in flags => layout.own
  /\ stage \in Undoing /\ found.origGone => layout.own
  /\ ~Renames /\ stage \in Undoing => ~found.moved
RootRenamed ==
  Renames =>
    /\ stage \in Untouched \cup {"backup"} =>
         host.base = "full" /\ host.backup = "none" /\ "moved" \notin flags
    /\ stage \in Moved => host.base = "none" /\ host.backup = "full" /\ "moved" \in flags
    /\ stage \in Placed => host.base = "blank" /\ host.backup = "full" /\ "moved" \in flags
    /\ stage \in Looking \cup Undoing =>
         \/ host.base = "full" /\ host.backup = "none" /\ "moved" \notin flags
         \/ host.base = "none" /\ host.backup = "full"
         \/ host.base = "blank" /\ host.backup = "full" /\ "moved" \in flags
    /\ stage \in Undoing => (found.moved <=> host.backup = "full")

(* Whether the new filesystem is the root, and what the rollback believes. *)
TargetMounted ==
  /\ "orig" \in host.mounts => layout.own
  /\ stage \in OnTarget => "target" \in host.mounts
  /\ stage \in Untouched \cup Moved \cup {"backup", "umount", "mount"} =>
       "target" \notin host.mounts /\ "mounted" \notin flags
  /\ stage \in Looking => /\ "target" \in host.mounts => RootExists
                          /\ "mounted" \in flags => "target" \in host.mounts
  /\ stage = "rb_umount" => /\ found.onTarget => "target" \in host.mounts
                            /\ found.unmounted /\ ~found.onTarget => "target" \notin host.mounts
  /\ stage \in Undoing \cup {"rb_confirm"} => (found.restored => found.unmounted)
  /\ stage \in {"rb_remount", "rb_move", "rb_confirm"} /\ found.unmounted =>
       "target" \notin host.mounts

(* What the rollback takes for restored is the old root with its data.     *)
OldRootBack ==
  /\ "target" \notin host.mounts
  /\ layout.own => "orig" \in host.mounts
  /\ ~layout.own => host.base = "full"
  /\ Renames => host.backup = "none"
RestoredIsBack ==
  /\ stage = "rb_confirm" /\ found.restored /\ Renames => host.base = "full" /\ host.backup = "none"
  /\ stage \in Afterwards /\ found.restored => OldRootBack
  /\ stage \in Afterwards \ {"rb_fstab"} /\ found.fstab => host.conf["fstab"] = "old"
  /\ stage = "rb_start" => DataBack

(* What a boot of the host finds.                                          *)
OldBoots == host.conf["fstab"] = "old" /\ (~layout.own => host.base = "full")
NewBoots == /\ host.conf["fstab"] = "new" /\ host.target = "full"
            /\ layout.loop => host.image /\ host.conf["dropin"] = "new"
BootIsSafe ==
  /\ ~unmasked => host.masked \/ OldBoots
  /\ stage \in {"unmask", "start", "verify", "commit", "done"} => NewBoots
  /\ stage = "crashed" /\ unmasked => NewBoots
MaskHolds ==
  /\ stage \in Masking => host.masked
  /\ stage \in Untouched \cup Masking \cup {"refused"} => ~unmasked
  /\ stage \in {"start", "verify"} => unmasked
  /\ stage \in Looking \cup Undoing \cup {"rb_confirm", "rb_fstab"} /\ "fstab" \in flags =>
       host.masked \/ unmasked
  /\ stage \in {"mask", "start"} \cup Masking => ~host.docker

(* How far the configuration is, by what is to come.                       *)
ConfigIsWritten ==
  /\ stage \notin Ended => \A f \in Files : f \notin flags => host.conf[f] = "old"
  /\ stage \in Untouched \cup {"backup", "image", "format", "probe", "unprobe", "daemon"} =>
       "fstab" \notin flags
  /\ stage \in {"dropin", "udev", "mkdir"} \cup Placed => host.conf["fstab"] = "new"
  /\ layout.loop /\ stage \in {"udev", "mkdir"} \cup Placed => host.conf["dropin"] = "new"
  /\ layout.loop /\ stage \in Moved \cup Placed /\ stage # "image" => host.image

(* Without an error to report, every step of the rollback was carried out. *)
SilentSoFar ==
  /\ stage \in {"mask", "start", "verify"} \cup Masking \cup Rollback => "owed" \in flags
  /\ ~errors /\ stage \in Undoing \cup {"rb_confirm"} \cup Afterwards =>
       found.restored /\ found.fstab
  /\ ~errors /\ stage \in {"rb_udev", "rb_daemon", "rb_image", "rb_docker", "rb_start"} =>
       host.conf["dropin"] = "old"
  /\ ~errors /\ stage \in {"rb_daemon", "rb_image", "rb_docker", "rb_start"} =>
       host.conf["udev"] = "old"
  /\ ~errors /\ stage \in {"rb_image", "rb_docker", "rb_start"} => host.conf["daemon"] = "old"
  /\ ~errors /\ stage \in {"rb_docker", "rb_start"} /\ "created" \in flags => ~host.image

HostInv ==
  /\ DataInv /\ Places /\ RootsKept /\ RootRenamed /\ TargetMounted /\ RestoredIsBack
  /\ ConfigIsWritten /\ BootIsSafe /\ MaskHolds /\ SilentSoFar /\ HostIsLeftWhole

(* What the rollback found, or believes, stays a record of truths.         *)
LEMMA FoundStep ==
  ASSUME found \in FoundType, host \in HostType, layout \in [loop : BOOLEAN, own : BOOLEAN],
         SetupNext
  PROVE  found' \in FoundType
<1>1. CASE Look
  <2> SUFFICES ASSUME NEW a \in BOOLEAN, NEW b \in BOOLEAN, NEW c \in BOOLEAN, NEW d \in BOOLEAN,
        found' = [onTarget |-> a, origGone |-> b, moved |-> c, unmounted |-> d,
                  restored |-> d, fstab |-> TRUE]
        PROVE found' \in FoundType
     BY <1>1, ZenonT(30) DEF Look
  <2> QED BY DEF FoundType
<1>2. CASE Confirm
  <2> SUFFICES ASSUME NEW a \in BOOLEAN, found' = [found EXCEPT !["restored"] = a]
        PROVE found' \in FoundType
     BY <1>2, ZenonT(30) DEF Confirm, Believe
  <2> QED BY DEF FoundType
<1>3. CASE UnmountTarget BY <1>3 DEF UnmountTarget, Attempt, Believe, FoundType
<1>4. CASE RemountOriginal BY <1>4 DEF RemountOriginal, Attempt, Believe, FoundType
<1>5. CASE MoveBack BY <1>5 DEF MoveBack, Attempt, Believe, FoundType
<1>6. CASE RestoreFstab BY <1>6 DEF RestoreFstab, Attempt, Believe, FoundType
<1>7. CASE RestoreConfig BY <1>7 DEF RestoreConfig, Attempt
<1>8. CASE StopAgain \/ RemoveImage \/ MaskAgain \/ StartAgain
  BY <1>8 DEF StopAgain, RemoveImage, MaskAgain, StartAgain, Attempt
<1>9. CASE Checks \/ StopDocker \/ MaskDocker \/ BackUp \/ CreateTarget \/ Format \/ MountProbe
      \/ CheckProbe \/ WriteConfig \/ MakeRoot \/ UnmountOriginal
  \/ MountTarget \/ CheckMount \/ RestoreData \/ UnmaskDocker \/ StartDocker \/ Verify
     \/ RemoveBackup \/ Crash \/ Reboot
  BY <1>9 DEF Checks, StopDocker, MaskDocker, BackUp, CreateTarget, Format, MountProbe, CheckProbe,
       WriteConfig, MakeRoot, UnmountOriginal, MountTarget, CheckMount, RestoreData, UnmaskDocker,
       StartDocker, Verify, RemoveBackup, Crash, Reboot, Command
<1> QED BY <1>1, <1>2, <1>3, <1>4, <1>5, <1>6, <1>7, <1>8, <1>9 DEF SetupNext

(* Docker's start makes a root that is not there, and leaves the rest.     *)
LEMMA StartedFields ==
  ASSUME NEW h \in HostType
  PROVE  LET s == Started(h)
         IN /\ s \in HostType /\ s.docker = TRUE
            /\ s.conf = h.conf /\ s.image = h.image /\ s.mounts = h.mounts /\ s.masked = h.masked
            /\ s.backup = h.backup
            /\ h.base \notin {"none", "blank"} => s.base = h.base
            /\ h.mounts \cap {"orig", "target"} # {} => s.base = h.base
            /\ h.base # "none" => s.base # "none"
            /\ h.target # "blank" => s.target = h.target
            /\ h.target # "none" => s.target # "none"
            /\ Visible(h) = "full" => Visible(s) = "full"
BY DEF HostType, Started, Roots, Visible

(* A boot mounts what fstab names, and Docker finds its data behind either *)
(* of the two configurations that are complete.                            *)
LEMMA BootFields ==
  ASSUME host \in HostType, NEW h \in Booted
  PROVE  /\ h.conf = host.conf /\ h.image = host.image /\ h.masked = host.masked
         /\ host.base = "full" => h.base = "full"
         /\ host.base # "none" => h.base # "none"
         /\ host.target = "full" => h.target = "full"
         /\ "orig" \in h.mounts => layout.own
         /\ host.target # "none" => h.target # "none"
         /\ h.mounts \cap {"target", "probe"} # {} => host.target # "none"
         /\ h.docker => ~host.masked
         /\ h.docker /\ (OldBoots \/ NewBoots) => Visible(h) = "full"
<1> DEFINE mounts == IF /\ host.conf["fstab"] = "new" /\ host.target # "none"
                        /\ layout.loop => host.image
                     THEN {"target"}
                     ELSE IF host.conf["fstab"] = "old" /\ layout.own THEN {"orig"} ELSE {}
          up == [host EXCEPT !.mounts = mounts, !.docker = FALSE]
          bare == [up EXCEPT !.mounts = {}]
<1>1. /\ up \in HostType /\ bare \in HostType
      /\ up.conf = host.conf /\ up.image = host.image /\ up.masked = host.masked
      /\ up.base = host.base /\ up.target = host.target /\ up.mounts = mounts /\ up.docker = FALSE
      /\ bare.conf = host.conf /\ bare.image = host.image /\ bare.masked = host.masked
      /\ bare.base = host.base /\ bare.target = host.target
  BY DEF HostType
<1>2. /\ OldBoots \/ NewBoots => Visible(up) = "full"
      /\ "orig" \in up.mounts => layout.own
      /\ up.mounts \cap {"target", "probe"} # {} => host.target # "none"
  BY <1>1 DEF OldBoots, NewBoots, Visible
<1>3. \/ h = up
      \/ h = Started(up) /\ ~host.masked
      \/ /\ h = [Started(bare) EXCEPT !.mounts = mounts] /\ ~host.masked
         /\ host.conf["fstab"] = "new" /\ layout.loop /\ host.conf["dropin"] # "new"
  BY DEF Booted
<1> HIDE DEF up, bare
<1>4. CASE h = up BY <1>1, <1>2, <1>4
<1>5. CASE h = Started(up) /\ ~host.masked BY <1>1, <1>2, <1>5, StartedFields
<1>6. CASE /\ h = [Started(bare) EXCEPT !.mounts = mounts] /\ ~host.masked
           /\ host.conf["fstab"] = "new" /\ layout.loop /\ host.conf["dropin"] # "new"
  <2>1. /\ h.conf = Started(bare).conf /\ h.image = Started(bare).image
        /\ h.masked = Started(bare).masked
        /\ h.base = Started(bare).base /\ h.target = Started(bare).target /\ h.mounts = mounts
    BY <1>1, <1>6, StartedFields DEF HostType
  <2>2. ~OldBoots /\ ~NewBoots BY <1>6 DEF OldBoots, NewBoots
  <2>3. /\ "orig" \in mounts => layout.own
        /\ mounts \cap {"target", "probe"} # {} => host.target # "none"
    OBVIOUS
  <2> HIDE DEF mounts
  <2>4. /\ Started(bare).conf = host.conf /\ Started(bare).image = host.image
        /\ Started(bare).masked = host.masked
        /\ host.base = "full" => Started(bare).base = "full"
        /\ host.base # "none" => Started(bare).base # "none"
        /\ host.target = "full" => Started(bare).target = "full"
        /\ host.target # "none" => Started(bare).target # "none"
    BY <1>1, StartedFields
  <2> QED BY <1>6, <2>1, <2>2, <2>3, <2>4
<1> QED BY <1>3, <1>4, <1>5, <1>6

(* The same of the host itself.                                            *)
LEMMA StartedHost ==
  ASSUME host \in HostType, NEW g, g = Started(host)
  PROVE  /\ g \in HostType /\ g.docker = TRUE
         /\ g.conf = host.conf /\ g.image = host.image /\ g.mounts = host.mounts
         /\ g.masked = host.masked /\ g.backup = host.backup
         /\ host.base \notin {"none", "blank"} => g.base = host.base
         /\ host.mounts \cap {"orig", "target"} # {} => g.base = host.base
         /\ host.base # "none" => g.base # "none"
         /\ host.target # "blank" => g.target = host.target
         /\ host.target # "none" => g.target # "none"
         /\ Visible(host) = "full" => Visible(g) = "full"
BY StartedFields

(* The rollback's unmount takes one mount away; it believes the root is    *)
(* unmounted only where it did so or found it so.                          *)
LEMMA UnmountTargetDoes ==
  ASSUME host \in HostType, found \in FoundType, UnmountTarget
  PROVE  /\ stage = "rb_umount" /\ stage' = "rb_remount" /\ UNCHANGED <<layout, flags, unmasked>>
         /\ host'.base = host.base /\ host'.backup = host.backup /\ host'.target = host.target
         /\ host'.mounts \subseteq host.mounts
         /\ found'.moved = found.moved /\ found'.origGone = found.origGone
         /\ (found'.restored => found.restored)
         /\ found'.unmounted =>
              IF found.onTarget THEN "target" \in host.mounts => "target" \notin host'.mounts
                                ELSE found.unmounted /\ host' = host
         /\ (found.restored => found.unmounted) => (found'.restored => found'.unmounted)
<1> DEFINE m == IF "target" \in host.mounts THEN "target" ELSE "orig"
           after == Unmounted(m)
<1>1. /\ after.base = host.base /\ after.backup = host.backup /\ after.target = host.target
      /\ after.mounts = host.mounts \ {m}
  BY DEF Unmounted, HostType
<1>2. /\ stage = "rb_umount" /\ stage' = "rb_remount" /\ UNCHANGED <<layout, flags, unmasked>>
      /\ \/ ~found.onTarget /\ host' = host /\ found' = found
         \/ found.onTarget /\ host' = after /\ found' = [found EXCEPT !["unmounted"] = TRUE]
         \/ /\ found.onTarget /\ host' = host
            /\ found' = [found EXCEPT !.unmounted = FALSE, !.restored = FALSE]
  BY DEF UnmountTarget, Attempt, Goes, KeepsRun, Believe
<1> HIDE DEF after
<1>3. CASE ~found.onTarget /\ host' = host /\ found' = found
  BY <1>2, <1>3
<1>4. CASE found.onTarget /\ host' = after /\ found' = [found EXCEPT !["unmounted"] = TRUE]
  BY <1>1, <1>2, <1>4 DEF FoundType
<1>5. CASE /\ found.onTarget /\ host' = host
           /\ found' = [found EXCEPT !.unmounted = FALSE, !.restored = FALSE]
  BY <1>2, <1>5 DEF FoundType
<1> QED BY <1>2, <1>3, <1>4, <1>5

(* A command that fails half way changes the one thing it works on.        *)
LEMMA HalfDoneFields ==
  ASSUME host \in HostType, NEW h \in HalfDone
  PROVE  /\ h.masked = host.masked /\ h.docker = host.docker /\ h.mounts = host.mounts
         /\ h.base = host.base
         /\ stage \in {"backup", "image", "restore", "fstab", "dropin", "udev", "rb_fstab",
                       "commit"}
         /\ stage # "restore" => h.target = host.target
         /\ stage # "image" => h.image = host.image
         /\ stage \notin {"fstab", "dropin", "udev", "rb_fstab"} => h.conf = host.conf
         /\ stage = "rb_fstab" => "fstab" \in flags
<1>1. \/ stage \in {"backup", "commit"} /\ h = [host EXCEPT !.backup = "partial"]
      \/ stage = "image" /\ h = [host EXCEPT !.image = TRUE]
      \/ stage = "restore" /\ h = [host EXCEPT !.target = "partial"]
      \/ stage \in {"fstab", "dropin", "udev"} /\ h = With(stage, "torn")
      \/ stage = "rb_fstab" /\ "fstab" \in flags /\ h = With("fstab", "torn")
  BY DEF HalfDone
<1>2. CASE stage \in {"backup", "commit"} /\ h = [host EXCEPT !.backup = "partial"]
  BY <1>2 DEF HostType
<1>3. CASE stage = "image" /\ h = [host EXCEPT !.image = TRUE]
  BY <1>3 DEF HostType
<1>4. CASE stage = "restore" /\ h = [host EXCEPT !.target = "partial"]
  BY <1>4 DEF HostType
<1>5. CASE stage \in {"fstab", "dropin", "udev"} /\ h = With(stage, "torn")
  BY <1>5 DEF HostType, With
<1>6. CASE stage = "rb_fstab" /\ "fstab" \in flags /\ h = With("fstab", "torn")
  BY <1>6 DEF HostType, With
<1> QED BY <1>1, <1>2, <1>3, <1>4, <1>5, <1>6

(* The rollback's look at the host errs only where it reports an error.    *)
LEMMA LookSays ==
  ASSUME host \in HostType, layout \in [loop : BOOLEAN, own : BOOLEAN], Look
  PROVE  /\ stage = "rb_look" /\ stage' = "rb_umount" /\ UNCHANGED <<host, flags, layout, unmasked>>
         /\ ~errors' => ~errors /\ found'.restored /\ found'.fstab
         /\ found'.restored => found'.unmounted
         /\ found'.moved => "moved" \in flags \/ Renames
         /\ found'.origGone => "unmounted" \in flags \/ layout.own
         /\ found'.onTarget => "mounted" \in flags \/ "target" \in host.mounts
         /\ found'.unmounted /\ "target" \in host.mounts /\ RootExists => found'.onTarget
<1>1. stage = "rb_look" /\ stage' = "rb_umount" /\ UNCHANGED <<host, flags, layout, unmasked>>
  BY DEF Look, Goes, KeepsRun
<1>2. PICK blind \in BOOLEAN : /\ IF blind THEN errors' = TRUE ELSE errors' = errors
                               /\ found'.restored = ~blind /\ found'.fstab = TRUE
                               /\ found'.unmounted = ~blind
  BY DEF Look
<1>3. found'.moved = ("moved" \in flags \/ (Renames /\ host.backup # "none" /\ ~RootExists))
  BY DEF Look
<1>4. found'.origGone => "unmounted" \in flags \/ layout.own
  BY DEF Look
<1>5. \E unknown \in BOOLEAN :
        LET changed == /\ RootExists /\ ~unknown
                       /\ "target" \in host.mounts \/ (layout.own /\ MountedAtRoot = {})
        IN found'.onTarget = ("mounted" \in flags \/ (changed /\ MountedAtRoot # {}))
  BY DEF Look
<1>6. found'.onTarget => "mounted" \in flags \/ "target" \in host.mounts
  BY <1>5
<1>7. found'.unmounted /\ "target" \in host.mounts /\ RootExists => found'.onTarget
  BY DEF Look, MountedAtRoot
<1> QED BY <1>1, <1>2, <1>3, <1>4, <1>6, <1>7

(* Data that is back at the root's own place is data a boot finds.         *)
LEMMA BackBoots ==
  ASSUME RestoredIsBack, stage \in {"rb_docker", "rb_start"}, DataBack
  PROVE  OldBoots
BY DEF RestoredIsBack, DataBack, OldBoots, OldRootBack, Afterwards

(* The rollback's remount adds the old mount, and restores only over a     *)
(* root that is not mounted.                                               *)
LEMMA RemountOriginalDoes ==
  ASSUME host \in HostType, found \in FoundType, RemountOriginal
  PROVE  /\ stage = "rb_remount" /\ stage' = "rb_move" /\ UNCHANGED <<layout, flags, unmasked>>
         /\ host'.base = host.base /\ host'.backup = host.backup /\ host'.target = host.target
         /\ host'.mounts \in {host.mounts, host.mounts \cup {"orig"}}
         /\ host' # host => found.unmounted /\ found.origGone
         /\ found'.moved = found.moved /\ found'.origGone = found.origGone
         /\ found'.unmounted = found.unmounted
         /\ found'.restored => found.restored \/ found.unmounted
BY DEF RemountOriginal, Attempt, Goes, KeepsRun, Mounted, Believe, HostType, FoundType

(* A root of its own, and a copy by rsync, stay in place.                  *)
LEMMA StepRootsKept ==
  ASSUME DataInv, Places, RootsKept, SetupNext
  PROVE  RootsKept'
<1>h. /\ host \in HostType /\ layout \in [loop : BOOLEAN, own : BOOLEAN]
      /\ found \in FoundType /\ reboots \in Nat
  BY DEF DataInv, Places
<1> USE <1>h DEF RootsKept, HostType, FoundType, KeepsRun, Goes, Fault, Command, Attempt,
  HalfDone, With, Files, Mounted, Unmounted, MountedAtRoot, RootExists, BackInPlace, Believe,
  Renames, Visible, DataBack, Untouched, Masking, Moved, Placed, OnTarget, Looking, Undoing,
  Afterwards, Rollback, Ended
<1>1. CASE Checks BY <1>1 DEF Checks
<1>2. CASE StopDocker BY <1>2 DEF StopDocker
<1>3. CASE MaskDocker BY <1>3 DEF MaskDocker
<1>4. CASE BackUp BY <1>4, ZenonT(60) DEF BackUp
<1>5. CASE CreateTarget BY <1>5 DEF CreateTarget
<1>6. CASE Format BY <1>6 DEF Format
<1>7. CASE MountProbe BY <1>7 DEF MountProbe
<1>8. CASE CheckProbe BY <1>8 DEF CheckProbe
<1>9. CASE WriteConfig BY <1>9 DEF WriteConfig
<1>10. CASE MakeRoot BY <1>10 DEF MakeRoot
<1>11. CASE UnmountOriginal BY <1>11 DEF UnmountOriginal
<1>12. CASE MountTarget BY <1>12 DEF MountTarget
<1>13. CASE CheckMount BY <1>13 DEF CheckMount
<1>14. CASE RestoreData BY <1>14 DEF RestoreData
<1>15. CASE UnmaskDocker BY <1>15 DEF UnmaskDocker
<1>16. CASE StartDocker
  <2>1. host' = host \/ host' = Started(host) BY <1>16 DEF StartDocker
  <2>2. CASE host' = host BY <1>16, <2>2 DEF StartDocker
  <2>3. CASE host' = Started(host)
    <3> HIDE DEF HostType, FoundType, HalfDone
    <3> QED BY <1>16, <2>3, <1>h, StartedHost DEF StartDocker
  <2> QED BY <2>1, <2>2, <2>3
<1>17. CASE Verify BY <1>17 DEF Verify
<1>18. CASE RemoveBackup BY <1>18 DEF RemoveBackup
<1>19. CASE StopAgain BY <1>19 DEF StopAgain
<1>20. CASE Look BY <1>20, LookSays
<1>21. CASE UnmountTarget BY <1>21, UnmountTargetDoes
<1>22. CASE RemountOriginal BY <1>22, RemountOriginalDoes
<1>23. CASE MoveBack BY <1>23 DEF MoveBack
<1>24. CASE Confirm BY <1>24 DEF Confirm
<1>25. CASE RestoreFstab BY <1>25 DEF RestoreFstab
<1>26. CASE RestoreConfig BY <1>26 DEF RestoreConfig
<1>27. CASE RemoveImage BY <1>27 DEF RemoveImage
<1>28. CASE MaskAgain BY <1>28 DEF MaskAgain
<1>29. CASE StartAgain
  <2>1. host' = host \/ host' = Started(host) BY <1>29 DEF StartAgain
  <2>2. CASE host' = host BY <1>29, <2>2 DEF StartAgain
  <2>3. CASE host' = Started(host)
    <3> HIDE DEF HostType, FoundType, HalfDone
    <3> QED BY <1>29, <2>3, <1>h, StartedHost DEF StartAgain
  <2> QED BY <2>1, <2>2, <2>3
<1>30. CASE Crash
  <2>1. CASE host' = host BY <1>30, <2>1 DEF Crash, Places, Forward
  <2>2. CASE host' \in HalfDone
    <3> HIDE DEF HalfDone
    <3> QED BY <1>30, <2>2, HalfDoneFields DEF Crash, Places, Forward
  <2> QED BY <1>30, <2>1, <2>2 DEF Crash
<1>31. CASE Reboot BY <1>31, BootFields DEF Reboot
<1> QED BY <1>1, <1>2, <1>3, <1>4, <1>5, <1>6, <1>7, <1>8, <1>9, <1>10, <1>11, <1>12, <1>13,
           <1>14, <1>15, <1>16, <1>17, <1>18, <1>19, <1>20, <1>21, <1>22, <1>23, <1>24, <1>25,
           <1>26, <1>27, <1>28, <1>29, <1>30, <1>31 DEF SetupNext

(* The renamed root: where the data is, by how far the command is.         *)
LEMMA StepRootRenamed ==
  ASSUME DataInv, Places, RootRenamed, RootsKept, TargetMounted, SetupNext
  PROVE  RootRenamed'
<1>h. /\ host \in HostType /\ layout \in [loop : BOOLEAN, own : BOOLEAN]
      /\ found \in FoundType /\ reboots \in Nat
  BY DEF DataInv, Places
<1> USE <1>h DEF RootRenamed, RootsKept, TargetMounted, HostType, FoundType, KeepsRun, Goes,
  Fault, Command, Attempt, HalfDone, With, Files, Mounted, Unmounted, MountedAtRoot, RootExists,
  BackInPlace, Believe, Renames, Visible, DataBack, Untouched, Masking, Moved, Placed, OnTarget,
  Looking, Undoing, Afterwards, Rollback, Ended
<1>1. CASE Checks BY <1>1 DEF Checks
<1>2. CASE StopDocker BY <1>2 DEF StopDocker
<1>3. CASE MaskDocker BY <1>3 DEF MaskDocker
<1>4. CASE BackUp BY <1>4 DEF BackUp
<1>5. CASE CreateTarget BY <1>5 DEF CreateTarget
<1>6. CASE Format BY <1>6 DEF Format
<1>7. CASE MountProbe BY <1>7 DEF MountProbe
<1>8. CASE CheckProbe BY <1>8 DEF CheckProbe
<1>9. CASE WriteConfig BY <1>9 DEF WriteConfig
<1>10. CASE MakeRoot BY <1>10 DEF MakeRoot
<1>11. CASE UnmountOriginal BY <1>11 DEF UnmountOriginal
<1>12. CASE MountTarget BY <1>12 DEF MountTarget
<1>13. CASE CheckMount BY <1>13 DEF CheckMount
<1>14. CASE RestoreData BY <1>14 DEF RestoreData
<1>15. CASE UnmaskDocker BY <1>15 DEF UnmaskDocker
<1>16. CASE StartDocker
  <2>1. host' = host \/ host' = Started(host) BY <1>16 DEF StartDocker
  <2>2. CASE host' = host BY <1>16, <2>2 DEF StartDocker
  <2>3. CASE host' = Started(host)
    <3> HIDE DEF HostType, FoundType, HalfDone
    <3> QED BY <1>16, <2>3, <1>h, StartedHost DEF StartDocker
  <2> QED BY <2>1, <2>2, <2>3
<1>17. CASE Verify BY <1>17 DEF Verify
<1>18. CASE RemoveBackup BY <1>18 DEF RemoveBackup
<1>19. CASE StopAgain BY <1>19 DEF StopAgain
<1>20. CASE Look BY <1>20 DEF Look
<1>21. CASE UnmountTarget BY <1>21, UnmountTargetDoes
<1>22. CASE RemountOriginal BY <1>22, RemountOriginalDoes
<1>23. CASE MoveBack BY <1>23 DEF MoveBack
<1>24. CASE Confirm BY <1>24 DEF Confirm
<1>25. CASE RestoreFstab BY <1>25 DEF RestoreFstab
<1>26. CASE RestoreConfig BY <1>26 DEF RestoreConfig
<1>27. CASE RemoveImage BY <1>27 DEF RemoveImage
<1>28. CASE MaskAgain BY <1>28 DEF MaskAgain
<1>29. CASE StartAgain
  <2>1. host' = host \/ host' = Started(host) BY <1>29 DEF StartAgain
  <2>2. CASE host' = host BY <1>29, <2>2 DEF StartAgain
  <2>3. CASE host' = Started(host)
    <3> HIDE DEF HostType, FoundType, HalfDone
    <3> QED BY <1>29, <2>3, <1>h, StartedHost DEF StartAgain
  <2> QED BY <2>1, <2>2, <2>3
<1>30. CASE Crash
  <2>1. CASE host' = host BY <1>30, <2>1 DEF Crash, Places, Forward
  <2>2. CASE host' \in HalfDone
    <3> HIDE DEF HalfDone
    <3> QED BY <1>30, <2>2, HalfDoneFields DEF Crash, Places, Forward
  <2> QED BY <1>30, <2>1, <2>2 DEF Crash
<1>31. CASE Reboot BY <1>31, BootFields DEF Reboot
<1> QED BY <1>1, <1>2, <1>3, <1>4, <1>5, <1>6, <1>7, <1>8, <1>9, <1>10, <1>11, <1>12, <1>13,
           <1>14, <1>15, <1>16, <1>17, <1>18, <1>19, <1>20, <1>21, <1>22, <1>23, <1>24, <1>25,
           <1>26, <1>27, <1>28, <1>29, <1>30, <1>31 DEF SetupNext

(* Where the new filesystem is mounted, and what the rollback believes.    *)
LEMMA StepTargetMounted ==
  ASSUME DataInv, Places, TargetMounted, RootsKept, RootRenamed, SetupNext
  PROVE  TargetMounted'
<1>h. /\ host \in HostType /\ layout \in [loop : BOOLEAN, own : BOOLEAN]
      /\ found \in FoundType /\ reboots \in Nat
  BY DEF DataInv, Places
<1> USE <1>h DEF TargetMounted, RootsKept, RootRenamed, RootExists, HostType, FoundType,
  KeepsRun, Goes, Fault, Command, Attempt, HalfDone, With, Files, Mounted, Unmounted,
  MountedAtRoot, RootExists, BackInPlace, Believe, Renames, Visible, DataBack, Untouched,
  Masking, Moved, Placed, OnTarget, Looking, Undoing, Afterwards, Rollback, Ended
<1>1. CASE Checks BY <1>1 DEF Checks
<1>2. CASE StopDocker BY <1>2 DEF StopDocker
<1>3. CASE MaskDocker BY <1>3 DEF MaskDocker
<1>4. CASE BackUp BY <1>4, ZenonT(60) DEF BackUp
<1>5. CASE CreateTarget BY <1>5 DEF CreateTarget
<1>6. CASE Format BY <1>6 DEF Format
<1>7. CASE MountProbe BY <1>7 DEF MountProbe
<1>8. CASE CheckProbe BY <1>8 DEF CheckProbe
<1>9. CASE WriteConfig BY <1>9 DEF WriteConfig
<1>10. CASE MakeRoot BY <1>10 DEF MakeRoot
<1>11. CASE UnmountOriginal BY <1>11 DEF UnmountOriginal
<1>12. CASE MountTarget BY <1>12 DEF MountTarget
<1>13. CASE CheckMount BY <1>13 DEF CheckMount
<1>14. CASE RestoreData BY <1>14 DEF RestoreData
<1>15. CASE UnmaskDocker BY <1>15 DEF UnmaskDocker
<1>16. CASE StartDocker
  <2>1. host' = host \/ host' = Started(host) BY <1>16 DEF StartDocker
  <2>2. CASE host' = host BY <1>16, <2>2 DEF StartDocker
  <2>3. CASE host' = Started(host)
    <3> HIDE DEF HostType, FoundType, HalfDone
    <3> QED BY <1>16, <2>3, <1>h, StartedHost DEF StartDocker
  <2> QED BY <2>1, <2>2, <2>3
<1>17. CASE Verify BY <1>17 DEF Verify
<1>18. CASE RemoveBackup BY <1>18 DEF RemoveBackup
<1>19. CASE StopAgain BY <1>19 DEF StopAgain
<1>20. CASE Look BY <1>20, LookSays
<1>21. CASE UnmountTarget BY <1>21, UnmountTargetDoes
<1>22. CASE RemountOriginal BY <1>22, RemountOriginalDoes
<1>23. CASE MoveBack BY <1>23 DEF MoveBack
<1>24. CASE Confirm BY <1>24 DEF Confirm
<1>25. CASE RestoreFstab BY <1>25 DEF RestoreFstab
<1>26. CASE RestoreConfig BY <1>26 DEF RestoreConfig
<1>27. CASE RemoveImage BY <1>27 DEF RemoveImage
<1>28. CASE MaskAgain BY <1>28 DEF MaskAgain
<1>29. CASE StartAgain
  <2>1. host' = host \/ host' = Started(host) BY <1>29 DEF StartAgain
  <2>2. CASE host' = host BY <1>29, <2>2 DEF StartAgain
  <2>3. CASE host' = Started(host)
    <3> HIDE DEF HostType, FoundType, HalfDone
    <3> QED BY <1>29, <2>3, <1>h, StartedHost DEF StartAgain
  <2> QED BY <2>1, <2>2, <2>3
<1>30. CASE Crash
  <2>1. CASE host' = host BY <1>30, <2>1 DEF Crash, Places, Forward
  <2>2. CASE host' \in HalfDone
    <3> HIDE DEF HalfDone
    <3> QED BY <1>30, <2>2, HalfDoneFields DEF Crash, Places, Forward
  <2> QED BY <1>30, <2>1, <2>2 DEF Crash
<1>31. CASE Reboot BY <1>31, BootFields DEF Reboot
<1> QED BY <1>1, <1>2, <1>3, <1>4, <1>5, <1>6, <1>7, <1>8, <1>9, <1>10, <1>11, <1>12, <1>13,
           <1>14, <1>15, <1>16, <1>17, <1>18, <1>19, <1>20, <1>21, <1>22, <1>23, <1>24, <1>25,
           <1>26, <1>27, <1>28, <1>29, <1>30, <1>31 DEF SetupNext

(* What the rollback takes for restored is the old root with its data.     *)
LEMMA StepRestoredIsBack ==
  ASSUME DataInv, Places, RestoredIsBack, RootsKept, RootRenamed, TargetMounted,
         ConfigIsWritten, SetupNext
  PROVE  RestoredIsBack'
<1>h. /\ host \in HostType /\ layout \in [loop : BOOLEAN, own : BOOLEAN]
      /\ found \in FoundType /\ reboots \in Nat
  BY DEF DataInv, Places
<1> USE <1>h DEF RestoredIsBack, RootsKept, RootRenamed, TargetMounted, ConfigIsWritten,
  OldRootBack, DataBack, HostType, FoundType, KeepsRun, Goes, Fault, Command, Attempt, HalfDone,
  With, Files, Mounted, Unmounted, MountedAtRoot, RootExists, BackInPlace, Believe, Renames,
  Visible, DataBack, Untouched, Masking, Moved, Placed, OnTarget, Looking, Undoing, Afterwards,
  Rollback, Ended
<1>1. CASE Checks BY <1>1 DEF Checks
<1>2. CASE StopDocker BY <1>2 DEF StopDocker
<1>3. CASE MaskDocker BY <1>3 DEF MaskDocker
<1>4. CASE BackUp BY <1>4 DEF BackUp
<1>5. CASE CreateTarget BY <1>5 DEF CreateTarget
<1>6. CASE Format BY <1>6 DEF Format
<1>7. CASE MountProbe BY <1>7 DEF MountProbe
<1>8. CASE CheckProbe BY <1>8 DEF CheckProbe
<1>9. CASE WriteConfig BY <1>9 DEF WriteConfig
<1>10. CASE MakeRoot BY <1>10 DEF MakeRoot
<1>11. CASE UnmountOriginal BY <1>11 DEF UnmountOriginal
<1>12. CASE MountTarget BY <1>12 DEF MountTarget
<1>13. CASE CheckMount BY <1>13 DEF CheckMount
<1>14. CASE RestoreData BY <1>14 DEF RestoreData
<1>15. CASE UnmaskDocker BY <1>15 DEF UnmaskDocker
<1>16. CASE StartDocker
  <2>1. host' = host \/ host' = Started(host) BY <1>16 DEF StartDocker
  <2>2. CASE host' = host BY <1>16, <2>2 DEF StartDocker
  <2>3. CASE host' = Started(host)
    <3> HIDE DEF HostType, FoundType, HalfDone
    <3> QED BY <1>16, <2>3, <1>h, StartedHost DEF StartDocker
  <2> QED BY <2>1, <2>2, <2>3
<1>17. CASE Verify BY <1>17 DEF Verify
<1>18. CASE RemoveBackup BY <1>18 DEF RemoveBackup
<1>19. CASE StopAgain BY <1>19 DEF StopAgain
<1>20. CASE Look BY <1>20 DEF Look
<1>21. CASE UnmountTarget BY <1>21 DEF UnmountTarget
<1>22. CASE RemountOriginal BY <1>22 DEF RemountOriginal
<1>23. CASE MoveBack BY <1>23, ZenonT(60) DEF MoveBack
<1>24. CASE Confirm BY <1>24 DEF Confirm
<1>25. CASE RestoreFstab BY <1>25 DEF RestoreFstab
<1>26. CASE RestoreConfig BY <1>26 DEF RestoreConfig
<1>27. CASE RemoveImage
  <2>1. /\ stage = "rb_image" /\ stage' = "rb_docker" /\ UNCHANGED <<found, layout>>
        /\ host'.mounts = host.mounts /\ host'.base = host.base /\ host'.backup = host.backup
        /\ host'.conf = host.conf
    BY <1>27 DEF RemoveImage
  <2> QED BY <2>1
<1>28. CASE MaskAgain BY <1>28 DEF MaskAgain
<1>29. CASE StartAgain
  <2>1. host' = host \/ host' = Started(host) BY <1>29 DEF StartAgain
  <2>2. CASE host' = host BY <1>29, <2>2 DEF StartAgain
  <2>3. CASE host' = Started(host)
    <3> HIDE DEF HostType, FoundType, HalfDone
    <3> QED BY <1>29, <2>3, <1>h, StartedHost DEF StartAgain
  <2> QED BY <2>1, <2>2, <2>3
<1>30. CASE Crash
  <2>1. CASE host' = host BY <1>30, <2>1 DEF Crash, Places, Forward
  <2>2. CASE host' \in HalfDone
    <3> HIDE DEF HalfDone
    <3> QED BY <1>30, <2>2, HalfDoneFields DEF Crash, Places, Forward
  <2> QED BY <1>30, <2>1, <2>2 DEF Crash
<1>31. CASE Reboot BY <1>31, BootFields DEF Reboot
<1> QED BY <1>1, <1>2, <1>3, <1>4, <1>5, <1>6, <1>7, <1>8, <1>9, <1>10, <1>11, <1>12, <1>13,
           <1>14, <1>15, <1>16, <1>17, <1>18, <1>19, <1>20, <1>21, <1>22, <1>23, <1>24, <1>25,
           <1>26, <1>27, <1>28, <1>29, <1>30, <1>31 DEF SetupNext

(* A file whose flag is not set is as it was, and fstab is written in      *)
(* time.                                                                   *)
LEMMA StepConfigIsWritten ==
  ASSUME DataInv, Places, ConfigIsWritten, SetupNext
  PROVE  ConfigIsWritten'
<1>h. /\ host \in HostType /\ layout \in [loop : BOOLEAN, own : BOOLEAN]
      /\ found \in FoundType /\ reboots \in Nat
  BY DEF DataInv, Places
<1> USE <1>h DEF ConfigIsWritten, HostType, FoundType, KeepsRun, Goes, Fault, Command, Attempt,
  HalfDone, With, Files, Mounted, Unmounted, MountedAtRoot, RootExists, BackInPlace, Believe,
  Renames, Visible, DataBack, Untouched, Masking, Moved, Placed, OnTarget, Looking, Undoing,
  Afterwards, Rollback, Ended
<1>1. CASE Checks BY <1>1 DEF Checks
<1>2. CASE StopDocker BY <1>2 DEF StopDocker
<1>3. CASE MaskDocker BY <1>3 DEF MaskDocker
<1>4. CASE BackUp BY <1>4, ZenonT(60) DEF BackUp
<1>5. CASE CreateTarget BY <1>5 DEF CreateTarget
<1>6. CASE Format BY <1>6 DEF Format
<1>7. CASE MountProbe BY <1>7 DEF MountProbe
<1>8. CASE CheckProbe BY <1>8 DEF CheckProbe
<1>9. CASE WriteConfig BY <1>9 DEF WriteConfig
<1>10. CASE MakeRoot BY <1>10 DEF MakeRoot
<1>11. CASE UnmountOriginal BY <1>11 DEF UnmountOriginal
<1>12. CASE MountTarget BY <1>12 DEF MountTarget
<1>13. CASE CheckMount BY <1>13 DEF CheckMount
<1>14. CASE RestoreData BY <1>14 DEF RestoreData
<1>15. CASE UnmaskDocker BY <1>15 DEF UnmaskDocker
<1>16. CASE StartDocker
  <2>1. host' = host \/ host' = Started(host) BY <1>16 DEF StartDocker
  <2>2. CASE host' = host BY <1>16, <2>2 DEF StartDocker
  <2>3. CASE host' = Started(host)
    <3> HIDE DEF HostType, FoundType, HalfDone
    <3> QED BY <1>16, <2>3, <1>h, StartedHost DEF StartDocker
  <2> QED BY <2>1, <2>2, <2>3
<1>17. CASE Verify BY <1>17 DEF Verify
<1>18. CASE RemoveBackup BY <1>18 DEF RemoveBackup
<1>19. CASE StopAgain BY <1>19 DEF StopAgain
<1>20. CASE Look BY <1>20 DEF Look
<1>21. CASE UnmountTarget BY <1>21 DEF UnmountTarget
<1>22. CASE RemountOriginal BY <1>22 DEF RemountOriginal
<1>23. CASE MoveBack BY <1>23, ZenonT(60) DEF MoveBack
<1>24. CASE Confirm BY <1>24 DEF Confirm
<1>25. CASE RestoreFstab BY <1>25 DEF RestoreFstab
<1>26. CASE RestoreConfig BY <1>26 DEF RestoreConfig
<1>27. CASE RemoveImage BY <1>27 DEF RemoveImage
<1>28. CASE MaskAgain BY <1>28 DEF MaskAgain
<1>29. CASE StartAgain
  <2>1. host' = host \/ host' = Started(host) BY <1>29 DEF StartAgain
  <2>2. CASE host' = host BY <1>29, <2>2 DEF StartAgain
  <2>3. CASE host' = Started(host)
    <3> HIDE DEF HostType, FoundType, HalfDone
    <3> QED BY <1>29, <2>3, <1>h, StartedHost DEF StartAgain
  <2> QED BY <2>1, <2>2, <2>3
<1>30. CASE Crash
  <2>1. CASE host' = host BY <1>30, <2>1 DEF Crash, Places, Forward
  <2>2. CASE host' \in HalfDone
    <3> HIDE DEF HalfDone
    <3> QED BY <1>30, <2>2, HalfDoneFields DEF Crash, Places, Forward
  <2> QED BY <1>30, <2>1, <2>2 DEF Crash
<1>31. CASE Reboot BY <1>31, BootFields DEF Reboot
<1> QED BY <1>1, <1>2, <1>3, <1>4, <1>5, <1>6, <1>7, <1>8, <1>9, <1>10, <1>11, <1>12, <1>13,
           <1>14, <1>15, <1>16, <1>17, <1>18, <1>19, <1>20, <1>21, <1>22, <1>23, <1>24, <1>25,
           <1>26, <1>27, <1>28, <1>29, <1>30, <1>31 DEF SetupNext

(* A boot finds the data, or does not start Docker.                        *)
(* The rollback unmasks the unit only where a boot finds the old data.     *)
LEMMA MaskedOrBoots ==
  ASSUME host \in HostType, RestoredIsBack, BootIsSafe, MaskAgain
  PROVE  BootIsSafe'
<1>1. stage = "rb_docker" /\ stage' \in {"rb_start", "failed"} /\ UNCHANGED <<layout, unmasked>>
  BY DEF MaskAgain, Attempt, Fault, KeepsRun, Goes
<1>2. host'.conf = host.conf /\ host'.base = host.base
  BY SMTT(30) DEF MaskAgain, Attempt, Fault, KeepsRun, Goes, HostType
<1>3. host'.masked \in {host.masked, IF DataBack THEN FALSE ELSE TRUE}
  <2>1. \/ host' = host
        \/ host' = [host EXCEPT !.masked = IF DataBack THEN FALSE ELSE TRUE]
    BY Zenon DEF MaskAgain, Attempt
  <2>2. CASE host' = host
    BY <2>2
  <2>3. CASE host' = [host EXCEPT !.masked = IF DataBack THEN FALSE ELSE TRUE]
    <3>1. host'.masked = IF DataBack THEN FALSE ELSE TRUE
      <4> HIDE DEF DataBack
      <4> QED BY <2>3, Zenon DEF HostType
    <3> QED BY <3>1
  <2> QED BY <2>1, <2>2, <2>3
<1>4. OldBoots' <=> OldBoots
  BY <1>1, <1>2 DEF OldBoots
<1>5. DataBack => OldBoots
  BY <1>1, BackBoots
<1>6. ~unmasked' => host'.masked \/ OldBoots'
  <2>1. CASE host'.masked = host.masked
    BY <1>1, <1>4, <2>1 DEF BootIsSafe
  <2>2. CASE host'.masked = (IF DataBack THEN FALSE ELSE TRUE)
    <3>1. CASE DataBack
      BY <1>4, <1>5, <3>1
    <3>2. CASE ~DataBack
      BY <2>2, <3>2
    <3> QED BY <3>1, <3>2
  <2> QED BY <1>3, <2>1, <2>2
<1> QED BY <1>1, <1>6 DEF BootIsSafe

(* What a boot finds, while the unit is not masked.                        *)
LEMMA StepBootIsSafe ==
  ASSUME DataInv, Places, BootIsSafe, RootsKept, MaskHolds, ConfigIsWritten, RestoredIsBack,
         SetupNext
  PROVE  BootIsSafe'
<1>h. /\ host \in HostType /\ layout \in [loop : BOOLEAN, own : BOOLEAN]
      /\ found \in FoundType /\ reboots \in Nat
  BY DEF DataInv, Places
<1> USE <1>h DEF BootIsSafe, RootsKept, MaskHolds, ConfigIsWritten, RestoredIsBack, OldBoots,
  NewBoots, HostType, FoundType, KeepsRun, Goes, Fault, Command, Attempt, HalfDone, With, Files,
  Mounted, Unmounted, MountedAtRoot, RootExists, BackInPlace, Believe, Renames, Visible,
  DataBack, Untouched, Masking, Moved, Placed, OnTarget, Looking, Undoing, Afterwards, Rollback,
  Ended
<1>1. CASE Checks BY <1>1 DEF Checks
<1>2. CASE StopDocker BY <1>2 DEF StopDocker
<1>3. CASE MaskDocker BY <1>3 DEF MaskDocker
<1>4. CASE BackUp BY <1>4, ZenonT(60) DEF BackUp
<1>5. CASE CreateTarget BY <1>5 DEF CreateTarget
<1>6. CASE Format BY <1>6 DEF Format
<1>7. CASE MountProbe BY <1>7 DEF MountProbe
<1>8. CASE CheckProbe BY <1>8 DEF CheckProbe
<1>9. CASE WriteConfig BY <1>9 DEF WriteConfig
<1>10. CASE MakeRoot BY <1>10 DEF MakeRoot
<1>11. CASE UnmountOriginal BY <1>11 DEF UnmountOriginal
<1>12. CASE MountTarget BY <1>12 DEF MountTarget
<1>13. CASE CheckMount BY <1>13 DEF CheckMount
<1>14. CASE RestoreData BY <1>14 DEF RestoreData
<1>15. CASE UnmaskDocker BY <1>15 DEF UnmaskDocker
<1>16. CASE StartDocker
  <2>1. host' = host \/ host' = Started(host) BY <1>16 DEF StartDocker
  <2>2. CASE host' = host BY <1>16, <2>2 DEF StartDocker
  <2>3. CASE host' = Started(host)
    <3> HIDE DEF HostType, FoundType, HalfDone
    <3> QED BY <1>16, <2>3, <1>h, StartedHost DEF StartDocker
  <2> QED BY <2>1, <2>2, <2>3
<1>17. CASE Verify BY <1>17 DEF Verify
<1>18. CASE RemoveBackup BY <1>18 DEF RemoveBackup
<1>19. CASE StopAgain BY <1>19 DEF StopAgain
<1>20. CASE Look BY <1>20 DEF Look
<1>21. CASE UnmountTarget BY <1>21 DEF UnmountTarget
<1>22. CASE RemountOriginal BY <1>22 DEF RemountOriginal
<1>23. CASE MoveBack BY <1>23 DEF MoveBack
<1>24. CASE Confirm BY <1>24 DEF Confirm
<1>25. CASE RestoreFstab BY <1>25 DEF RestoreFstab
<1>26. CASE RestoreConfig BY <1>26 DEF RestoreConfig
<1>27. CASE RemoveImage BY <1>27, ZenonT(60) DEF RemoveImage
<1>28. CASE MaskAgain BY <1>28, MaskedOrBoots
<1>29. CASE StartAgain
  <2>1. host' = host \/ host' = Started(host) BY <1>29 DEF StartAgain
  <2>2. CASE host' = host BY <1>29, <2>2 DEF StartAgain
  <2>3. CASE host' = Started(host)
    <3> HIDE DEF HostType, FoundType, HalfDone
    <3> QED BY <1>29, <2>3, <1>h, StartedHost DEF StartAgain
  <2> QED BY <2>1, <2>2, <2>3
<1>30. CASE Crash
  <2>1. CASE host' = host BY <1>30, <2>1 DEF Crash, Places, Forward
  <2>2. CASE host' \in HalfDone
    <3> HIDE DEF HalfDone
    <3> QED BY <1>30, <2>2, HalfDoneFields DEF Crash, Places, Forward
  <2> QED BY <1>30, <2>1, <2>2 DEF Crash
<1>31. CASE Reboot BY <1>31, BootFields DEF Reboot
<1> QED BY <1>1, <1>2, <1>3, <1>4, <1>5, <1>6, <1>7, <1>8, <1>9, <1>10, <1>11, <1>12, <1>13,
           <1>14, <1>15, <1>16, <1>17, <1>18, <1>19, <1>20, <1>21, <1>22, <1>23, <1>24, <1>25,
           <1>26, <1>27, <1>28, <1>29, <1>30, <1>31 DEF SetupNext

(* The unit is masked from the first change to the last.                   *)
LEMMA StepMaskHolds ==
  ASSUME DataInv, Places, MaskHolds, ConfigIsWritten, SetupNext
  PROVE  MaskHolds'
<1>h. /\ host \in HostType /\ layout \in [loop : BOOLEAN, own : BOOLEAN]
      /\ found \in FoundType /\ reboots \in Nat
  BY DEF DataInv, Places
<1> USE <1>h DEF MaskHolds, ConfigIsWritten, HostType, FoundType, KeepsRun, Goes, Fault,
  Command, Attempt, HalfDone, With, Files, Mounted, Unmounted, MountedAtRoot, RootExists,
  BackInPlace, Believe, Renames, Visible, DataBack, Untouched, Masking, Moved, Placed, OnTarget,
  Looking, Undoing, Afterwards, Rollback, Ended
<1>1. CASE Checks BY <1>1 DEF Checks
<1>2. CASE StopDocker BY <1>2 DEF StopDocker
<1>3. CASE MaskDocker BY <1>3 DEF MaskDocker
<1>4. CASE BackUp BY <1>4 DEF BackUp
<1>5. CASE CreateTarget BY <1>5 DEF CreateTarget
<1>6. CASE Format BY <1>6 DEF Format
<1>7. CASE MountProbe BY <1>7 DEF MountProbe
<1>8. CASE CheckProbe BY <1>8 DEF CheckProbe
<1>9. CASE WriteConfig BY <1>9 DEF WriteConfig
<1>10. CASE MakeRoot BY <1>10 DEF MakeRoot
<1>11. CASE UnmountOriginal BY <1>11 DEF UnmountOriginal
<1>12. CASE MountTarget BY <1>12 DEF MountTarget
<1>13. CASE CheckMount BY <1>13 DEF CheckMount
<1>14. CASE RestoreData BY <1>14 DEF RestoreData
<1>15. CASE UnmaskDocker BY <1>15 DEF UnmaskDocker
<1>16. CASE StartDocker
  <2>1. host' = host \/ host' = Started(host) BY <1>16 DEF StartDocker
  <2>2. CASE host' = host BY <1>16, <2>2 DEF StartDocker
  <2>3. CASE host' = Started(host)
    <3> HIDE DEF HostType, FoundType, HalfDone
    <3> QED BY <1>16, <2>3, <1>h, StartedHost DEF StartDocker
  <2> QED BY <2>1, <2>2, <2>3
<1>17. CASE Verify BY <1>17 DEF Verify
<1>18. CASE RemoveBackup BY <1>18 DEF RemoveBackup
<1>19. CASE StopAgain BY <1>19 DEF StopAgain
<1>20. CASE Look BY <1>20 DEF Look
<1>21. CASE UnmountTarget BY <1>21 DEF UnmountTarget
<1>22. CASE RemountOriginal BY <1>22 DEF RemountOriginal
<1>23. CASE MoveBack BY <1>23 DEF MoveBack
<1>24. CASE Confirm BY <1>24 DEF Confirm
<1>25. CASE RestoreFstab BY <1>25 DEF RestoreFstab
<1>26. CASE RestoreConfig BY <1>26 DEF RestoreConfig
<1>27. CASE RemoveImage BY <1>27 DEF RemoveImage
<1>28. CASE MaskAgain BY <1>28 DEF MaskAgain
<1>29. CASE StartAgain
  <2>1. host' = host \/ host' = Started(host) BY <1>29 DEF StartAgain
  <2>2. CASE host' = host BY <1>29, <2>2 DEF StartAgain
  <2>3. CASE host' = Started(host)
    <3> HIDE DEF HostType, FoundType, HalfDone
    <3> QED BY <1>29, <2>3, <1>h, StartedHost DEF StartAgain
  <2> QED BY <2>1, <2>2, <2>3
<1>30. CASE Crash
  <2>1. CASE host' = host BY <1>30, <2>1 DEF Crash, Places, Forward
  <2>2. CASE host' \in HalfDone
    <3> HIDE DEF HalfDone
    <3> QED BY <1>30, <2>2, HalfDoneFields DEF Crash, Places, Forward
  <2> QED BY <1>30, <2>1, <2>2 DEF Crash
<1>31. CASE Reboot BY <1>31, BootFields DEF Reboot
<1> QED BY <1>1, <1>2, <1>3, <1>4, <1>5, <1>6, <1>7, <1>8, <1>9, <1>10, <1>11, <1>12, <1>13,
           <1>14, <1>15, <1>16, <1>17, <1>18, <1>19, <1>20, <1>21, <1>22, <1>23, <1>24, <1>25,
           <1>26, <1>27, <1>28, <1>29, <1>30, <1>31 DEF SetupNext

(* Without an error every step of the rollback was carried out.            *)
LEMMA StepSilentSoFar ==
  ASSUME DataInv, Places, SilentSoFar, ConfigIsWritten, RestoredIsBack, SetupNext
  PROVE  SilentSoFar'
<1>h. /\ host \in HostType /\ layout \in [loop : BOOLEAN, own : BOOLEAN]
      /\ found \in FoundType /\ reboots \in Nat
  BY DEF DataInv, Places
<1> USE <1>h DEF SilentSoFar, ConfigIsWritten, RestoredIsBack, HostType, FoundType, KeepsRun,
  Goes, Fault, Command, Attempt, HalfDone, With, Files, Mounted, Unmounted, MountedAtRoot,
  RootExists, BackInPlace, Believe, Renames, Visible, DataBack, Untouched, Masking, Moved,
  Placed, OnTarget, Looking, Undoing, Afterwards, Rollback, Ended
<1>1. CASE Checks BY <1>1 DEF Checks
<1>2. CASE StopDocker BY <1>2 DEF StopDocker
<1>3. CASE MaskDocker BY <1>3 DEF MaskDocker
<1>4. CASE BackUp BY <1>4 DEF BackUp
<1>5. CASE CreateTarget BY <1>5 DEF CreateTarget
<1>6. CASE Format BY <1>6 DEF Format
<1>7. CASE MountProbe BY <1>7 DEF MountProbe
<1>8. CASE CheckProbe BY <1>8 DEF CheckProbe
<1>9. CASE WriteConfig BY <1>9 DEF WriteConfig
<1>10. CASE MakeRoot BY <1>10 DEF MakeRoot
<1>11. CASE UnmountOriginal BY <1>11 DEF UnmountOriginal
<1>12. CASE MountTarget BY <1>12 DEF MountTarget
<1>13. CASE CheckMount BY <1>13 DEF CheckMount
<1>14. CASE RestoreData BY <1>14 DEF RestoreData
<1>15. CASE UnmaskDocker BY <1>15 DEF UnmaskDocker
<1>16. CASE StartDocker
  <2>1. host' = host \/ host' = Started(host) BY <1>16 DEF StartDocker
  <2>2. CASE host' = host BY <1>16, <2>2 DEF StartDocker
  <2>3. CASE host' = Started(host)
    <3> HIDE DEF HostType, FoundType, HalfDone
    <3> QED BY <1>16, <2>3, <1>h, StartedHost DEF StartDocker
  <2> QED BY <2>1, <2>2, <2>3
<1>17. CASE Verify BY <1>17 DEF Verify
<1>18. CASE RemoveBackup BY <1>18 DEF RemoveBackup
<1>19. CASE StopAgain BY <1>19 DEF StopAgain
<1>20. CASE Look BY <1>20, LookSays
<1>21. CASE UnmountTarget BY <1>21 DEF UnmountTarget
<1>22. CASE RemountOriginal BY <1>22 DEF RemountOriginal
<1>23. CASE MoveBack BY <1>23 DEF MoveBack
<1>24. CASE Confirm BY <1>24 DEF Confirm
<1>25. CASE RestoreFstab BY <1>25 DEF RestoreFstab
<1>26. CASE RestoreConfig BY <1>26 DEF RestoreConfig
<1>27. CASE RemoveImage BY <1>27 DEF RemoveImage
<1>28. CASE MaskAgain BY <1>28 DEF MaskAgain
<1>29. CASE StartAgain
  <2>1. host' = host \/ host' = Started(host) BY <1>29 DEF StartAgain
  <2>2. CASE host' = host BY <1>29, <2>2 DEF StartAgain
  <2>3. CASE host' = Started(host)
    <3> HIDE DEF HostType, FoundType, HalfDone
    <3> QED BY <1>29, <2>3, <1>h, StartedHost DEF StartAgain
  <2> QED BY <2>1, <2>2, <2>3
<1>30. CASE Crash
  <2>1. CASE host' = host BY <1>30, <2>1 DEF Crash, Places, Forward
  <2>2. CASE host' \in HalfDone
    <3> HIDE DEF HalfDone
    <3> QED BY <1>30, <2>2, HalfDoneFields DEF Crash, Places, Forward
  <2> QED BY <1>30, <2>1, <2>2 DEF Crash
<1>31. CASE Reboot BY <1>31, BootFields DEF Reboot
<1> QED BY <1>1, <1>2, <1>3, <1>4, <1>5, <1>6, <1>7, <1>8, <1>9, <1>10, <1>11, <1>12, <1>13,
           <1>14, <1>15, <1>16, <1>17, <1>18, <1>19, <1>20, <1>21, <1>22, <1>23, <1>24, <1>25,
           <1>26, <1>27, <1>28, <1>29, <1>30, <1>31 DEF SetupNext

(* Docker runs on its data only, and a silent rollback is complete.        *)
LEMMA StepHostIsLeftWhole ==
  ASSUME DataInv, Places, HostIsLeftWhole, RootsKept, BootIsSafe, MaskHolds, TargetMounted,
         RestoredIsBack, SilentSoFar, SetupNext
  PROVE  HostIsLeftWhole'
<1>h. /\ host \in HostType /\ layout \in [loop : BOOLEAN, own : BOOLEAN]
      /\ found \in FoundType /\ reboots \in Nat
  BY DEF DataInv, Places
<1> USE <1>h DEF HostIsLeftWhole, RootsKept, BootIsSafe, MaskHolds, TargetMounted,
  RestoredIsBack, SilentSoFar, NeverOnWrongRoot, SilentRollbackIsWhole, OldRootBack, DataBack,
  OldBoots, NewBoots, HostType, FoundType, KeepsRun, Goes, Fault, Command, Attempt, HalfDone,
  With, Files, Mounted, Unmounted, MountedAtRoot, RootExists, BackInPlace, Believe, Renames,
  Visible, DataBack, Untouched, Masking, Moved, Placed, OnTarget, Looking, Undoing, Afterwards,
  Rollback, Ended
<1>1. CASE Checks BY <1>1 DEF Checks
<1>2. CASE StopDocker BY <1>2 DEF StopDocker
<1>3. CASE MaskDocker BY <1>3 DEF MaskDocker
<1>4. CASE BackUp BY <1>4, ZenonT(60) DEF BackUp
<1>5. CASE CreateTarget BY <1>5 DEF CreateTarget
<1>6. CASE Format BY <1>6 DEF Format
<1>7. CASE MountProbe BY <1>7 DEF MountProbe
<1>8. CASE CheckProbe BY <1>8 DEF CheckProbe
<1>9. CASE WriteConfig BY <1>9 DEF WriteConfig
<1>10. CASE MakeRoot BY <1>10 DEF MakeRoot
<1>11. CASE UnmountOriginal BY <1>11 DEF UnmountOriginal
<1>12. CASE MountTarget BY <1>12 DEF MountTarget
<1>13. CASE CheckMount BY <1>13 DEF CheckMount
<1>14. CASE RestoreData BY <1>14 DEF RestoreData
<1>15. CASE UnmaskDocker BY <1>15 DEF UnmaskDocker
<1>16. CASE StartDocker
  <2>1. host' = host \/ host' = Started(host) BY <1>16 DEF StartDocker
  <2>2. CASE host' = host BY <1>16, <2>2 DEF StartDocker
  <2>3. CASE host' = Started(host)
    <3> HIDE DEF HostType, FoundType, HalfDone
    <3> QED BY <1>16, <2>3, <1>h, StartedHost DEF StartDocker
  <2> QED BY <2>1, <2>2, <2>3
<1>17. CASE Verify BY <1>17 DEF Verify
<1>18. CASE RemoveBackup BY <1>18 DEF RemoveBackup
<1>19. CASE StopAgain BY <1>19 DEF StopAgain
<1>20. CASE Look BY <1>20 DEF Look
<1>21. CASE UnmountTarget BY <1>21 DEF UnmountTarget
<1>22. CASE RemountOriginal BY <1>22 DEF RemountOriginal
<1>23. CASE MoveBack BY <1>23, ZenonT(60) DEF MoveBack
<1>24. CASE Confirm BY <1>24 DEF Confirm
<1>25. CASE RestoreFstab BY <1>25 DEF RestoreFstab
<1>26. CASE RestoreConfig BY <1>26 DEF RestoreConfig
<1>27. CASE RemoveImage BY <1>27, ZenonT(60) DEF RemoveImage
<1>28. CASE MaskAgain BY <1>28 DEF MaskAgain
<1>29. CASE StartAgain
  <2>1. /\ stage = "rb_start" /\ stage' = "failed" /\ UNCHANGED <<layout, flags, unmasked>>
        /\ host' = host \/ host' = Started(host)
        /\ ~errors' => ~errors /\ host' = Started(host) /\ ~host.masked
    BY <1>29 DEF StartAgain
  <2>2. found.restored BY <2>1
  <2>3. Visible(host) = "full" /\ OldRootBack BY <2>1, <2>2
  <2>4. NeverOnWrongRoot'
    <3>1. CASE host' = host BY <2>3, <3>1
    <3>2. CASE host' = Started(host) BY <2>3, <3>2, StartedHost
    <3> QED BY <2>1, <3>1, <3>2
  <2>5. ASSUME ~errors' PROVE SilentRollbackIsWhole'
    <3> DEFINE g == host'
    <3>1. g = Started(host) /\ ~host.masked /\ ~errors BY <2>1, <2>5
    <3>2. /\ g.docker = TRUE /\ g.conf = host.conf /\ g.image = host.image /\ g.mounts = host.mounts
          /\ g.masked = host.masked /\ g.backup = host.backup /\ Visible(g) = "full"
      BY <2>3, <3>1, StartedHost
    <3>3. host.conf = [f \in Files |-> "old"]
      BY <2>1, <3>1
    <3> QED BY <2>1, <2>3, <3>1, <3>2, <3>3
  <2> QED BY <2>4, <2>5
<1>30. CASE Crash
  <2>1. CASE host' = host BY <1>30, <2>1 DEF Crash, Places, Forward
  <2>2. CASE host' \in HalfDone
    <3> HIDE DEF HalfDone
    <3> QED BY <1>30, <2>2, HalfDoneFields DEF Crash, Places, Forward
  <2> QED BY <1>30, <2>1, <2>2 DEF Crash
<1>31. CASE Reboot
  <2>1. /\ stage \in Ended /\ host' \in Booted /\ reboots' = reboots + 1
        /\ UNCHANGED <<layout, stage, flags, errors, unmasked>>
    BY <1>31 DEF Reboot
  <2>2. host'.docker => ~host.masked /\ (OldBoots \/ NewBoots => Visible(host') = "full")
    BY <2>1, <1>h, BootFields
  <2>3. unmasked => NewBoots \/ stage \in {"cut", "failed"}
    BY <2>1
  <2>4. NeverOnWrongRoot'
    <3> HIDE DEF OldBoots, NewBoots, Visible
    <3> QED BY <2>1, <2>2, <2>3
  <2>5. SilentRollbackIsWhole' BY <2>1
  <2> QED BY <2>4, <2>5
<1> QED BY <1>1, <1>2, <1>3, <1>4, <1>5, <1>6, <1>7, <1>8, <1>9, <1>10, <1>11, <1>12, <1>13,
           <1>14, <1>15, <1>16, <1>17, <1>18, <1>19, <1>20, <1>21, <1>22, <1>23, <1>24, <1>25,
           <1>26, <1>27, <1>28, <1>29, <1>30, <1>31 DEF SetupNext

(* The stages are the ones of the set-up and of its rollback.              *)
LEMMA PlacesStep == DataInv /\ Places /\ SetupNext => Places'
<1> SUFFICES ASSUME DataInv, Places, SetupNext PROVE Places'
  OBVIOUS
<1>1. found' \in FoundType BY FoundStep DEF Places, DataInv
<1>2. reboots' \in Nat
  <2>1. CASE Reboot
    BY <2>1 DEF Places, Reboot
  <2>2. CASE ~Reboot
    <3>1. UNCHANGED reboots
      BY <2>2, ZenonT(60)
      DEF SetupNext, Checks, StopDocker, MaskDocker, BackUp, CreateTarget, Format, MountProbe,
          CheckProbe, WriteConfig, MakeRoot, UnmountOriginal, MountTarget, CheckMount, RestoreData,
          UnmaskDocker, StartDocker, Verify, RemoveBackup, StopAgain, Look, UnmountTarget,
          RemountOriginal, MoveBack, Confirm, RestoreFstab, RestoreConfig, RemoveImage, MaskAgain,
          StartAgain, Crash, Command, Attempt, KeepsRun
    <3> QED BY <3>1 DEF Places
  <2> QED BY <2>1, <2>2
<1>3. stage' \in Forward \cup Rollback \cup Ended \cup {"checks", "commit"}
  <2> USE DEF Forward, Rollback, Ended, Command, Attempt, Goes, Files
  <2>1. CASE Checks \/ StopDocker \/ MaskDocker \/ BackUp \/ CreateTarget \/ Format
        \/ MountProbe \/ CheckProbe
    BY <2>1, ZenonT(60) DEF Places, Checks, StopDocker, MaskDocker, BackUp, CreateTarget, Format,
         MountProbe, CheckProbe
  <2>2. CASE WriteConfig \/ MakeRoot \/ UnmountOriginal \/ MountTarget \/ CheckMount
        \/ RestoreData \/ UnmaskDocker \/ StartDocker
    BY <2>2, ZenonT(60) DEF Places, WriteConfig, MakeRoot, UnmountOriginal, MountTarget, CheckMount,
         RestoreData, UnmaskDocker, StartDocker
  <2>3. CASE Verify \/ RemoveBackup \/ StopAgain \/ Look \/ UnmountTarget \/ RemountOriginal
        \/ MoveBack \/ Confirm
    BY <2>3, ZenonT(60) DEF Places, Verify, RemoveBackup, StopAgain, Look, UnmountTarget,
         RemountOriginal, MoveBack, Confirm
  <2>4. CASE RestoreFstab \/ RestoreConfig \/ RemoveImage \/ MaskAgain \/ StartAgain \/ Crash
        \/ Reboot
    BY <2>4, ZenonT(60)
         DEF Places, RestoreFstab, RestoreConfig, RemoveImage, MaskAgain, StartAgain, Crash, Reboot
  <2> QED BY <2>1, <2>2, <2>3, <2>4 DEF SetupNext
<1> QED BY <1>1, <1>2, <1>3 DEF Places

(* A host before the set-up is whole, and every step keeps it so.          *)
LEMMA HostInit == SetupInit => HostInv
<1> SUFFICES ASSUME SetupInit PROVE HostInv
  OBVIOUS
<1>1. DataInv BY DataInit
<1>2. /\ stage = "checks" /\ flags = {} /\ unmasked = FALSE /\ errors = FALSE
      /\ host.mounts = (IF layout.own THEN {"orig"} ELSE {}) /\ host.docker = TRUE
      /\ host.base = (IF layout.own THEN "blank" ELSE "full") /\ host.backup = "none"
      /\ host.conf = [f \in Files |-> "old"] /\ layout \in [loop : BOOLEAN, own : BOOLEAN]
  BY DEF SetupInit
<1>3. Places BY DEF SetupInit, Places, FoundType
<1>4. RootsKept /\ RootRenamed
  BY <1>2 DEF RootsKept, RootRenamed, Renames, Untouched, Moved, Placed, Looking, Undoing
<1>5. TargetMounted BY <1>2 DEF TargetMounted, Untouched, Moved, OnTarget, Looking, Undoing
<1>6. RestoredIsBack /\ ConfigIsWritten
  BY <1>2 DEF RestoredIsBack, Afterwards, ConfigIsWritten, Ended, Untouched, Moved, Placed, Files
<1>7. BootIsSafe /\ MaskHolds
  BY <1>2 DEF BootIsSafe, MaskHolds, OldBoots, Untouched, Masking, Looking, Undoing, Files
<1>8. SilentSoFar BY <1>2 DEF SilentSoFar, Masking, Rollback, Undoing, Afterwards
<1>9. HostIsLeftWhole BY <1>2 DEF HostIsLeftWhole, NeverOnWrongRoot, SilentRollbackIsWhole, Visible
<1> QED BY <1>1, <1>3, <1>4, <1>5, <1>6, <1>7, <1>8, <1>9 DEF HostInv

LEMMA HostStep == HostInv /\ [SetupNext]_setupVars => HostInv'
<1>1. ASSUME HostInv, SetupNext PROVE HostInv'
  <2>0. /\ DataInv /\ Places /\ RootsKept /\ RootRenamed /\ TargetMounted /\ RestoredIsBack
        /\ ConfigIsWritten /\ BootIsSafe /\ MaskHolds /\ SilentSoFar /\ HostIsLeftWhole
        /\ SetupNext
    BY <1>1 DEF HostInv
  <2>1. DataInv' BY <2>0, DataStep
  <2>2. Places' BY <2>0, PlacesStep
  <2>3. RootsKept' BY <2>0, StepRootsKept
  <2>4. RootRenamed' BY <2>0, StepRootRenamed
  <2>5. TargetMounted' BY <2>0, StepTargetMounted
  <2>6. RestoredIsBack' BY <2>0, StepRestoredIsBack
  <2>7. ConfigIsWritten' BY <2>0, StepConfigIsWritten
  <2>8. BootIsSafe' BY <2>0, StepBootIsSafe
  <2>9. MaskHolds' BY <2>0, StepMaskHolds
  <2>10. SilentSoFar' BY <2>0, StepSilentSoFar
  <2>11. HostIsLeftWhole' BY <2>0, StepHostIsLeftWhole
  <2> QED BY <2>1, <2>2, <2>3, <2>4, <2>5, <2>6, <2>7, <2>8, <2>9, <2>10, <2>11 DEF HostInv
<1>2. ASSUME HostInv, UNCHANGED setupVars PROVE HostInv'
  BY <1>2 DEF setupVars, HostInv, DataInv, DataKept, CopyOutside, Places, RootsKept, RootRenamed,
       TargetMounted, RestoredIsBack, ConfigIsWritten, BootIsSafe, MaskHolds, SilentSoFar,
       HostIsLeftWhole, NeverOnWrongRoot, SilentRollbackIsWhole, OldRootBack, OldBoots, NewBoots,
       Visible, Renames, RootExists, DataBack
<1> QED BY <1>1, <1>2

(* Wherever the set-up or its rollback ends or is cut, and through every   *)
(* reboot: Docker runs on its data or not at all, but for a rollback that  *)
(* could not mask the unit again, and a rollback without an error to       *)
(* report has put everything back (_rollback_setup).                       *)
THEOREM HostStaysWhole == SetupSpec => []HostIsLeftWhole
<1>1. HostInv => HostIsLeftWhole BY DEF HostInv
<1> QED BY <1>1, HostInit, HostStep, PTL DEF SetupSpec
=============================================================================
