----------------------------- MODULE RegisterNode -----------------------------
(***************************************************************************)
(* Steps 7 and 8 of `lium mine --register` (_register_and_wait in          *)
(* src/lium/cli/commands/mine.py over mine_register.py): the token is      *)
(* confirmed before anything is installed, the node is posted to the       *)
(* portal, its id looked up in the account's list, and its status read     *)
(* until it is listed, the portal names a fix, or the time is up.  A run   *)
(* may be cut short or refused, and repeated with a new token.             *)
(*                                                                         *)
(* One address; the portal takes one node there, of whatever account.      *)
(* Time passes in units of the poll's interval (15 s).                     *)
(***************************************************************************)
EXTENDS Integers

CONSTANTS
  WaitLimit,   \* timeout_s of wait_until_listed
  ConfirmTime, \* OFFLINE_CONFIRM_S
  FindTries,   \* FIND_NODE_ATTEMPTS
  ReadTime,    \* bound: what a read may take
  MaxRuns      \* bound: runs of the command

ASSUME RegisterAssumption ==
  /\ WaitLimit \in Nat /\ ConfirmTime \in Nat \ {0} /\ FindTries \in Nat \ {0}
  /\ ReadTime \in Nat /\ MaxRuns \in Nat

VARIABLES
  regStep,      \* next step of a run, or how it ended
  runs,         \* runs begun
  goodToken,    \* the portal takes the run's token
  portalNode,   \* whose node the portal has at the address
  inList,       \* the node list shows it
  already,      \* already_registered
  attempt,      \* attempt of find_node_id_after_add
  elapsed,      \* clock() - start
  offlineSince, \* offline_since, from the start; -1 for None
  settled,      \* last_settled
  otherAt,      \* history: when the status was last read other than OFFLINE
  listRead      \* history: the run has read the list

watchVars == <<elapsed, offlineSince, settled, otherAt>>
portalVars == <<goodToken, portalNode, inList>>
registerVars == <<regStep, runs, portalVars, already, attempt, watchVars, listRead>>

Readings == {"VALIDATION_PENDING", "VALIDATION_FAILED", "OFFLINE", "AVAILABLE", "UNKNOWN"}
(* Exit 1 without a node watched; then those that leave the node with the  *)
(* account: exit 0, 1, or 2.                                               *)
Unregistered == {"refused", "rate_limited", "elsewhere"}
Left == {"added", "listed", "failed", "offline", "pending", "unread", "unseen", "stopped"}
LastTime == WaitLimit + ConfirmTime + ReadTime

RegisterTypeOK ==
  /\ regStep \in {"begin", "confirm", "install", "post", "find", "watch", "cut"} \cup Unregistered \cup Left
  /\ runs \in 0..MaxRuns /\ goodToken \in BOOLEAN
  /\ portalNode \in {"none", "ours", "theirs"} /\ inList \in BOOLEAN
  /\ already \in BOOLEAN /\ attempt \in 1..FindTries
  /\ elapsed \in 0..LastTime /\ offlineSince \in -1..LastTime
  /\ settled \in Readings \ {"OFFLINE"} /\ otherAt \in 0..LastTime /\ listRead \in BOOLEAN

RegisterInit ==
  /\ regStep = "begin" /\ runs = 0 /\ goodToken = FALSE
  /\ portalNode \in {"none", "theirs"} /\ inList = FALSE
  /\ already = FALSE /\ attempt = 1 /\ listRead = FALSE
  /\ elapsed = 0 /\ offlineSince = -1 /\ settled = "UNKNOWN" /\ otherAt = 0

RegGoes(from, to) == regStep = from /\ regStep' = to
KeepsWatch == UNCHANGED <<watchVars, runs>>
KeepsLookup == UNCHANGED <<already, attempt, listRead>>

-----------------------------------------------------------------------------
(* parse_register_token: an expired one is refused at once.                *)
BeginRun ==
  /\ regStep \in {"begin", "cut"} \cup Unregistered \cup Left
  /\ runs < MaxRuns /\ runs' = runs + 1
  /\ regStep' = "confirm" /\ goodToken' \in BOOLEAN
  /\ already' = FALSE /\ attempt' = 1 /\ listRead' = FALSE
  /\ elapsed' = 0 /\ offlineSince' = -1 /\ settled' = "UNKNOWN" /\ otherAt' = 0
  /\ UNCHANGED <<portalNode, inList>>

(* confirm_register_token: only the 404 of a node that is not there, which *)
(* the portal gives to a token it takes, lets the run go on.               *)
ConfirmToken ==
  /\ \/ goodToken /\ RegGoes("confirm", "install")
     \/ RegGoes("confirm", "refused")
  /\ KeepsWatch /\ KeepsLookup /\ UNCHANGED portalVars

(* Steps 1 to 6, and what a registration reads of the host.                *)
InstallNode ==
  /\ RegGoes("install", "post") \/ RegGoes("install", "refused")
  /\ KeepsWatch /\ KeepsLookup /\ UNCHANGED portalVars

(* register_node: the POST.  Any answer but the two of a node that is      *)
(* there ends the run, a lost one too, though the node may have been       *)
(* added.                                                                  *)
PostNode ==
  /\ KeepsWatch /\ UNCHANGED <<goodToken, inList, attempt, listRead>>
  /\ \/ RegGoes("post", "refused") /\ UNCHANGED <<portalNode, already>>
     \/ /\ goodToken /\ portalNode = "none" /\ portalNode' = "ours"
        /\ RegGoes("post", "find") \/ RegGoes("post", "refused")
        /\ UNCHANGED already
     \/ /\ goodToken /\ portalNode # "none" /\ RegGoes("post", "find")
        /\ already' = TRUE /\ UNCHANGED portalNode

(* find_node_id_after_add: the account's own nodes only, whose addresses   *)
(* the portal shows to its token.  A rate limit of the last attempt is     *)
(* raised; any other failure passes for a list without the node.           *)
InAccountsListFaulty == portalNode # "none" /\ inList
InAccountsList == portalNode = "ours" /\ inList
NotFound == IF already THEN "elsewhere" ELSE "unseen"
FindNode ==
  /\ regStep = "find" /\ KeepsWatch /\ UNCHANGED <<portalVars, already>>
  /\ \/ /\ goodToken /\ InAccountsList /\ regStep' \in {"watch", "added"}
        /\ listRead' = TRUE /\ UNCHANGED attempt
     \/ /\ goodToken => ~InAccountsList
        /\ IF attempt = FindTries THEN regStep' = NotFound /\ UNCHANGED attempt
           ELSE regStep' = "find" /\ attempt' = attempt + 1
        /\ listRead' = (listRead \/ goodToken)
     \/ /\ UNCHANGED listRead
        /\ IF attempt < FindTries THEN regStep' = "find" /\ attempt' = attempt + 1
           ELSE regStep' \in {NotFound, IF already THEN "rate_limited" ELSE "unseen"}
                /\ UNCHANGED attempt

-----------------------------------------------------------------------------
(* wait_until_listed.                                                      *)

(* The first OFFLINE of those read in a row.  Faulty: also of those with   *)
(* another status between them.                                            *)
OfflineFromFaulty(reading, now) ==
  IF reading = "OFFLINE" /\ offlineSince = -1 THEN now ELSE offlineSince
OfflineFrom(reading, now) ==
  IF reading # "OFFLINE" THEN -1 ELSE IF offlineSince = -1 THEN now ELSE offlineSince

(* An OFFLINE that is not confirmed yet stretches the wait.                *)
TimeIsUp(since, now) ==
  now >= WaitLimit /\ ~(since # -1 /\ now < WaitLimit + ConfirmTime)
(* result_summary: of no OFFLINE the last reading is the last settled one. *)
TimedOut(reading) == IF reading = "UNKNOWN" THEN "unread" ELSE "pending"
SleepOrEnd(since, now, last) ==
  IF TimeIsUp(since, now) THEN regStep' = TimedOut(last) /\ elapsed' = now
  ELSE UNCHANGED regStep /\ elapsed' = now + 1

(* NodeStatus: listed, or a fix.                                           *)
Verdict(reading, since, now) ==
  CASE reading = "AVAILABLE" -> "listed"
    [] reading = "VALIDATION_FAILED" -> "failed"
    [] reading = "OFFLINE" /\ now - since >= ConfirmTime -> "offline"
    [] OTHER -> "none"

ReadStatus(now, reading) ==
  LET since == OfflineFrom(reading, now)
      last == IF reading = "OFFLINE" THEN settled ELSE reading
      verdict == Verdict(reading, since, now)
  IN /\ offlineSince' = since /\ settled' = last
     /\ otherAt' = IF reading = "OFFLINE" THEN otherAt ELSE now
     /\ IF verdict # "none" THEN regStep' = verdict /\ elapsed' = now
        ELSE SleepOrEnd(since, now, last)
ReadFails(now) ==
  SleepOrEnd(offlineSince, now, settled) /\ UNCHANGED <<offlineSince, settled, otherAt>>

WatchNode ==
  /\ regStep = "watch" /\ UNCHANGED <<runs, portalVars>> /\ KeepsLookup
  /\ \E time \in 0..ReadTime :
       LET now == elapsed + time
       IN ReadFails(now) \/ \E reading \in Readings : ReadStatus(now, reading)

(* Ctrl-C: of the wait, and of anything else.                              *)
StopRun ==
  /\ \/ RegGoes("watch", "stopped")
     \/ \E step \in {"confirm", "install", "post", "find"} : RegGoes(step, "cut")
  /\ KeepsWatch /\ KeepsLookup /\ UNCHANGED portalVars

-----------------------------------------------------------------------------
(* The portal.                                                             *)
TokenExpires ==
  /\ goodToken /\ goodToken' = FALSE
  /\ UNCHANGED <<regStep, runs, portalNode, inList, already, attempt, watchVars, listRead>>
ListCatchesUp ==
  /\ portalNode # "none" /\ ~inList /\ inList' = TRUE
  /\ UNCHANGED <<regStep, runs, goodToken, portalNode, already, attempt, watchVars, listRead>>
(* Another account adds a node at the address first, or removes its own.   *)
OthersAddOrRemove ==
  /\ \/ portalNode = "none" /\ portalNode' = "theirs"
     \/ portalNode = "theirs" /\ portalNode' = "none"
  /\ inList' = FALSE
  /\ UNCHANGED <<regStep, runs, goodToken, already, attempt, watchVars, listRead>>

RegisterNext ==
  \/ BeginRun \/ ConfirmToken \/ InstallNode \/ PostNode \/ FindNode \/ WatchNode \/ StopRun
  \/ TokenExpires \/ ListCatchesUp \/ OthersAddOrRemove
RegisterSpec == RegisterInit /\ [][RegisterNext]_registerVars

-----------------------------------------------------------------------------
(* Whatever a run ends with that leaves a node to look at, "the node stays *)
(* registered": it is the account's own, also when the address was taken   *)
(* already (NodeRecord, register_node).                                    *)
WatchesItsOwnNode == regStep \in Left \cup {"watch"} => portalNode = "ours"

(* "OFFLINE ends the wait only once it has been read for OFFLINE_CONFIRM_S *)
(* seconds", with no other status in between (wait_until_listed).          *)
OfflineWasConfirmed == regStep = "offline" => elapsed - otherAt >= ConfirmTime

(* A wait without a verdict was waited out, and "the deadline stretches by *)
(* OFFLINE_CONFIRM_S at most": for an OFFLINE, and after it no read begins.*)
WaitIsWaitedOut ==
  /\ regStep \in {"pending", "unread"} => elapsed >= WaitLimit
  /\ (regStep = "watch" /\ elapsed > WaitLimit) => elapsed <= WaitLimit + ConfirmTime /\ offlineSince # -1

(* "already in the portal but not in this account's node list" is said of  *)
(* a list that was read ("never read as not in the list").  Does not hold: *)
(* only a rate limit is raised, six other failures pass for a list.        *)
NotInListWasRead == regStep = "elsewhere" => listRead

(* What the end of a registration tells the provider is so.                *)
RegisterKeepsItsWord == WatchesItsOwnNode /\ OfflineWasConfirmed /\ WaitIsWaitedOut
==============================================================================
