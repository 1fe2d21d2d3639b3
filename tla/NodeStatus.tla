------------------------------ MODULE NodeStatus ------------------------------
(***************************************************************************)
(* `lium provider node status` and `get` (src/lium/cli/provider/node.py)   *)
(* with the blocking reasons of a node (_blocking.py): what keeps it off   *)
(* the listing or out of idle pay.  A portal serves the whole list with    *)
(* the node's record; for an older one it is rebuilt from the record and   *)
(* the idle-pay reasons of the overview, read one after the other, either  *)
(* of which may fail.  With --watch the refreshes go on, with              *)
(* --until-clear until no reason blocks or the time is up, and an agent    *)
(* reads only the exit status.                                             *)
(***************************************************************************)
EXTENDS Naturals, FiniteSets

VARIABLES
  watch,      \* the command: get, status, or status --watch without and with --until-clear
  strict,     \* --fail-on-blocked
  person,     \* is_interactive()
  serves,     \* the portal serves blocking_reasons
  reasons,    \* what is the matter with the node
  statusStep, \* next step of a refresh, or how the command ended
  gotNode,    \* this refresh: the record came
  gotIdle,    \* this refresh: idle_read
  seen,       \* this refresh: the node's reasons as read
  overdue,    \* the deadline of --timeout is past
  standing,   \* history: reasons from the first read of the refresh to now
  ever        \* history: reasons there were at some time of the refresh

optionVars == <<watch, strict, person, serves>>
refreshVars == <<gotNode, gotIdle, seen>>
statusVars == <<optionVars, reasons, statusStep, refreshVars, overdue, standing, ever>>

(* A failed check, a last error or a hidden listing; a reason of the       *)
(* overview that gates, one that does not, and fewer free ports than the   *)
(* free GPUs need; an advisory, which only a list that is served has.      *)
(* "unpaid" is no reason but the record's word that nothing is paid:       *)
(* idle_pay_state not_paid, or a Secure listing that needs the idle pay.   *)
NothingPaid == {"unpaid"}
InRecord == {"failed_check"} \cup NothingPaid
NotGated == {"not_gated"}
InOverview == {"idle_pay", "port_limited_remainder"} \cup NotGated
Advisory == {"advisory"}
Watches == {"get", "once", "plain", "until_clear"}
Reasons == InRecord \cup InOverview \cup Advisory
StatusExits == {"error", "shown", "clear", "blocked", "unread", "interrupted"}

StatusTypeOK ==
  /\ watch \in Watches /\ strict \in BOOLEAN /\ person \in BOOLEAN /\ serves \in BOOLEAN
  /\ reasons \subseteq Reasons /\ seen \subseteq Reasons
  /\ standing \subseteq ever /\ ever \subseteq Reasons
  /\ statusStep \in {"verification", "record", "overview", "decide", "sleep"} \cup StatusExits
  /\ gotNode \in BOOLEAN /\ gotIdle \in BOOLEAN /\ overdue \in BOOLEAN

StatusInit ==
  /\ watch \in Watches /\ strict \in BOOLEAN /\ person \in BOOLEAN
  /\ serves \in BOOLEAN /\ reasons \in SUBSET Reasons
  /\ statusStep = (IF watch = "get" THEN "record" ELSE "verification") /\ gotNode = FALSE /\ gotIdle = FALSE /\ seen = {}
  /\ overdue = FALSE /\ standing = {} /\ ever = {}

StGoes(from, to) == statusStep = from /\ statusStep' = to
KeepsHistory == UNCHANGED <<standing, ever>>

(* normalise and _all_reasons: an advisory blocks nothing, and too few     *)
(* ports leave part of the idle pay, unless nothing is paid or there is    *)
(* another reason, be it one that does not block.                          *)
Blocking(all) ==
  LET others == all \ (Advisory \cup NothingPaid)
      partial == Cardinality(others) <= 1 /\ all \cap NothingPaid = {}
  IN (IF partial THEN others \ {"port_limited_remainder"} ELSE others) \ NotGated

-----------------------------------------------------------------------------
GetVerification ==
  /\ StGoes("verification", "record") \/ StGoes("verification", "error")
  /\ KeepsHistory /\ UNCHANGED <<optionVars, reasons, refreshVars, overdue>>

(* _node_with_blocking, needs_fallback.                                    *)
GetNode ==
  /\ \/ /\ StGoes("record", IF serves THEN "decide" ELSE "overview")
        /\ gotNode' = TRUE /\ gotIdle' = serves
        /\ seen' = IF serves THEN reasons ELSE reasons \cap InRecord
     \/ /\ StGoes("record", IF watch = "get" THEN "error" ELSE "decide")
        /\ UNCHANGED refreshVars
  /\ standing' = reasons /\ ever' = reasons
  /\ UNCHANGED <<optionVars, reasons, overdue>>

(* fetch_idle_pay_reasons, attach.                                         *)
GetOverview ==
  /\ StGoes("overview", "decide")
  /\ \/ gotIdle' = TRUE /\ seen' = seen \cup (reasons \cap InOverview)
     \/ UNCHANGED <<gotIdle, seen>>
  /\ KeepsHistory /\ UNCHANGED <<optionVars, gotNode, reasons, overdue>>

(* get_node and status_node after the reads.  Faulty: a refresh that could *)
(* not read the overview counts as clear.                                  *)
Found == IF gotNode THEN Blocking(seen) ELSE {}
IsLastFaulty == watch \in {"get", "once"} \/ (watch = "until_clear" /\ gotNode /\ Found = {})
IsLast == watch \in {"get", "once"} \/ (watch = "until_clear" /\ gotNode /\ gotIdle /\ Found = {})
TimedOutNow == overdue /\ ~IsLast
Outcome ==
  IF Found # {} /\ (TimedOutNow \/ (strict /\ (IsLast \/ watch # "until_clear"))) THEN "blocked"
  ELSE IF strict /\ watch \in {"get", "once"} /\ ~gotIdle THEN "unread"
  ELSE IF IsLast THEN IF watch = "until_clear" \/ strict THEN "clear" ELSE "shown"
  ELSE IF TimedOutNow THEN "unread" ELSE "sleep"
Decide ==
  /\ StGoes("decide", Outcome)
  /\ IF Outcome = "sleep"
     THEN gotNode' = FALSE /\ gotIdle' = FALSE /\ seen' = {} /\ standing' = {} /\ ever' = {}
     ELSE KeepsHistory /\ UNCHANGED refreshVars
  /\ UNCHANGED <<optionVars, reasons, overdue>>
Sleep ==
  /\ StGoes("sleep", "verification")
  /\ KeepsHistory /\ UNCHANGED <<optionVars, reasons, refreshVars, overdue>>

(* Ctrl-C, wherever it lands; the one guard is around the loop of `status`.*)
Interrupt ==
  /\ statusStep \notin StatusExits
  /\ statusStep' = CASE watch = "get" -> "error"
                     [] watch # "get" /\ person /\ watch # "until_clear" -> "shown"
                     [] OTHER -> "interrupted"
  /\ KeepsHistory /\ UNCHANGED <<optionVars, reasons, refreshVars, overdue>>

(* --timeout goes with --until-clear.                                      *)
DeadlinePasses ==
  /\ watch = "until_clear" /\ ~overdue /\ overdue' = TRUE /\ statusStep \notin StatusExits
  /\ KeepsHistory /\ UNCHANGED <<optionVars, reasons, statusStep, refreshVars>>

(* Something comes to be, or ceases to be, the matter with the node.       *)
ReasonsChange ==
  /\ statusStep \notin StatusExits
  /\ \E reason \in Reasons :
       reasons' = IF reason \in reasons THEN reasons \ {reason} ELSE reasons \cup {reason}
  /\ standing' = standing \cap reasons'
  /\ ever' = IF statusStep \in {"overview", "decide"} THEN ever \cup reasons' ELSE ever
  /\ UNCHANGED <<optionVars, statusStep, refreshVars, overdue>>

StatusNext ==
  \/ GetVerification \/ GetNode \/ GetOverview \/ Decide \/ Sleep \/ Interrupt
  \/ DeadlinePasses \/ ReasonsChange
StatusSpec == StatusInit /\ [][StatusNext]_statusVars

-----------------------------------------------------------------------------
(* "Exit 0 means the node is clear" (status_node): every source was read,  *)
(* and nothing that blocks was there from the first read to the last.      *)
ClearIsClear == statusStep = "clear" => gotNode /\ gotIdle /\ Blocking(standing) = {}

(* EXIT_NODE_BLOCKED: something that blocks was there during the refresh,  *)
(* or it could not all be read; under --until-clear only once the time is  *)
(* up.                                                                     *)
BlockedIsBlocked ==
  /\ statusStep = "blocked" => Blocking(ever) # {}
  /\ statusStep = "unread" => ~gotNode \/ ~gotIdle
  /\ statusStep \in {"blocked", "unread"} /\ watch = "until_clear" => overdue

(* "--fail-on-blocked never exits 0 unless every source was read"          *)
(* (node.py).  Does not hold of a plain --watch that a person ends.        *)
StrictHasRead == strict /\ statusStep \in {"shown", "clear"} => gotNode /\ gotIdle

(* What the exit status says of the node is so.                            *)
StatusKeepsItsWord == ClearIsClear /\ BlockedIsBlocked
==============================================================================
