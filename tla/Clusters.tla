------------------------------ MODULE Clusters ------------------------------
(***************************************************************************)
(* `lium clusters up` and `rm` (src/lium/cli/clusters/command.py) over     *)
(* Lium.up_cluster, wait_cluster_ready and rm_cluster (sdk/client.py): one *)
(* order for several nodes, whose answer may be lost, sent once more with  *)
(* its key where the API honours keys, then looked for in the pod listing. *)
(* All clusters here carry the name asked for: one of before, one another  *)
(* client rents meanwhile, and what each request of this order makes.      *)
(*                                                                         *)
(* A member is <<cluster, rank>>.  A request that got no answer may still  *)
(* arrive.                                                                 *)
(***************************************************************************)
EXTENDS Integers

CONSTANTS
  Ranks,        \* node ranks of a cluster
  ClusterAsks,  \* the command lines: [ttl, wait : BOOLEAN]
  NoCluster

ASSUME ClusterAssumption == Ranks # {}

VARIABLES
  clAsk,      \* the command line
  honours,    \* the API has the feature "rent_idempotency"
  clStep,     \* next step of `clusters up`, or how it ended
  known,      \* known_clusters
  request,    \* what has become of each request
  orderKey,   \* the API's record of the Idempotency-Key
  podIds,      \* pod_ids
  handed,     \* the cluster handed back
  unscheduled, toSchedule,  \* members whose schedule failed, or is still to be tried
  rows,       \* members the listing shows
  member,     \* member -> its state
  memberEnds  \* members with a scheduled removal

orderVars == <<request, orderKey>>
clusterVars == <<clAsk, honours, clStep, known, orderVars, podIds, handed,
                 unscheduled, toSchedule, rows, member, memberEnds>>
upSide == <<clAsk, honours, known, podIds, handed, unscheduled, toSchedule>>
serverSide == <<orderVars, rows, member, memberEnds>>

Ours == {"first", "second"}  \* by the request that made them
ClusterIds == Ours \cup {"older", "other"}
Members == ClusterIds \X Ranks
Of(c) == {c} \X Ranks
Has(c) == {m \in Of(c) : member[m] # "none"}
Billing(c) == {m \in Of(c) : member[m] \in {"booting", "running", "dead"}}
Shown(c) == rows \cap Of(c)

ClusterExits ==
  {"aborted", "refused", "not_listed", "uncertain", "ttl_failed", "member_failed", "not_ready",
   "ok"}
OverOrders == {"made", "refused", "denied", "error", "busy"}

ClustersTypeOK ==
  /\ clAsk \in ClusterAsks /\ honours \in BOOLEAN
  /\ clStep \in ClusterExits \cup
       {"snapshot", "order", "answer", "resend", "reanswer", "find", "schedule", "wait"}
  /\ known \subseteq ClusterIds
  /\ request \in [Ours -> {"unsent", "sent", "running"} \cup OverOrders]
  /\ orderKey \in {"free", "pending", "unknown", "refused"} \cup Ours
  /\ podIds \in {{}} \cup {Of(c) : c \in Ours}
  /\ handed \in ClusterIds \cup {NoCluster}
  /\ unscheduled \subseteq Members /\ toSchedule \subseteq Members
  /\ member \in [Members -> {"none", "booting", "running", "dead", "gone"}]
  /\ rows \subseteq Members /\ memberEnds \subseteq Members
  /\ \A m \in rows \cup memberEnds : member[m] # "none"
  /\ toSchedule \cup unscheduled \subseteq Of(handed)

ClustersInit ==
  /\ clAsk \in ClusterAsks /\ honours \in BOOLEAN /\ clStep = "snapshot" /\ known = {}
  /\ request = [o \in Ours |-> "unsent"] /\ orderKey = "free"
  /\ podIds = {} /\ handed = NoCluster
  /\ unscheduled = {} /\ toSchedule = {}
  /\ rows = Of("older")
  /\ member = [m \in Members |-> IF m \in rows THEN "running" ELSE "none"]
  /\ memberEnds = {}

(* Bound: members change at the steps that look at them.  Requests go on,  *)
(* after the command has ended too.                                        *)
Followed ==
  IF clStep = "snapshot" THEN ClusterIds ELSE IF clStep = "find" THEN ClusterIds \ known
  ELSE IF clStep \in {"schedule", "wait"} THEN {handed} ELSE {}

ClGoes(from, to) == clStep = from /\ clStep' = to

-----------------------------------------------------------------------------
(* up_cluster.                                                             *)

(* _cluster_ids_now(): without it no order is placed.                      *)
SnapshotClusters ==
  /\ \/ ClGoes("snapshot", "order") /\ known' = {c \in ClusterIds : Shown(c) # {}}
     \/ ClGoes("snapshot", "aborted") /\ UNCHANGED known
  /\ UNCHANGED <<clAsk, honours, podIds, handed, unscheduled, toSchedule, serverSide>>

SendOrder(from, to, o) ==
  /\ ClGoes(from, to) /\ request' = [request EXCEPT ![o] = "sent"]
  /\ UNCHANGED <<upSide, orderKey, rows, member, memberEnds>>

(* No answer, a 429 or a 5xx, at whatever became of the request.  Only a   *)
(* key makes it safe to send again.                                        *)
AfterLost(resends) ==
  /\ ClGoes("answer", IF resends THEN "resend" ELSE "find") /\ UNCHANGED <<upSide, serverSide>>
LostOrderFaulty == AfterLost(TRUE)
LostOrder == AfterLost(honours)
LostAgain == ClGoes("reanswer", "find") /\ UNCHANGED <<upSide, serverSide>>

(* The answer may come without pod_ids.                                    *)
Confirmed(at, o) ==
  /\ ClGoes(at, "find") /\ request[o] = "made"
  /\ podIds' \in {{}} \cup {Of(IF honours THEN orderKey ELSE o)}
  /\ UNCHANGED <<clAsk, honours, known, handed, unscheduled, toSchedule, serverSide>>

(* A definite refusal raises; that of the resend only when it is one of    *)
(* the order.                                                              *)
RefusedOrder ==
  /\ ClGoes("answer", "refused") /\ request["first"] \in {"refused", "denied"}
  /\ UNCHANGED <<upSide, serverSide>>
RefusedAgain ==
  /\ clStep = "reanswer" /\ request["second"] \in {"refused", "denied", "busy"}
  /\ clStep' = IF request["second"] = "refused" THEN "refused" ELSE "find"
  /\ UNCHANGED <<upSide, serverSide>>

OrderStep ==
  \/ SendOrder("order", "answer", "first") \/ SendOrder("resend", "reanswer", "second")
  \/ LostOrder \/ LostAgain \/ Confirmed("answer", "first") \/ Confirmed("reanswer", "second")
  \/ RefusedOrder \/ RefusedAgain

(* _find_cluster: all the members the answer named, or, without names, the *)
(* one new cluster of that name, once it is whole.                         *)
FoundAmong ==
  LET new == {c \in ClusterIds \ known : Shown(c) # {}}
  IN IF podIds # {} THEN {c \in Ours : podIds = Of(c) /\ podIds \subseteq rows}
     ELSE {c \in new : new = {c} /\ Shown(c) = Of(c)}

(* What is handed back goes on to the schedule, the wait, or the user.     *)
(* The listing is asked a few times; it may fail, or not show it in time.  *)
AfterRent == IF clAsk.ttl THEN "schedule" ELSE IF clAsk.wait THEN "wait" ELSE "ok"
FindCluster ==
  /\ clStep = "find"
  /\ \/ \E c \in FoundAmong :
          /\ clStep' = AfterRent /\ handed' = c /\ toSchedule' = IF clAsk.ttl THEN Shown(c) ELSE {}
     \/ /\ clStep' = IF podIds # {} THEN "not_listed" ELSE "uncertain"
        /\ UNCHANGED <<handed, toSchedule>>
  /\ UNCHANGED <<clAsk, honours, known, podIds, unscheduled, serverSide>>

-----------------------------------------------------------------------------
(* `clusters up`, after the rent.                                          *)

(* Every member is tried, whatever failed before; an answer that is lost   *)
(* leaves the schedule possibly set.                                       *)
ScheduleMember ==
  /\ clStep = "schedule"
  /\ \E m \in toSchedule :
        /\ toSchedule' = toSchedule \ {m}
        /\ \/ member[m] # "gone" /\ memberEnds' = memberEnds \cup {m} /\ UNCHANGED unscheduled
           \/ /\ unscheduled' = unscheduled \cup {m}
              /\ \/ UNCHANGED memberEnds
                 \/ member[m] # "gone" /\ memberEnds' = memberEnds \cup {m}
  /\ clStep' = IF toSchedule' # {} THEN "schedule"
               ELSE IF unscheduled' # {} THEN "ttl_failed" ELSE IF clAsk.wait THEN "wait" ELSE "ok"
  /\ UNCHANGED <<clAsk, honours, known, podIds, handed, orderVars, rows, member>>

(* wait_cluster_ready: all of them run, one is dead or missing, or the     *)
(* time is up, which is also what listings that fail come to.              *)
WaitCluster ==
  /\ clStep = "wait"
  /\ LET shown == Shown(handed)
         dead == {m \in shown : member[m] = "dead"}
     IN \/ shown = Of(handed) /\ (\A m \in shown : member[m] = "running") /\ clStep' = "ok"
        \/ (dead # {} \/ shown # Of(handed)) /\ clStep' = "member_failed"
        \/ clStep' = "not_ready"
  /\ UNCHANGED <<upSide, serverSide>>

-----------------------------------------------------------------------------
(* `clusters rm` of a listed cluster: one DELETE by its id, under which    *)
(* each member is removed or fails on its own.                             *)
RmCluster ==
  /\ \E c \in Followed : \E removed \in SUBSET Billing(c) :
        /\ Shown(c) # {}
        /\ member' = [m \in Members |-> IF m \in removed THEN "gone" ELSE member[m]]
        /\ rows' = rows \ removed
  /\ UNCHANGED <<clStep, upSide, orderVars, memberEnds>>

-----------------------------------------------------------------------------
(* The API.  A 429, a 401, 402 or 403, or a 5xx of the edge: nothing ran.  *)
TurnOrderAway(o) ==
  /\ request[o] = "sent" /\ \E how \in {"denied", "error"} : request' = [request EXCEPT ![o] = how]
  /\ UNCHANGED <<clStep, upSide, orderKey, rows, member, memberEnds>>

StartOrder(o) ==
  /\ request[o] = "sent" /\ (honours => orderKey = "free")
  /\ request' = [request EXCEPT ![o] = "running"] /\ orderKey' = "pending"
  /\ UNCHANGED <<clStep, upSide, rows, member, memberEnds>>

(* A known key: the recorded answer, or a 409 while there is none.         *)
RepeatOrder(o) ==
  /\ request[o] = "sent" /\ honours /\ orderKey # "free"
  /\ request' = [request EXCEPT ![o] =
       IF orderKey \in Ours THEN "made" ELSE IF orderKey = "refused" THEN "refused" ELSE "busy"]
  /\ UNCHANGED <<clStep, upSide, orderKey, rows, member, memberEnds>>

(* All of the nodes or none.  The record of the answer may be lost.        *)
EndOrder(o) ==
  /\ request[o] = "running"
  /\ \/ /\ request' = [request EXCEPT ![o] = "refused"] /\ orderKey' = "refused" /\ UNCHANGED member
     \/ /\ member' = [m \in Members |-> IF m \in Of(o) THEN "booting" ELSE member[m]]
        /\ \/ request' = [request EXCEPT ![o] = "made"] /\ orderKey' = o
           \/ request' = [request EXCEPT ![o] = "error"] /\ orderKey' \in {o, "unknown"}
  /\ UNCHANGED <<clStep, upSide, rows, memberEnds>>

OtherClusterRented ==
  /\ "other" \in Followed /\ Has("other") = {}
  /\ member' = [m \in Members |-> IF m \in Of("other") THEN "running" ELSE member[m]]
  /\ UNCHANGED <<clStep, upSide, orderVars, rows, memberEnds>>

MemberListed(m) ==
  /\ m \in UNION {Of(c) : c \in Followed} /\ m \in Billing(m[1]) \ rows
  /\ rows' = rows \cup {m}
  /\ UNCHANGED <<clStep, upSide, orderVars, member, memberEnds>>
(* A member starts or fails; the wait is the first to look.                *)
MemberTurns(m) ==
  /\ clStep = "wait" /\ m \in Of(handed) /\ member[m] = "booting"
  /\ \E to \in {"running", "dead"} : member' = [member EXCEPT ![m] = to]
  /\ UNCHANGED <<clStep, upSide, orderVars, rows, memberEnds>>

ApiOrderStep(o) == TurnOrderAway(o) \/ StartOrder(o) \/ RepeatOrder(o) \/ EndOrder(o)
ClustersNext ==
  \/ SnapshotClusters \/ OrderStep \/ FindCluster \/ ScheduleMember \/ WaitCluster
  \/ RmCluster \/ OtherClusterRented
  \/ \E o \in Ours : ApiOrderStep(o)
  \/ \E m \in Members : MemberListed(m) \/ MemberTurns(m)
ClustersSpec == ClustersInit /\ [][ClustersNext]_clusterVars

-----------------------------------------------------------------------------
OursMade == {c \in Ours : Has(c) # {}}
Past == {"schedule", "wait", "ttl_failed", "member_failed", "not_ready", "ok"}

(* One command rents one cluster at most, whatever answers are lost and    *)
(* however late a request arrives; one that says "refused", or ends before *)
(* its order, never rents any; one that rents says so or says it may have. *)
OneOrderOneCluster ==
  /\ OursMade # Ours
  /\ clStep \in {"refused", "aborted"} => OursMade = {}
  /\ clStep = "not_listed" => OursMade # {}

(* A cluster that is handed back did not exist before the command, and is  *)
(* this order's unless another client rented that name meanwhile; all its  *)
(* members are handed back, so that --ttl reaches each; and every member   *)
(* that is not reported as unscheduled has its end.                        *)
HandedBackWhole ==
  clStep \in Past =>
    /\ handed \notin known
    /\ handed \in Ours \/ Has("other") # {}
    /\ clAsk.ttl => memberEnds \cup unscheduled \cup toSchedule = Of(handed)
    /\ clStep = "ok" => unscheduled = {}

(* What `clusters up` says of its order, and of the cluster it hands back. *)
ClusterKeepsItsWord == OneOrderOneCluster /\ HandedBackWhole
==============================================================================
