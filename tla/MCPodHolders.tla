---------------------------- MODULE MCPodHolders -----------------------------
(***************************************************************************)
(* Commands that spend money and promise something of how they end: the    *)
(* bounded job, the readiness wait, `lium up`, the card top-up, `fund`,    *)
(* and `rm` with `ps`.  They share no state: a behaviour is one of one     *)
(* component, named by `part`, with the others in an initial state.        *)
(***************************************************************************)
EXTENDS BoundedJob, ReadyWait, UpCommand, TopUp, Fund, PodTargets

VARIABLE part
holderVars == <<part, jobVars, readyVars, upVars, cardVars, fundVars, targetVars>>

(* --ttl and --until exclude each other; a volume, like a build context,    *)
(* only matters for what a failure says.                                   *)
AllAsks ==
  { [volume |-> kept, context |-> kept, ttl |-> t, until |-> u, budget |-> b,
     strict |-> TRUE, jupyter |-> TRUE, timeout |-> 2] :
      kept \in BOOLEAN, t \in {2, NoEnd}, u \in {3, NoEnd}, b \in {1, 3, NoEnd} }
AsksFollowed == {ask \in AllAsks : ask.ttl = NoEnd \/ ask.until = NoEnd}
PlainAsk == CHOOSE ask \in AsksFollowed : ~ask.volume

(* Netuid and address are alike: the API begins with a chosen one of each. *)
FirstNet == CHOOSE n \in Nets : TRUE
FirstAddress == CHOOSE a \in Addresses : TRUE

(* One number, a number beside a name or twice beside an id, with and      *)
(* without --name-only, everything; with every way to agree.  One of the   *)
(* two pods begins with a plain name, the other may be named by a number.  *)
RmLine(words, all, numbers, later, mode) ==
  [words |-> words, all |-> all, numbers |-> numbers, later |-> later, mode |-> mode]
FirstPod == CHOOSE p \in UserPods : TRUE
LinesFollowed ==
  {RmLine(<<1>>, "no", TRUE, FALSE, mode) : mode \in {"terminal", "piped"}}
  \cup {RmLine(<<1, n>>, "no", numbers, TRUE, "terminal") : n \in PlainNames, numbers \in BOOLEAN}
  \cup {RmLine(<<2, FirstPod, 2>>, "no", TRUE, FALSE, "yes")}
  \cup {RmLine(<<>>, all, TRUE, FALSE, "terminal") : all \in {"word", "flag"}}
OneIsPlain == podName[FirstPod] \in PlainNames
NobodyRents == podName = [p \in UserPods |-> 1] /\ podLife = [p \in UserPods |-> "none"]

HolderInit ==
  /\ part \in {"job", "wait", "up", "card", "fund", "rows"}
  /\ JobInit /\ ReadyInit /\ UpInit /\ CardInit /\ FundInit
  /\ part # "wait" => start = "starting" /\ timeout = NoTimeout /\ ~wantsPort
  /\ part # "up" => upAsk = PlainAsk
  /\ part # "card" => typedKey = NoKey /\ ~cardWait
  /\ primaryNet = FirstNet /\ payAddress = FirstAddress
  /\ part # "fund" =>
       ~alphaFlow /\ registered /\ freeAlpha = [n \in Nets |-> 0]
  /\ TargetInit /\ IF part = "rows" THEN OneIsPlain ELSE NobodyRents

HolderNext ==
  \/ part = "job" /\ JobNext /\ UNCHANGED <<part, readyVars, upVars, cardVars, fundVars, targetVars>>
  \/ part = "wait" /\ ReadyNext /\ UNCHANGED <<part, jobVars, upVars, cardVars, fundVars, targetVars>>
  \/ part = "up" /\ UpNext /\ UNCHANGED <<part, jobVars, readyVars, cardVars, fundVars, targetVars>>
  \/ part = "card" /\ CardNext /\ UNCHANGED <<part, jobVars, readyVars, upVars, fundVars, targetVars>>
  \/ part = "fund" /\ FundNext /\ UNCHANGED <<part, jobVars, readyVars, upVars, cardVars, targetVars>>
  \/ part = "rows" /\ TargetNext
       /\ UNCHANGED <<part, jobVars, readyVars, upVars, cardVars, fundVars>>

HolderSpec ==
  /\ HolderInit /\ [][HolderNext]_holderVars
  /\ part = "job" => JobFairness
  /\ part = "wait" => WaitFairness

HolderTypeOK ==
  CASE part = "job" -> JobTypeOK
    [] part = "wait" -> ReadyTypeOK
    [] part = "up" -> UpTypeOK
    [] part = "card" -> CardTypeOK
    [] part = "fund" -> FundTypeOK
    [] part = "rows" -> TargetTypeOK

(* What is followed: one `rm`, for the next starts from what any first one *)
(* starts from; once its targets are resolved no `ps`, which it does not   *)
(* read any more.                                                          *)
OneRm ==
  part = "rows" =>
    /\ rmExit = "none"
    /\ rmStep \in {"approve", "act"} => psStep = "idle"
    /\ rmStep = "approve" => changes < MaxChanges
==============================================================================
