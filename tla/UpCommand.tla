------------------------------ MODULE UpCommand ------------------------------
(***************************************************************************)
(* `lium up` (src/lium/cli/up/command.py): create a volume, upload a build *)
(* context, rent, schedule the removal, wait, cap the spend, check the     *)
(* GPUs, install Jupyter, open SSH; and what it says of the pod and of the *)
(* volume when a step fails.                                               *)
(*                                                                         *)
(* The rent is what RentContract leaves of it: made, refused or unknown.   *)
(* Time is an integer clock, on which every duration is counted.           *)
(***************************************************************************)
EXTENDS Integers

CONSTANTS
  UpAsks,     \* the command lines that are followed, see UpAskType
  UpHorizon,  \* bound on the clock
  NoEnd,      \* no removal is scheduled
  NotYet      \* the command runs

VARIABLES
  upAsk,      \* the command line
  upNow,      \* the clock
  upDeadline, \* deadline, of --timeout
  upStep,     \* the next step of up_command
  upPod,      \* server: the pod of this command
  upBorn,     \* server: its created_at
  upEnd,      \* server: its removal_scheduled_at
  upVolume,   \* server: the volume this command made
  asked,      \* history: the end that --ttl or --until asks for
  plan,       \* termination_time
  scheduled,  \* termination_scheduled
  uncapped,   \* the user was told that --budget could not be computed
  upExit      \* how the command ended, see UpExits

upVars == <<upAsk, upNow, upDeadline, upStep, upPod, upBorn, upEnd, upVolume, asked, plan,
            scheduled, uncapped, upExit>>
upServer == <<upPod, upBorn, upEnd>>

UpTimes == 0..(2 * UpHorizon)
UpEnds == UpTimes \cup {NoEnd}
UpSpans == 0..UpHorizon
(* --volume new:, --dockerfile with local files, --ttl, --until, --budget  *)
(* (as the time it buys), --strict-gpus, --jupyter, --timeout.             *)
UpAskType ==
  [volume : BOOLEAN, context : BOOLEAN, ttl : UpSpans \cup {NoEnd}, until : UpEnds,
   budget : UpSpans \cup {NoEnd}, strict : BOOLEAN, jupyter : BOOLEAN, timeout : UpSpans]
(* data: what the failure carries.  says: of the end or the removal.       *)
UpExits ==
  [code : {"ok", "declined", "too_late", "not_made", "refused", "unknown", "start_failed",
           "not_ready", "api", "over_budget", "gpus", "jupyter", "session", "raw"},
   data : SUBSET {"pod", "volume"}, says : {"nothing", "ends", "no_end", "removed"}]

ASSUME UpAssumption ==
  /\ UpHorizon \in Nat /\ NoEnd \notin Nat /\ NotYet \notin UpExits
  /\ UpAsks \subseteq UpAskType

UpBilling == {"starting", "running", "failed"}
UpBefore == {"prompt", "volume", "deadline", "upload", "check", "rent"}
UpAfter == {"schedule", "wait", "cap", "cut", "reschedule", "gpus", "strict", "jupyter", "session"}

(* With: nothing is made before the rent.                                  *)
UpTypeOK ==
  /\ upAsk \in UpAsks /\ upNow \in 0..UpHorizon /\ upDeadline \in UpTimes
  /\ upStep \in UpBefore \cup UpAfter \cup {"ended"}
  /\ upPod \in UpBilling \cup {"none", "gone"} /\ upBorn \in UpTimes /\ upEnd \in UpEnds
  /\ upVolume \in {"none", "made"} /\ asked \in UpEnds /\ plan \in UpEnds
  /\ scheduled \in BOOLEAN /\ uncapped \in BOOLEAN /\ upExit \in UpExits \cup {NotYet}
  /\ upExit = NotYet <=> upStep # "ended"
  /\ upStep \in UpBefore => upPod = "none"

UpInit ==
  /\ upAsk \in UpAsks /\ upNow = 0 /\ upDeadline = upAsk.timeout /\ upStep = "prompt"
  /\ upPod = "none" /\ upBorn = 0 /\ upEnd = NoEnd /\ upVolume = "none"
  /\ asked = NoEnd /\ plan = upAsk.until /\ scheduled = FALSE /\ uncapped = FALSE
  /\ upExit = NotYet

UpGoes(from, to) == upStep = from /\ upStep' = to /\ UNCHANGED upExit
UpEndsAs(from, code, data, says) ==
  /\ upStep = from /\ upStep' = "ended"
  /\ upExit' = [code |-> code, data |-> data, says |-> says]
UpSame == UNCHANGED <<upAsk, upNow, upDeadline, upVolume, asked, uncapped>>
UpPlans == UNCHANGED <<plan, scheduled>>

-----------------------------------------------------------------------------
(* Before the rent.                                                        *)

(* created_volume; nothing else is carried before the rent.                *)
Kept == IF upVolume = "made" THEN {"volume"} ELSE {}

UpPrompt ==
  /\ UpGoes("prompt", "volume") \/ UpEndsAs("prompt", "declined", {}, "nothing")
  /\ UNCHANGED upServer /\ UpPlans /\ UpSame

(* Without an answer the volume may exist, but the command has no id of it.*)
MakeVolume ==
  /\ \/ ~upAsk.volume /\ UpGoes("volume", "deadline") /\ UNCHANGED upVolume
     \/ upAsk.volume /\ UpGoes("volume", "deadline") /\ upVolume' = "made"
     \/ upAsk.volume /\ UpEndsAs("volume", "not_made", {}, "nothing")
        /\ upVolume' \in {"none", "made"}
  /\ UNCHANGED <<upServer, upAsk, upNow, upDeadline, asked, uncapped>> /\ UpPlans

(* _check_deadline, before and after the upload.                           *)
CheckDeadline(at, to) ==
  /\ IF upNow < upDeadline THEN UpGoes(at, to) ELSE UpEndsAs(at, "too_late", Kept, "nothing")
  /\ UNCHANGED upServer /\ UpPlans /\ UpSame
BeforeUpload == CheckDeadline("deadline", IF upAsk.context THEN "upload" ELSE "rent")
AfterUpload == CheckDeadline("check", "rent")

(* Only a timeout of the upload is caught.                                 *)
Upload ==
  /\ \/ UpGoes("upload", "check")
     \/ UpEndsAs("upload", "too_late", Kept, "nothing")
     \/ UpEndsAs("upload", "raw", {}, "nothing")
  /\ UNCHANGED upServer /\ UpPlans /\ UpSame

(* The pod bills from here on.  --ttl counts from the answer.              *)
UpRent ==
  /\ \/ /\ UpGoes("rent", "schedule") /\ upPod' = "starting" /\ upBorn' = upNow
        /\ plan' = IF upAsk.ttl = NoEnd THEN plan ELSE upNow + upAsk.ttl
     \/ /\ UpEndsAs("rent", "unknown", Kept, "nothing")
        /\ upPod' \in {"none", "starting"} /\ upBorn' = upNow /\ UNCHANGED plan
     \/ /\ UpEndsAs("rent", "refused", Kept, "nothing")
        /\ UNCHANGED <<upPod, upBorn, plan>>
  /\ asked' = plan'
  /\ UNCHANGED <<upEnd, upAsk, upNow, upDeadline, upVolume, scheduled, uncapped>>

-----------------------------------------------------------------------------
(* After it: billing_pod goes with every failure.                          *)

(* Lium.schedule_termination, with its retries: the answer may be lost; a  *)
(* time that has passed, or a pod that is gone, is refused.                *)
Takes(time) == time > upNow /\ upPod \in UpBilling
Sets(time) == Takes(time) /\ upEnd' = time
MaySet(time) == (Takes(time) /\ upEnd' = time) \/ UNCHANGED upEnd

(* _schedule_termination_at_rent: a failure is said, and tried again later.*)
ScheduleAtRent ==
  /\ UpGoes("schedule", "wait")
  /\ \/ plan = NoEnd /\ UNCHANGED <<upEnd, scheduled>>
     \/ plan # NoEnd /\ Sets(plan) /\ scheduled' = TRUE
     \/ plan # NoEnd /\ MaySet(plan) /\ scheduled' = FALSE
  /\ UNCHANGED <<upPod, upBorn, plan>> /\ UpSame

(* _termination_note                                                       *)
EndNote == IF plan = NoEnd THEN "nothing" ELSE IF scheduled THEN "ends" ELSE "no_end"

(* WaitReadyAction, within what --timeout has left.                        *)
UpWait ==
  /\ \/ upPod = "running" /\ UpGoes("wait", "cap")
     \/ upPod \in {"failed", "gone"} /\ UpEndsAs("wait", "start_failed", {"pod"}, EndNote)
     \/ upNow >= upDeadline /\ UpEndsAs("wait", "not_ready", {"pod"}, EndNote)
     \/ UpEndsAs("wait", "api", {"pod"}, "nothing")
  /\ UNCHANGED upServer /\ UpPlans /\ UpSame

(* budget_deadline: counted from created_at; the earlier of the two ends   *)
(* wins.  Faulty: the end set at the rent counts for the cap as well.      *)
CapEnd == upBorn + upAsk.budget
Capped(stands) ==
  /\ UpGoes("cap", "reschedule") /\ UNCHANGED uncapped
  /\ IF plan = NoEnd \/ CapEnd < plan
     THEN plan' = CapEnd /\ scheduled' = (scheduled /\ stands)
     ELSE UpPlans
Cap(stands) ==
  /\ \/ upAsk.budget = NoEnd /\ UpGoes("cap", "reschedule") /\ UpPlans /\ UNCHANGED uncapped
     \/ upAsk.budget # NoEnd /\ UpGoes("cap", "reschedule") /\ uncapped' = TRUE /\ UpPlans
     \/ /\ upAsk.budget # NoEnd /\ CapEnd <= upNow /\ UpGoes("cap", "cut")
        /\ UpPlans /\ UNCHANGED uncapped
     \/ upAsk.budget # NoEnd /\ CapEnd > upNow /\ Capped(stands)
  /\ UNCHANGED <<upServer, upAsk, upNow, upDeadline, upVolume, asked>>
CapSpendFaulty == Cap(TRUE)
CapSpend == Cap(FALSE)

(* lium.down: the answer of the DELETE may be lost.                        *)
UpDown == upPod' = "gone" /\ UNCHANGED <<upBorn, upEnd>>
UpDownFails == upPod' \in {upPod, "gone"} /\ UNCHANGED <<upBorn, upEnd>>

(* The budget is spent before the pod is ready: it is removed.  A failure  *)
(* of that is not caught.                                                  *)
CutSpend ==
  /\ \/ UpEndsAs("cut", "over_budget", {}, "removed") /\ UpDown
     \/ UpEndsAs("cut", "raw", {}, "nothing") /\ UpDownFails
  /\ UpPlans /\ UpSame

(* What is not scheduled yet, is now, before anything runs on the pod.     *)
Reschedule ==
  /\ \/ (plan = NoEnd \/ scheduled) /\ UpGoes("reschedule", "gpus") /\ UNCHANGED upEnd
     \/ plan # NoEnd /\ ~scheduled /\ Sets(plan) /\ UpGoes("reschedule", "gpus")
     \/ /\ plan # NoEnd /\ ~scheduled /\ MaySet(plan)
        /\ UpEndsAs("reschedule", "api", {"pod"}, "no_end")
  /\ UNCHANGED <<upPod, upBorn>> /\ UpPlans /\ UpSame

(* VerifyGpuCountAction: right, wrong, or it could not be checked.         *)
CheckGpus ==
  /\ \/ UpGoes("gpus", "jupyter")
     \/ UpEndsAs("gpus", "gpus", {"pod"}, "nothing")
     \/ upAsk.strict /\ UpGoes("gpus", "strict")
  /\ UNCHANGED upServer /\ UpPlans /\ UpSame
RemoveMismatch ==
  /\ \/ UpEndsAs("strict", "gpus", {"pod"}, "removed") /\ UpDown
     \/ UpEndsAs("strict", "gpus", {"pod"}, "nothing") /\ UpDownFails
  /\ UpPlans /\ UpSame

InstallJupyter ==
  /\ \/ UpGoes("jupyter", "session")
     \/ upAsk.jupyter /\ UpEndsAs("jupyter", "jupyter", {"pod"}, "nothing")
  /\ UNCHANGED upServer /\ UpPlans /\ UpSame

(* --json, --no-ssh, the log stream or SSH.  The pod is looked up again    *)
(* for SSH; a failure of that is not caught.                               *)
Session ==
  /\ \/ UpEndsAs("session", "ok", {}, "nothing")
     \/ UpEndsAs("session", "session", {"pod"}, "nothing")
     \/ UpEndsAs("session", "raw", {}, "nothing")
  /\ UNCHANGED upServer /\ UpPlans /\ UpSame

-----------------------------------------------------------------------------
(* The server and the clock; time at the prompt is not the command's.      *)
UpCommandSame == UNCHANGED <<upAsk, upStep, upVolume, asked, uncapped, upExit>> /\ UpPlans
UpServerStep ==
  /\ \/ upPod = "starting" /\ upPod' \in {"running", "failed"}
     \/ upPod \in UpBilling /\ upEnd # NoEnd /\ upEnd <= upNow /\ upPod' = "gone"
     \/ upPod = "running" /\ upPod' = "gone"  \* a Spot node is reclaimed
  /\ UNCHANGED <<upBorn, upEnd, upNow, upDeadline>> /\ UpCommandSame
UpTick ==
  /\ upNow < UpHorizon /\ upNow' = upNow + 1
  /\ upDeadline' = IF upStep = "prompt" THEN upDeadline + 1 ELSE upDeadline
  /\ UNCHANGED upServer /\ UpCommandSame

UpNext ==
  \/ UpPrompt \/ MakeVolume \/ BeforeUpload \/ Upload \/ AfterUpload \/ UpRent
  \/ ScheduleAtRent \/ UpWait \/ CapSpend \/ CutSpend \/ Reschedule
  \/ CheckGpus \/ RemoveMismatch \/ InstallJupyter \/ Session \/ UpServerStep \/ UpTick
UpSpec == UpInit /\ [][UpNext]_upVars

-----------------------------------------------------------------------------
UpBills == upPod \in UpBilling
EarlierEnd(e, f) == IF e = NoEnd THEN f ELSE IF f = NoEnd \/ e < f THEN e ELSE f
(* What --ttl, --until and --budget ask for together.                      *)
Wanted == EarlierEnd(asked, IF upAsk.budget = NoEnd \/ uncapped THEN NoEnd ELSE CapEnd)

(* Nothing runs on the pod, and no caller hears of a ready one, unless the *)
(* server removes it at the earliest end that was asked for; and what the  *)
(* command says of the pod's end or removal is so, whichever of the two    *)
(* schedule calls failed.                                                  *)
EndStands ==
  UpBills =>
    /\ \/ upStep \in {"gpus", "strict", "jupyter", "session"}
       \/ upExit # NotYet /\ upExit.code \in {"ok", "gpus", "jupyter", "session"}
       => upEnd = Wanted
    /\ upExit # NotYet =>
         /\ upExit.says # "removed"
         /\ upExit.says = "ends" => upEnd = asked

(* A command that fails names what it leaves behind: a volume while there  *)
(* is no pod it belongs to, the pod once there is one, unless it never     *)
(* heard of it.  "raw" failures are not caught: of an upload, of the       *)
(* removal of a pod that started too late, of its lookup for SSH.          *)
FailureNames ==
  upExit # NotYet /\ upExit.code \notin {"ok", "raw"} =>
    /\ UpBills /\ upExit.code # "unknown" => "pod" \in upExit.data
    /\ upVolume = "made" /\ upPod = "none" /\ upExit.code # "not_made" => "volume" \in upExit.data

(* The user can rely on what `lium up` was asked for and on what it says.  *)
UpKeepsItsWord == EndStands /\ FailureNames

(* VIOLATED.  command.py:802: "Every failure below names it before         *)
(* propagating, or the caller cannot clean up what it pays for. In the     *)
(* JSON envelope the name lives in ``data`` too".                          *)
BillingPodIsNamed ==
  upExit # NotYet /\ upExit.code \notin {"ok", "unknown"} /\ UpBills => "pod" \in upExit.data
==============================================================================
