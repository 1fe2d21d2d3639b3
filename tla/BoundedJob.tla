----------------------------- MODULE BoundedJob -----------------------------
(***************************************************************************)
(* Lium.run_job (src/lium/sdk/bounded_job.py): rent a pod, schedule its    *)
(* removal at the earlier of deadline and budget, boot it, run the         *)
(* command, copy the outputs, remove the pod, and report what became of it.*)
(*                                                                         *)
(* The server gives a pod an end at boot (boot + termination_hours) that   *)
(* replaces any exact time set before; a pod that is still deploying       *)
(* cannot be deleted.  Time is what the limits tell apart: before the      *)
(* exact end stop_at, after it, after the server's own hours.              *)
(***************************************************************************)
EXTENDS Integers

CONSTANTS
  Attempts,  \* _DELETE_ATTEMPTS
  NoReport   \* the job has not ended

ASSUME JobAssumption == Attempts \in Nat \ {0}

VARIABLES
  jobPod,    \* the server's pod: none, coming, deploying, running, failed, removing, gone
  jobListed, \* its row is in the listing
  jobEnd,    \* when the server removes it: "never" so far, at "exact" or after "hours"
  sent,      \* the rent request: none, hours (with termination_hours), plain (without)
  era,       \* 0 before stop_at, 1 after it, 2 after the server's own hours
  jobStep,   \* the call's next step
  knows,     \* result.pod_id is set
  acked,     \* result.removal_scheduled_at is set
  unsure,    \* the rent raised, and may have made a pod
  left,      \* DELETE attempts left
  cleanup,   \* result.cleanup
  lateBoot   \* history: the pod booted after the last acknowledged schedule

jobVars == <<jobPod, jobListed, jobEnd, sent, era, jobStep, knows, acked, unsure, left,
             cleanup, lateBoot>>
serverVars == <<jobPod, jobListed, jobEnd, era, lateBoot>>

Alive == {"deploying", "running", "failed"}
Working == {"ready", "upload", "run", "outputs"}
JobEnded == {"done", "killed"}

(* With: a pod the call knows of has been made.                            *)
JobTypeOK ==
  /\ jobPod \in Alive \cup {"none", "coming", "removing", "gone"}
  /\ jobListed \in BOOLEAN /\ jobEnd \in {"never", "exact", "hours"}
  /\ sent \in {"none", "hours", "plain"} /\ era \in 0..2
  /\ jobStep \in {"rent", "find", "schedule", "wait", "remove", "confirm", "fallback"}
                 \cup Working \cup JobEnded
  /\ knows \in BOOLEAN /\ acked \in BOOLEAN /\ unsure \in BOOLEAN /\ left \in 0..Attempts
  /\ cleanup \in {"removed", "scheduled", "not_rented", "unknown", NoReport}
  /\ lateBoot \in BOOLEAN
  /\ knows => jobPod \notin {"none", "coming"}

JobInit ==
  /\ jobPod = "none" /\ jobListed = FALSE /\ jobEnd = "never" /\ sent = "none" /\ era = 0
  /\ jobStep = "rent" /\ knows = FALSE /\ acked = FALSE /\ unsure = FALSE /\ left = Attempts
  /\ cleanup = NoReport /\ lateBoot = FALSE

Does(from, to) == jobStep = from /\ jobStep' = to
SameServer == UNCHANGED serverVars
SameResult == UNCHANGED <<knows, acked, unsure, left, cleanup>>

-----------------------------------------------------------------------------
(* lium.rent with termination_hours: made, refused, or without an answer,  *)
(* when the server may still make the pod.  Faulty: no hours are sent.     *)
Rents(hours) ==
  /\ sent' = hours
  /\ \/ /\ Does("rent", "schedule") /\ jobPod' = "deploying" /\ knows' = TRUE /\ UNCHANGED unsure
     \/ Does("rent", "find") /\ UNCHANGED <<jobPod, knows, unsure>>
     \/ /\ Does("rent", "find") /\ jobPod' \in {"none", "coming"}
        /\ unsure' = TRUE /\ UNCHANGED knows
  /\ UNCHANGED <<jobListed, jobEnd, era, lateBoot, acked, left, cleanup>>
RentFaulty == Rents("plain")
Rent == Rents("hours")

(* _remove_by_name: one listing; a pod found there is removed as _remove   *)
(* does, and none settles a refusal only.                                  *)
FindByName ==
  /\ \/ Does("find", "done") /\ cleanup' = "unknown" /\ UNCHANGED knows
     \/ /\ ~jobListed /\ Does("find", "done") /\ UNCHANGED knows
        /\ cleanup' = IF unsure THEN "unknown" ELSE "not_rented"
     \/ jobListed /\ Does("find", "remove") /\ knows' = TRUE /\ UNCHANGED cleanup
  /\ SameServer /\ UNCHANGED <<sent, acked, unsure, left>>

(* schedule_termination at stop_at.  The request may fail before or after  *)
(* the server has it.                                                      *)
Applied == jobEnd' = IF jobPod \in Alive THEN "exact" ELSE jobEnd
JobSchedules(from, ok, failed) ==
  /\ \/ /\ Does(from, ok) /\ Applied /\ acked' = TRUE
        /\ jobPod \in Alive /\ lateBoot' = FALSE
     \/ /\ Does(from, failed) /\ UNCHANGED <<acked, lateBoot>>
        /\ Applied \/ UNCHANGED jobEnd
  /\ UNCHANGED <<jobPod, jobListed, era, sent, knows, unsure, left>>

Schedule == JobSchedules("schedule", "wait", "remove") /\ UNCHANGED cleanup

(* wait_ready within the boot timeout and what is left.                    *)
WaitReady ==
  /\ \/ jobPod = "running" /\ jobListed /\ Does("wait", "ready")
     \/ Does("wait", "remove")
  /\ SameServer /\ SameResult /\ UNCHANGED sent

(* The boot has replaced the exact end: it is set again, while time is     *)
(* left.  Faulty: once was enough.                                         *)
ScheduleAgainFaulty ==
  Does("ready", "upload") /\ SameServer /\ SameResult /\ UNCHANGED sent
ScheduleAgain ==
  \/ era = 0 /\ JobSchedules("ready", "upload", "remove") /\ UNCHANGED cleanup
  \/ era > 0 /\ Does("ready", "upload") /\ SameServer /\ SameResult /\ UNCHANGED sent

(* Inputs, command, outputs: each within the time that is left, each may   *)
(* fail; outputs are copied after a failed command too.                    *)
Work ==
  /\ \/ era = 0 /\ Does("upload", "run")
     \/ Does("upload", "remove")
     \/ Does("run", "outputs")
     \/ Does("outputs", "remove")
  /\ SameServer /\ SameResult /\ UNCHANGED sent

(* Ctrl-C, or any other exception, on the way: the `finally` still runs.   *)
Interrupted ==
  /\ knows /\ jobStep \in Working \cup {"schedule", "wait"} /\ jobStep' = "remove"
  /\ SameServer /\ SameResult /\ UNCHANGED sent

-----------------------------------------------------------------------------
(* _remove: DELETE, a few times; the answer may be lost.  What comes after *)
(* a failure depends on how the call got here.                             *)
(* Faulty: the attempts are not counted.                                   *)
Removed == IF jobPod \in Alive THEN "removing" ELSE jobPod
GivesUp == IF unsure THEN "done" ELSE "fallback"
NextTryFaulty == "remove"
NextTry == IF left = 1 THEN GivesUp ELSE "remove"
Delete ==
  /\ jobStep = "remove" /\ left' = left - 1
  /\ \/ /\ jobPod # "deploying" /\ jobStep' = "confirm"
        /\ jobPod' = Removed /\ UNCHANGED cleanup
     \/ /\ jobPod' = jobPod \/ (jobPod # "deploying" /\ jobPod' = Removed)
        /\ jobStep' = NextTry
        /\ cleanup' = IF left = 1 /\ unsure THEN "unknown" ELSE cleanup
  /\ UNCHANGED <<jobListed, jobEnd, era, lateBoot, sent, knows, acked, unsure>>

(* ... then the listing, until the pod is not in it or the time is up.     *)
(* Faulty: a successful DELETE is taken for the removal.                   *)
ConfirmFaulty ==
  /\ Does("confirm", "done") /\ cleanup' = "removed"
  /\ SameServer /\ UNCHANGED <<sent, knows, acked, unsure, left>>
Confirm ==
  /\ \/ jobListed = FALSE /\ Does("confirm", "done") /\ cleanup' = "removed"
     \/ /\ Does("confirm", GivesUp)
        /\ cleanup' = IF unsure THEN "unknown" ELSE cleanup
  /\ SameServer /\ UNCHANGED <<sent, knows, acked, unsure, left>>

(* The `finally`: a schedule that was never acknowledged is tried again.   *)
Fallback ==
  \/ /\ acked /\ Does("fallback", "done") /\ cleanup' = "scheduled"
     /\ SameServer /\ UNCHANGED <<sent, knows, acked, unsure, left>>
  \/ /\ ~acked /\ JobSchedules("fallback", "done", "done")
     /\ cleanup' = IF acked' THEN "scheduled" ELSE "unknown"

(* kill -9                                                                 *)
JobKilled ==
  /\ jobStep \notin JobEnded /\ jobStep' = "killed"
  /\ SameServer /\ SameResult /\ UNCHANGED sent

-----------------------------------------------------------------------------
(* The server.                                                             *)
SameJob == UNCHANGED <<sent, jobStep>> /\ SameResult

Create ==
  /\ jobPod = "coming" /\ jobPod' = "deploying"
  /\ UNCHANGED <<jobListed, jobEnd, era, lateBoot>> /\ SameJob

List ==
  /\ jobPod \in Alive /\ ~jobListed /\ jobListed' = TRUE
  /\ UNCHANGED <<jobPod, jobEnd, era, lateBoot>> /\ SameJob

PodBoots ==
  /\ jobPod = "deploying" /\ jobPod' = "running"
  /\ jobEnd' = IF sent = "hours" THEN "hours" ELSE jobEnd
  /\ lateBoot' = acked
  /\ UNCHANGED <<jobListed, era>> /\ SameJob

BootFails ==
  /\ jobPod = "deploying" /\ jobPod' = "failed"
  /\ UNCHANGED <<jobListed, jobEnd, era, lateBoot>> /\ SameJob

ServerRemoves ==
  /\ jobPod \in Alive
  /\ \/ jobEnd = "exact" /\ era >= 1
     \/ jobEnd = "hours" /\ era = 2
  /\ jobPod' = "removing"
  /\ UNCHANGED <<jobListed, jobEnd, era, lateBoot>> /\ SameJob

PodVanishes ==
  /\ jobPod = "removing" /\ jobPod' = "gone" /\ jobListed' = FALSE
  /\ UNCHANGED <<jobEnd, era, lateBoot>> /\ SameJob

TimePasses ==
  /\ era < 2 /\ era' = era + 1
  /\ UNCHANGED <<jobPod, jobListed, jobEnd, lateBoot>> /\ SameJob

Client ==
  \/ Rent \/ FindByName \/ Schedule \/ WaitReady \/ ScheduleAgain \/ Work \/ Interrupted
  \/ Delete \/ Confirm \/ Fallback \/ JobKilled
Server == Create \/ List \/ PodBoots \/ BootFails \/ ServerRemoves \/ PodVanishes \/ TimePasses
JobNext == Client \/ Server

(* Time passes and the server does what it scheduled; the call owes nothing *)
(* here, it may be killed.                                                 *)
JobFairness == WF_jobVars(TimePasses) /\ WF_jobVars(ServerRemoves) /\ WF_jobVars(PodVanishes)
JobSpec == JobInit /\ [][JobNext]_jobVars /\ JobFairness

-----------------------------------------------------------------------------
(* What JobResult.cleanup says of the pod is so: removed from the listing  *)
(* and on its way out; never made and not about to be; or with the server's *)
(* removal at stop_at standing, unless the pod booted after it was set.    *)
ReportIsTrue ==
  jobStep = "done" =>
    /\ cleanup = "removed" => jobPod \in {"removing", "gone"} /\ ~jobListed
    /\ cleanup = "not_rented" => jobPod = "none"
    /\ cleanup = "scheduled" => jobPod \in {"removing", "gone"} \/ jobEnd = "exact" \/ lateBoot

(* The command never runs on a pod whose removal is not set for stop_at:   *)
(* the boot's replacement of the end has been undone by then.              *)
RunIsBounded ==
  jobStep \in {"run", "outputs"} /\ jobPod \in Alive => jobEnd = "exact"

(* The two promises of run_job: what it runs ends in time, and what it     *)
(* says of the pod afterwards can be relied on.                            *)
JobKeepsItsWord == ReportIsTrue /\ RunIsBounded

(* A pod that runs is removed by the server in the end, wherever the call  *)
(* was killed: the rent itself carries the hours.                          *)
RunningPodGoes == (jobPod = "running") ~> (jobPod = "gone")

(* VIOLATED.  bounded_job.py:64: "the acknowledged server-side removal at  *)
(* removal_scheduled_at stands".                                           *)
ScheduledStands ==
  jobStep = "done" /\ cleanup = "scheduled" /\ jobPod \in Alive => jobEnd = "exact"
=============================================================================
