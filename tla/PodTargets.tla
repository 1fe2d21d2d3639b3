------------------------------ MODULE PodTargets ------------------------------
(***************************************************************************)
(* What a target of `lium rm` stands for (src/lium/cli/utils.py, cli/ps,   *)
(* cli/rm): a row number of the last `lium ps` of this shell, kept in a    *)
(* file named after the shell's process number, or an id, huid or name;    *)
(* and what becomes of the pods that were chosen.                          *)
(*                                                                         *)
(* A huid is like an id: a pod stands for both.  One shell, one `rm` at a  *)
(* time; `lium ps` may run beside it, as an agent does, and so may the     *)
(* other clients of the account.                                           *)
(***************************************************************************)
EXTENDS Integers, Sequences, FiniteSets, SequencesExt

CONSTANTS
  UserPods,
  Rows,       \* row numbers; a pod may have one of them as its name
  PlainNames, \* other names
  MaxChanges, \* bound: what happens around one `rm`, listings included
  RmLines,    \* the command lines that are followed, see RmLineType
  NoLine,     \* no `rm` runs
  NoRows,     \* no listing
  NoWord      \* no word of its own: all pods were asked for

Words == Rows \cup PlainNames \cup UserPods
(* words: TARGETS, in order.  all: --all, or the word "all".  numbers:     *)
(* neither --name-only nor LIUM_NO_POD_INDEX.  later: --in or --at.  mode: *)
(* --yes, a terminal, or neither.                                          *)
RmLineType ==
  [words : Seq(Words), all : {"no", "flag", "word"}, numbers : BOOLEAN, later : BOOLEAN,
   mode : {"yes", "terminal", "piped"}]

ASSUME RowsAssumption ==
  /\ Rows \subseteq Nat \ {0} /\ PlainNames \cap Rows = {} /\ NoWord \notin Words
  /\ UserPods \cap (Rows \cup PlainNames) = {} /\ IsFiniteSet(UserPods)
  /\ RmLines \subseteq RmLineType /\ NoLine \notin RmLines /\ MaxChanges \in Nat

VARIABLES
  podName,  \* API: pod -> its name
  podLife,  \* API: pod -> "none", "listed", "gone"
  podEnds,  \* API: the pods whose removal is scheduled
  rowsFile, \* last_ps.<ppid>.json, see Listings
  screen,   \* history: the last listing that this shell was shown
  psRows,   \* the rows of the `lium ps` that runs
  psStep,   \* its next step
  rmLine,   \* the command line of the `rm` that runs, or has ended
  rmStep,   \* its next step
  rmListed, \* all_pods
  rmPlan,   \* selected pods in order, each with the word that named it
  rmDone,   \* how many of them were tried
  failed,   \* failed_huids
  overspent,\* budget_huids
  touched,  \* history: the pods that a request of this command changed
  consent,  \* history: the pods that the user was shown and agreed to
  rmExit,   \* how it ended
  changes   \* how much has happened around it, up to MaxChanges

apiSide == <<podName, podLife, podEnds>>
shellSide == <<rowsFile, screen, psRows, psStep>>
rmSide == <<rmLine, rmListed, rmPlan>>
rmWork == <<rmDone, failed, overspent, touched>>
targetVars == <<apiSide, shellSide, rmSide, rmStep, rmWork, consent, rmExit, changes>>

PodRows == {rows \in UNION {[1..n -> UserPods] : n \in 0..2} : IsInjective(rows)}
Listings == [rows : PodRows, fresh : BOOLEAN] \cup {NoRows}
Listed == {p \in UserPods : podLife[p] = "listed"}
(* via: it was a row number.                                               *)
RmChoices == [pod : UserPods, word : Words \cup {NoWord}, via : BOOLEAN]
RmExits == {"none", "ok", "nothing", "api", "not_found", "stale", "invalid", "refused",
            "declined", "failed", "budget"}
Chosen == {rmPlan[i].pod : i \in DOMAIN rmPlan}

TargetTypeOK ==
  /\ podName \in [UserPods -> Rows \cup PlainNames] /\ podLife \in [UserPods -> {"none", "listed", "gone"}]
  /\ podEnds \subseteq UserPods /\ rowsFile \in Listings /\ screen \in Listings
  /\ psRows \in PodRows \cup {NoRows} /\ psStep \in {"idle", "store", "write", "show"}
  /\ rmLine \in RmLines \cup {NoLine}
  /\ rmStep \in {"idle", "list", "resolve", "approve", "act"}
  /\ rmListed \subseteq UserPods /\ rmPlan \in Seq(RmChoices) /\ rmDone \in 0..Len(rmPlan)
  /\ failed \subseteq Chosen /\ overspent \subseteq Chosen /\ touched \subseteq UserPods /\ consent \subseteq UserPods /\ rmExit \in RmExits
  /\ (rmStep # "idle" => rmExit = "none") /\ changes \in 0..MaxChanges

TargetInit ==
  /\ podName \in [UserPods -> Rows \cup PlainNames] /\ podLife \in [UserPods -> {"none", "listed"}]
  /\ podEnds = {} /\ rowsFile = NoRows /\ screen = NoRows /\ psRows = NoRows /\ psStep = "idle"
  /\ rmLine = NoLine /\ rmStep = "idle" /\ rmListed = {} /\ rmPlan = <<>> /\ rmDone = 0
  /\ failed = {} /\ overspent = {} /\ touched = {} /\ consent = {}
  /\ rmExit = "none" /\ changes = 0

-----------------------------------------------------------------------------
(* `lium ps`, or one refresh of --watch, sorted and filtered in any way.   *)

AChange == changes < MaxChanges /\ changes' = changes + 1
PsLoads ==
  /\ AChange /\ psStep = "idle" /\ psStep' = "store"
  /\ psRows' \in {rows \in PodRows : ToSet(rows) \subseteq Listed}
  /\ UNCHANGED <<apiSide, rowsFile, screen, rmSide, rmStep, rmWork, consent, rmExit>>

(* store_pod_selection: the file is opened, and thereby emptied, or is     *)
(* not; then it is written, or cut short.  A failure is not an error.      *)
PsOpens ==
  /\ psStep = "store"
  /\ \/ psStep' = "write" /\ rowsFile' = NoRows
     \/ psStep' = "show" /\ UNCHANGED rowsFile
  /\ UNCHANGED <<apiSide, screen, psRows, rmSide, rmStep, rmWork, consent, rmExit, changes>>
PsWrites ==
  /\ psStep = "write" /\ psStep' = "show"
  /\ rowsFile' \in {[rows |-> psRows, fresh |-> TRUE], NoRows}
  /\ UNCHANGED <<apiSide, screen, psRows, rmSide, rmStep, rmWork, consent, rmExit, changes>>

(* _render; a `ps` may fail or be killed at any step.                      *)
PsShows ==
  /\ \/ psStep = "show" /\ screen' = [rows |-> psRows, fresh |-> TRUE]
     \/ psStep # "idle" /\ UNCHANGED screen
  /\ psStep' = "idle" /\ psRows' = NoRows
  /\ UNCHANGED <<apiSide, rowsFile, rmSide, rmStep, rmWork, consent, rmExit, changes>>

-----------------------------------------------------------------------------
(* resolve_targets.                                                        *)

(* The rows that may be used: not older than POD_INDEX_TTL_SECONDS.        *)
(* Faulty: of any age.                                                     *)
UsableFaulty == rowsFile # NoRows
Usable == rowsFile # NoRows /\ rowsFile.fresh

(* _exact_match: the first of the list; ids differ, names need not.        *)
NamedBy(word) == {p \in rmListed : word = p \/ word = podName[p]}

(* _resolve_pod_index: the number is a row of the listing ...              *)
IsRow(word) == Usable /\ word <= Len(rowsFile.rows)
(* ... and refused when the listing, or the pod of that row, is no longer  *)
(* good.                                                                   *)
Untrusted(word) == ~Usable \/ (IsRow(word) /\ rowsFile.rows[word] \notin rmListed)

ReadAsRow(word) == rmLine.numbers /\ word \in Rows /\ IsRow(word) /\ ~Untrusted(word)
Choice(word) ==
  IF ReadAsRow(word)
  THEN {[pod |-> rowsFile.rows[word], word |-> word, via |-> TRUE]}
  ELSE {[pod |-> p, word |-> word, via |-> FALSE] : p \in NamedBy(word)}
Refusable(word) ==
  rmLine.numbers /\ word \in Rows /\ Untrusted(word) /\ NamedBy(word) = {}

(* A word that names nothing is left out; the others stand in order, and   *)
(* "all" stands for every pod of the list.                                 *)
Meant == {i \in DOMAIN rmLine.words : Choice(rmLine.words[i]) # {}}
Plans ==
  {plan \in [1..Cardinality(Meant) -> UNION {Choice(w) : w \in ToSet(rmLine.words)}] :
     /\ \A i, j \in DOMAIN plan : plan[i].word = plan[j].word => plan[i] = plan[j]
     /\ \E place \in [DOMAIN plan -> Meant] :
          /\ \A i, j \in DOMAIN plan : i < j => place[i] < place[j]
          /\ \A i \in DOMAIN plan : plan[i].word = rmLine.words[place[i]]}
EveryPod ==
  {plan \in [1..Cardinality(rmListed) -> [pod : rmListed, word : {NoWord}, via : {FALSE}]] :
     IsInjective(plan)}

-----------------------------------------------------------------------------
(* `lium rm`.                                                              *)

RmEnds(exit) == rmStep' = "idle" /\ rmExit' = exit
RmGoes(to) == rmStep' = to /\ UNCHANGED rmExit

RmStarts(line) ==
  /\ rmStep = "idle" /\ rmLine' = line /\ rmStep' = "list" /\ rmExit' = "none"
  /\ rmListed' = {} /\ rmPlan' = <<>> /\ rmDone' = 0 /\ failed' = {} /\ overspent' = {}
  /\ touched' = {} /\ consent' = {}
  /\ UNCHANGED <<apiSide, shellSide, changes>>

(* build_removal_plan: Lium.ps(), before the rows are read.                *)
RmLists ==
  /\ rmStep = "list"
  /\ \/ RmEnds("api") /\ UNCHANGED rmListed
     \/ /\ rmListed' = Listed
        /\ IF Listed # {} THEN RmGoes("resolve")
           ELSE RmEnds(IF rmLine.all = "flag" THEN "nothing" ELSE "not_found")
  /\ UNCHANGED <<apiSide, shellSide, rmLine, rmPlan, rmWork, consent, changes>>

(* parsing.parse; a time that cannot be read, or has passed, is found out  *)
(* last.                                                                   *)
ResolvedPlans == IF rmLine.all = "no" THEN Plans ELSE EveryPod
Refused == rmLine.all = "no" /\ \E w \in ToSet(rmLine.words) : Refusable(w)
RmResolves ==
  /\ rmStep = "resolve"
  /\ \/ Refused /\ RmEnds("stale") /\ UNCHANGED rmPlan
     \/ ~Refused /\ ResolvedPlans = {<<>>} /\ RmEnds("not_found") /\ UNCHANGED rmPlan
     \/ /\ ~Refused /\ ResolvedPlans # {<<>>}
        /\ \/ rmPlan' \in ResolvedPlans /\ RmGoes("approve")
           \/ rmLine.later /\ RmEnds("invalid") /\ UNCHANGED rmPlan
  /\ UNCHANGED <<apiSide, shellSide, rmLine, rmListed, rmWork, consent, changes>>

(* refuse_without_a_terminal, human_approved_removing_every_pod,           *)
(* human_approved_index_targets: on a terminal only --all and row numbers  *)
(* are asked about.                                                        *)
Asked == rmLine.all = "flag" \/ \E i \in DOMAIN rmPlan : rmPlan[i].via
RmApproves ==
  /\ rmStep = "approve"
  /\ \/ rmLine.mode = "piped" /\ RmEnds("refused") /\ UNCHANGED consent
     \/ rmLine.mode = "terminal" /\ Asked /\ RmEnds("declined") /\ UNCHANGED consent
     \/ /\ rmLine.mode # "piped" /\ RmGoes("act")
        /\ consent' = IF rmLine.mode = "terminal" /\ Asked THEN Chosen ELSE {}
  /\ UNCHANGED <<apiSide, shellSide, rmSide, rmWork, changes>>

(* RemovePodsAction: one DELETE per pod; any exception counts as failed,   *)
(* the 404 of a pod that is gone too.                                      *)
Current == rmPlan[rmDone + 1].pod
TryRemove ==
  \/ /\ podLife[Current] = "listed" /\ podLife' = [podLife EXCEPT ![Current] = "gone"]
     /\ touched' = touched \cup {Current}
     /\ failed' \in {failed, failed \cup {Current}}
     /\ UNCHANGED <<podEnds, overspent>>
  \/ failed' = failed \cup {Current} /\ UNCHANGED <<podLife, podEnds, overspent, touched>>

(* ScheduleRemovalAction: the 402 of a key's budget is kept apart.         *)
TrySchedule ==
  \/ /\ podLife[Current] = "listed" /\ podEnds' = podEnds \cup {Current}
     /\ touched' = touched \cup {Current}
     /\ failed' \in {failed, failed \cup {Current}}
     /\ UNCHANGED <<podLife, overspent>>
  \/ failed' = failed \cup {Current} /\ UNCHANGED <<podLife, podEnds, overspent, touched>>
  \/ /\ overspent' = overspent \cup {Current}
     /\ UNCHANGED <<podLife, podEnds, failed, touched>>

RmTries ==
  /\ rmStep = "act" /\ rmDone < Len(rmPlan) /\ rmDone' = rmDone + 1
  /\ IF rmLine.later THEN TrySchedule ELSE TryRemove
  /\ UNCHANGED <<podName, shellSide, rmSide, rmStep, consent, rmExit, changes>>

(* rm_command: what is reported as removed or scheduled, and the exit.     *)
Reported == Chosen \ (failed \cup overspent)
RmReports ==
  /\ rmStep = "act" /\ rmDone = Len(rmPlan)
  /\ RmEnds(IF overspent # {} THEN "budget" ELSE IF failed # {} THEN "failed" ELSE "ok")
  /\ UNCHANGED <<apiSide, shellSide, rmSide, rmWork, consent, changes>>

-----------------------------------------------------------------------------
(* Around it.                                                              *)

Elsewhere == UNCHANGED <<shellSide, rmSide, rmStep, rmWork, consent, rmExit>>
(* Other clients rent, rename and remove; a pod ends.                      *)
PodComes(p) ==
  /\ AChange /\ podLife[p] = "none" /\ podLife' = [podLife EXCEPT ![p] = "listed"]
  /\ UNCHANGED <<podName, podEnds>> /\ Elsewhere
PodRenamed(p) ==
  /\ AChange /\ podLife[p] = "listed" /\ \E n \in Rows \cup PlainNames : podName' = [podName EXCEPT ![p] = n]
  /\ UNCHANGED <<podLife, podEnds>> /\ Elsewhere
PodLeaves(p) ==
  /\ AChange /\ podLife[p] = "listed" /\ podLife' = [podLife EXCEPT ![p] = "gone"]
  /\ UNCHANGED <<podName, podEnds>> /\ Elsewhere

(* Ten minutes pass; with them goes what the shell was shown.              *)
Older(listing) == IF listing = NoRows THEN NoRows ELSE [listing EXCEPT !.fresh = FALSE]
TenMinutes ==
  /\ AChange /\ rowsFile' = Older(rowsFile) /\ screen' = Older(screen)
  /\ UNCHANGED <<apiSide, psRows, psStep, rmSide, rmStep, rmWork, consent, rmExit>>

(* _prune_pod_snapshots of another shell's `ps`, which may have looked at  *)
(* an older file of that name.                                             *)
Pruned ==
  /\ AChange /\ rowsFile' = NoRows
  /\ UNCHANGED <<apiSide, screen, psRows, psStep, rmSide, rmStep, rmWork, consent, rmExit>>

(* Another shell gets the process number of one that has ended.            *)
NumberReused ==
  /\ AChange /\ rmStep = "idle" /\ psStep = "idle" /\ screen' = NoRows
  /\ UNCHANGED <<apiSide, rowsFile, psRows, psStep, rmSide, rmStep, rmWork, consent, rmExit>>

TargetNext ==
  \/ PsLoads \/ PsOpens \/ PsWrites \/ PsShows
  \/ (\E line \in RmLines : RmStarts(line))
  \/ RmLists \/ RmResolves \/ RmApproves \/ RmTries \/ RmReports
  \/ (\E p \in UserPods : PodComes(p) \/ PodRenamed(p) \/ PodLeaves(p))
  \/ TenMinutes \/ Pruned \/ NumberReused
TargetSpec == TargetInit /\ [][TargetNext]_targetVars

-----------------------------------------------------------------------------
(* The pod that the user sees in a row, if he may still go by it.          *)
SeenAt(row) ==
  IF screen # NoRows /\ screen.fresh /\ row <= Len(screen.rows) THEN {screen.rows[row]} ELSE {}

(* Unless the file has another listing than the screen: a number stands    *)
(* for the pod that the shell was shown in that row within ten minutes,    *)
(* however the list has changed since, and never for another pod that has  *)
(* the number as its name while the pod shown is still there.              *)
NumberMeansWhatWasSeen(choice) ==
  choice.word \in Rows /\ rmLine.numbers =>
    /\ choice.via => SeenAt(choice.word) = {choice.pod}
    /\ ~choice.via => SeenAt(choice.word) \cap rmListed = {}

(* Only pods that were listed and chosen are touched, and only with --yes  *)
(* or on a terminal; all of them (--all), or those named by number, only   *)
(* after the user agreed to this very list.                                *)
OnlyTheAgreedPods ==
  /\ touched \subseteq Chosen /\ Chosen \subseteq rmListed
  /\ touched # {} =>
       /\ rmLine.mode # "piped"
       /\ rmLine.mode = "terminal" /\ Asked => touched \subseteq consent
       /\ rmExit \in {"none", "ok", "failed", "budget"}

(* What is reported as removed is gone, what is reported as scheduled has  *)
(* an end or is gone; success is reported only of every pod chosen, and a  *)
(* spent budget never as another failure.                                  *)
WhatRmSaysIsTrue ==
  rmExit \in {"ok", "failed", "budget"} =>
    /\ \A p \in Reported : podLife[p] = "gone" \/ (rmLine.later /\ p \in podEnds)
    /\ rmExit = "ok" => Reported = Chosen
    /\ rmExit = "failed" => overspent = {}

(* The promises of `lium rm`: about numbers (_resolve_pod_index: "acting   *)
(* on a pod the caller never saw" is what it refuses), about consent, and  *)
(* about the report.                                                       *)
RemovalKeepsItsWord ==
  /\ [](OnlyTheAgreedPods /\ WhatRmSaysIsTrue)
  /\ [][rmStep = "resolve" /\ rowsFile = screen =>
          \A i \in DOMAIN rmPlan' : NumberMeansWhatWasSeen(rmPlan'[i])]_targetVars

(* The same of numbers without the exception.  Does not hold: the listing  *)
(* is stored before it is shown, may not be stored, and belongs to the     *)
(* process number of the shell.                                            *)
OnlyWhatWasShown ==
  [][rmStep = "resolve" =>
       \A i \in DOMAIN rmPlan' : NumberMeansWhatWasSeen(rmPlan'[i])]_targetVars
==============================================================================
