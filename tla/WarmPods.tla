------------------------------ MODULE WarmPods ------------------------------
(***************************************************************************)
(* The @machine decorator (src/lium/sdk/decorators.py): a call rents a pod *)
(* or reuses one that is warm, runs the function on it, and removes the    *)
(* pod or keeps it for the next call.  A Run is one process of a script    *)
(* with one decorated function; all have the same warm key, so one run     *)
(* finds by name the pod another one keeps.  Within a run calls follow one *)
(* another.                                                                *)
(*                                                                         *)
(* Time is an integer clock: a tick is more than _REARM_AFTER_SECONDS.     *)
(***************************************************************************)
EXTENDS Integers, FiniteSets

CONSTANTS
  Runs, Pods,
  NoPod, Never,
  Limit,       \* the decorator's timeout: how long a function may run
  TtlMargin,   \* _TTL_MARGIN
  Warmths,     \* the values of keep_warm, 0 for none
  WarmMargin,  \* _WARM_MARGIN
  MaxNow,      \* bound on the clock
  MaxCalls     \* bound on the calls of a run

ASSUME WarmAssumption ==
  /\ Limit \in Nat \ {0} /\ TtlMargin \in Nat \ {0} /\ WarmMargin \in Nat \ {0}
  /\ 0 \in Warmths /\ Warmths \subseteq Nat /\ MaxNow \in Nat /\ MaxCalls \in Nat
  /\ NoPod \notin Pods /\ Never \notin Nat

VARIABLES
  now,      \* the clock
  warmPod,  \* server: state of each pod
  named,    \* server: its name is the one later runs look for
  ends,     \* server: when it is removed
  renter,   \* history: the run that rented it
  keepWarm, \* each run's keep_warm
  call,     \* each run's step
  calls,    \* calls each run may still make
  pod,      \* the call's pod_info
  found,    \* the call reuses a warm pod: `warm`, as an entry of _WARM
  justArmed,\* armed_at is no more than _REARM_AFTER_SECONDS ago
  runEnds,  \* when `timeout` kills the function
  kept,     \* _WARM
  holding,  \* .map() is running
  missed,   \* history: a removal this call asked for did not reach the server
  shared    \* history: pods two calls used at a time

warmVars == <<now, warmPod, named, ends, renter, keepWarm, call, calls, pod, found, justArmed,
              runEnds, kept, holding, missed, shared>>
serverPods == <<warmPod, named, ends, renter>>

NoWarm == [on |-> NoPod, stay |-> 0, owned |-> FALSE, previous |-> Never]
Entries == [on: Pods \cup {NoPod}, stay: Warmths, owned: BOOLEAN, previous: Nat \cup {Never}]
InUse(r) == call[r] \notin {"idle", "exited"}

(* With: the entry a run holds as its own is for a pod it rented.          *)
WarmTypeOK ==
  /\ now \in 0..MaxNow
  /\ warmPod \in [Pods -> {"none", "booting", "up", "gone"}]
  /\ named \in [Pods -> BOOLEAN] /\ ends \in [Pods -> Nat \cup {Never}]
  /\ renter \in [Pods -> Runs \cup {NoPod}]
  /\ keepWarm \in [Runs -> Warmths] /\ calls \in [Runs -> 0..MaxCalls]
  /\ call \in [Runs -> {"idle", "rent", "arm", "boot", "setup", "run", "release",
                        "exited"}]
  /\ pod \in [Runs -> Pods \cup {NoPod}]
  /\ found \in [Runs -> Entries] /\ kept \in [Runs -> Entries]
  /\ justArmed \in [Runs -> BOOLEAN] /\ runEnds \in [Runs -> Nat]
  /\ holding \in [Runs -> BOOLEAN] /\ missed \in [Runs -> BOOLEAN] /\ shared \subseteq Pods
  /\ \A r \in Runs : kept[r].owned => renter[kept[r].on] = r \/ warmPod[kept[r].on] = "gone"

WarmInit ==
  /\ now = 0 /\ shared = {}
  /\ warmPod = [p \in Pods |-> "none"] /\ named = [p \in Pods |-> FALSE]
  /\ ends = [p \in Pods |-> Never] /\ renter = [p \in Pods |-> NoPod]
  /\ keepWarm \in [Runs -> Warmths] /\ calls = [r \in Runs |-> MaxCalls]
  /\ call = [r \in Runs |-> "idle"] /\ pod = [r \in Runs |-> NoPod]
  /\ found = [r \in Runs |-> NoWarm] /\ kept = [r \in Runs |-> NoWarm]
  /\ justArmed = [r \in Runs |-> FALSE] /\ runEnds = [r \in Runs |-> 0]
  /\ holding = [r \in Runs |-> FALSE] /\ missed = [r \in Runs |-> FALSE]

-----------------------------------------------------------------------------
There(p) == warmPod[p] \in {"booting", "up"}
Keep(r) == keepWarm[r] > 0 \/ holding[r]
Ttl(r) == Limit + TtlMargin + (IF Keep(r) THEN keepWarm[r] ELSE 0)
IsFound(r) == found[r].on # NoPod

Goes(r, from, to) == call[r] = from /\ call' = [call EXCEPT ![r] = to]
SameRuns == UNCHANGED <<keepWarm, calls, pod, found, justArmed, runEnds, kept, holding, missed, shared>>

(* _schedule_removal: the pod's end is `at`; a failure is only warned of.  *)
SetsEnd(p, at) == There(p) /\ ends' = [ends EXCEPT ![p] = at]
Reschedules(p, at) == SetsEnd(p, at) \/ UNCHANGED ends
Schedules(r, at) ==
  \/ SetsEnd(pod[r], at) /\ missed' = [missed EXCEPT ![r] = FALSE]
  \/ missed' = [missed EXCEPT ![r] = TRUE] /\ UNCHANGED ends

(* Lium.down of the run's pod p: done, or refused.                         *)
Gone(p) ==
  /\ There(p) /\ warmPod' = [warmPod EXCEPT ![p] = "gone"]
  /\ named' = [named EXCEPT ![p] = FALSE] /\ ends' = [ends EXCEPT ![p] = Never]
  /\ renter' = [renter EXCEPT ![p] = NoPod]
Down(p) == Gone(p) \/ UNCHANGED serverPods

(* The call is over: its own variables with it.                            *)
Over(r) ==
  /\ pod' = [pod EXCEPT ![r] = NoPod] /\ found' = [found EXCEPT ![r] = NoWarm]
  /\ justArmed' = [justArmed EXCEPT ![r] = FALSE] /\ runEnds' = [runEnds EXCEPT ![r] = 0]

(* _find_warm: the pod this run keeps, if a connection to it is open or    *)
(* the listing has it up, else one of the right name, else none.  What it  *)
(* finds by name is not owned.                                             *)
Uses(r, warm) ==
  /\ Goes(r, "idle", "arm")
  /\ found' = [found EXCEPT ![r] = warm] /\ pod' = [pod EXCEPT ![r] = warm.on]
  /\ shared' = IF \E q \in Runs \ {r} : InUse(q) /\ pod[q] = warm.on
               THEN shared \cup {warm.on} ELSE shared
  /\ UNCHANGED kept
KeptIsUp(r) == kept[r].on \in {p \in Pods : warmPod[p] = "up"}
UseKept(r) ==
  /\ kept[r].on # NoPod /\ Uses(r, kept[r])
UseNamed(r) ==
  /\ ~KeptIsUp(r)
  /\ \E p \in Pods :
       /\ warmPod[p] = "up" /\ named[p]
       /\ Goes(r, "idle", "arm") /\ pod' = [pod EXCEPT ![r] = p]
       /\ found' = [found EXCEPT ![r] =
                      [on |-> p, stay |-> 0, owned |-> FALSE, previous |-> ends[p]]]
       /\ shared' = IF \E q \in Runs \ {r} : InUse(q) /\ pod[q] = p
                    THEN shared \cup {p} ELSE shared
  /\ kept' = [kept EXCEPT ![r] = NoWarm]
UseNone(r) ==
  /\ ~KeptIsUp(r)
  /\ \A p \in Pods : ~(warmPod[p] = "up" /\ named[p])
  /\ Goes(r, "idle", "rent") /\ kept' = [kept EXCEPT ![r] = NoWarm]
  /\ found' = [found EXCEPT ![r] = NoWarm] /\ UNCHANGED <<pod, shared>>
FindWarm(r) ==
  /\ calls[r] > 0 /\ calls' = [calls EXCEPT ![r] = @ - 1]
  /\ UseKept(r) \/ UseNamed(r) \/ UseNone(r)
  /\ UNCHANGED <<now, serverPods, keepWarm, missed, justArmed, runEnds, holding>>

(* _rent_node, under the name later runs look for when it is to be kept.   *)
RentNode(r) ==
  /\ \/ \E p \in Pods :
          /\ warmPod[p] = "none" /\ warmPod' = [warmPod EXCEPT ![p] = "booting"]
          /\ named' = [named EXCEPT ![p] = Keep(r)] /\ renter' = [renter EXCEPT ![p] = r]
          /\ Goes(r, "rent", "arm") /\ pod' = [pod EXCEPT ![r] = p]
     \/ Goes(r, "rent", "idle") /\ UNCHANGED <<warmPod, named, renter, pod>>
  /\ UNCHANGED <<now, ends, keepWarm, calls, found, justArmed, runEnds, kept, holding, missed, shared>>

(* armed_at = _schedule_removal(ttl), before the boot or the reuse.        *)
Arm(r) ==
  /\ Goes(r, "arm", IF IsFound(r) THEN "setup" ELSE "boot") /\ Schedules(r, now + Ttl(r))
  /\ justArmed' = [justArmed EXCEPT ![r] = ~missed'[r]]
  /\ UNCHANGED <<now, warmPod, named, renter, keepWarm, calls, pod, found, runEnds, kept, holding, shared>>

(* wait_ready: the pod is up, or the call goes to its `finally`.           *)
Boot(r) ==
  \/ /\ Goes(r, "boot", "setup") /\ warmPod[pod[r]] = "booting"
     /\ warmPod' = [warmPod EXCEPT ![pod[r]] = "up"]
     /\ UNCHANGED <<now, named, ends, renter>> /\ SameRuns
  \/ /\ call[r] = "boot" /\ call' = [call EXCEPT ![r] = "idle"]
     /\ Down(pod[r]) /\ Over(r) /\ missed' = [missed EXCEPT ![r] = FALSE]
     /\ UNCHANGED <<now, keepWarm, calls, kept, holding, shared>>

(* Upload and environment: either may fail.  Then the removal is set       *)
(* again, unless it was just set, and the function starts.  Faulty: the    *)
(* window of the rent is taken to be whole.                                *)
SetUpFails(r) ==
  /\ Goes(r, "setup", "release") /\ UNCHANGED <<now, serverPods>> /\ SameRuns
RearmFaulty(r) == UNCHANGED <<ends, missed>>
Rearm(r) ==
  IF justArmed[r] THEN UNCHANGED <<ends, missed>> ELSE Schedules(r, now + Ttl(r))
SetUp(r) ==
  /\ Goes(r, "setup", "run") /\ warmPod[pod[r]] = "up" /\ Rearm(r)
  /\ runEnds' = [runEnds EXCEPT ![r] = now + Limit]
  /\ UNCHANGED <<now, warmPod, named, renter, keepWarm, calls, pod, found, justArmed, kept, holding, shared>>

(* The function returns, fails, or is killed at its timeout.               *)
Finish(r) ==
  /\ Goes(r, "run", "release") /\ UNCHANGED <<now, serverPods>> /\ SameRuns

-----------------------------------------------------------------------------
(* The `finally` of a call whose pod came up.                              *)
Stay(r) == IF keepWarm[r] >= found[r].stay THEN keepWarm[r] ELSE found[r].stay
OwnsFaulty(r) == TRUE
Owns(r) == IsFound(r) => found[r].owned
Window(r) ==
  IF Stay(r) > 0 /\ (Owns(r) \/ keepWarm[r] > 0) THEN now + Stay(r) + WarmMargin
  ELSE IF ~Owns(r) /\ found[r].previous # Never /\ found[r].previous > now
       THEN found[r].previous ELSE Never
ReleasePod(r) ==
  /\ Goes(r, "release", "idle") /\ Over(r) /\ missed' = [missed EXCEPT ![r] = FALSE]
  /\ \/ /\ Keep(r) \/ IsFound(r)
        /\ kept' = [kept EXCEPT ![r] =
                      [on |-> pod[r], stay |-> Stay(r), owned |-> Owns(r),
                       previous |-> found[r].previous]]
        /\ IF Window(r) # Never THEN Reschedules(pod[r], Window(r)) ELSE UNCHANGED ends
        /\ UNCHANGED <<warmPod, named, renter>>
     \/ ~Keep(r) /\ ~IsFound(r) /\ Down(pod[r]) /\ UNCHANGED kept
  /\ UNCHANGED <<now, keepWarm, calls, holding, shared>>

(* close(): whatever pod is kept is removed, found ones too.               *)
CloseKept(r) ==
  /\ kept[r].on # NoPod /\ Down(kept[r].on) /\ kept' = [kept EXCEPT ![r] = NoWarm]
CloseWarm(r) ==
  /\ call[r] = "idle" /\ CloseKept(r)
  /\ UNCHANGED <<now, keepWarm, call, calls, pod, found, justArmed, runEnds, holding, missed, shared>>

(* map(): holds the pod between its calls, and closes it at the end unless *)
(* it stays warm or was found.                                             *)
MapStart(r) ==
  /\ call[r] = "idle" /\ ~holding[r] /\ calls[r] > 0 /\ holding' = [holding EXCEPT ![r] = TRUE]
  /\ UNCHANGED <<now, serverPods, keepWarm, call, calls, pod, found, justArmed, runEnds, kept, missed, shared>>
LeavesIt(r) == kept[r].on = NoPod \/ ~kept[r].owned
MapEnd(r) ==
  /\ call[r] = "idle" /\ holding[r] /\ holding' = [holding EXCEPT ![r] = FALSE]
  /\ \/ keepWarm[r] > 0 /\ UNCHANGED <<serverPods, kept>>
     \/ keepWarm[r] = 0 /\ LeavesIt(r) /\ kept' = [kept EXCEPT ![r] = NoWarm] /\ UNCHANGED serverPods
     \/ keepWarm[r] = 0 /\ ~LeavesIt(r) /\ CloseKept(r)
  /\ UNCHANGED <<now, keepWarm, call, calls, pod, found, justArmed, runEnds, missed, shared>>

(* _close_all, at exit: only a pod rented here and not kept warm is        *)
(* removed.  Killed: nothing is.                                           *)
Leaves(r) ==
  /\ call[r] # "exited" /\ call' = [call EXCEPT ![r] = "exited"]
  /\ kept' = [kept EXCEPT ![r] = NoWarm] /\ Over(r) /\ missed' = [missed EXCEPT ![r] = FALSE]
  /\ calls' = [calls EXCEPT ![r] = 0] /\ holding' = [holding EXCEPT ![r] = FALSE]
  /\ keepWarm' = [keepWarm EXCEPT ![r] = 0] /\ UNCHANGED <<now, shared>>
Exit(r) ==
  /\ call[r] = "idle" /\ Leaves(r)
  /\ IF LeavesIt(r) \/ kept[r].stay > 0 THEN UNCHANGED serverPods ELSE Down(kept[r].on)
Kill(r) == Leaves(r) /\ UNCHANGED serverPods

-----------------------------------------------------------------------------
(* The server removes a pod at its end; `timeout` bounds a function's run. *)
Removes(p) ==
  /\ ends[p] # Never /\ now >= ends[p] /\ Gone(p) /\ UNCHANGED <<now, call>> /\ SameRuns
Tick ==
  /\ now < MaxNow /\ \A r \in Runs : call[r] = "run" => now < runEnds[r]
  /\ now' = now + 1 /\ justArmed' = [r \in Runs |-> FALSE]
  /\ UNCHANGED <<serverPods, keepWarm, call, calls, pod, found, runEnds, kept, holding, missed, shared>>

RunStep(r) ==
  \/ FindWarm(r) \/ RentNode(r) \/ Arm(r) \/ Boot(r) \/ SetUp(r) \/ SetUpFails(r) \/ Finish(r)
  \/ ReleasePod(r) \/ CloseWarm(r) \/ MapStart(r) \/ MapEnd(r) \/ Exit(r) \/ Kill(r)
WarmNext == (\E r \in Runs : RunStep(r)) \/ (\E p \in Pods : Removes(p)) \/ Tick
WarmSpec == WarmInit /\ [][WarmNext]_warmVars

-----------------------------------------------------------------------------
(* Except for an explicit close(), a run removes only what it rented: not  *)
(* at the end of a call, of a map or of the process (_Warm's docstring).   *)
RemovesOnlyItsOwn ==
  [][\A p \in Pods :
       There(p) /\ ~There(p)' =>
         \A r \in Runs : ReleasePod(r) \/ MapEnd(r) \/ Exit(r) => renter[p] = r]_warmVars

(* While a function runs, its pod's removal is no earlier than its timeout *)
(* is, if it could be set and no other call used the pod meanwhile.        *)
RunIsCovered ==
  \A r \in Runs :
    call[r] = "run" /\ There(pod[r]) /\ ~missed[r] /\ pod[r] \notin shared
      => ends[pod[r]] # Never /\ ends[pod[r]] >= runEnds[r]

(* What may take the pod from under a running function: another run's      *)
(* close(); the end of its renter's map() or process, which knows nothing  *)
(* of a visitor; and the server, but before the timeout only if this       *)
(* call's removal could not be set or another call moved it.  No other     *)
(* call's failed boot or end may.                                          *)
MayTake(r, p) ==
  \/ \E q \in Runs \ {r} : CloseWarm(q) \/ (renter[p] = q /\ (MapEnd(q) \/ Exit(q)))
  \/ Removes(p) /\ (missed[r] \/ p \in shared \/ now >= runEnds[r])
TakenOnlyByThese ==
  [][\A r \in Runs, p \in Pods :
       call[r] = "run" /\ pod[r] = p /\ There(p) /\ ~There(p)' => MayTake(r, p)]_warmVars

(* A run removes only pods that it rented, a function's pod is set to      *)
(* outlast it, and what takes the pod from under it all the same is one of *)
(* the few things named above.                                             *)
RunKeepsItsPod == []RunIsCovered /\ RemovesOnlyItsOwn /\ TakenOnlyByThese

(* VIOLATED.  decorators.py:648: "so it is armed again here and the run    *)
(* gets its full window".  A visitor's call does not: the end of the       *)
(* renter's map removes the pod that the visitor's function runs on        *)
(* (decorators.py:764).                                                    *)
RunGetsItsWindow ==
  [][\A r, q \in Runs, p \in Pods :
       /\ call[r] = "run" /\ pod[r] = p /\ There(p) /\ ~missed[r]
       /\ q # r /\ (ReleasePod(q) \/ MapEnd(q) \/ Exit(q))
       => There(p)' /\ ends'[p] >= runEnds[r]]_warmVars
=============================================================================
