------------------------------ MODULE PodProofs ------------------------------
(***************************************************************************)
(* What several scripts say of the pods they keep and use: a pod that      *)
(* stays warm between the runs of a @machine script (WarmPods) and the     *)
(* background jobs of one name on a pod (PodJobs).                         *)
(***************************************************************************)
EXTENDS MCWarmPods, TLAPS

(* Calls of @machine functions (WarmPods).                                 *)

(* The steps at which a call has a pod.                                    *)
Using == {"arm", "boot", "setup", "run", "release"}

(* Who uses a pod, and what a run keeps, has been made.                    *)
PodsAreMade ==
  /\ \A p \in Pods : warmPod[p] = "none" => ends[p] = Never
  /\ \A r \in Runs :
       /\ call[r] \in Using => pod[r] \in Pods /\ warmPod[pod[r]] # "none"
       /\ call[r] \notin Using => pod[r] = NoPod
       /\ kept[r].on \in Pods => warmPod[kept[r].on] # "none"
       /\ call[r] = "exited" => kept[r].on = NoPod

(* Of two calls on a pod it is known.                                      *)
TwoAreShared ==
  \A q, r \in Runs : pod[q] = pod[r] /\ pod[r] \in Pods => q = r \/ pod[r] \in shared

(* A call that rented its pod, or found it as its run's own, owns it, and  *)
(* so does a run what it keeps as its own.                                 *)
Mine(r, p) == p \in Pods => renter[p] = r \/ warmPod[p] = "gone"
OwnsAreRented ==
  \A r \in Runs :
    /\ Owns(r) => Mine(r, pod[r])
    /\ kept[r].owned => kept[r].on \in Pods /\ Mine(r, kept[r].on)
    /\ call[r] \in {"idle", "rent", "exited"} => ~IsFound(r)

(* The removal that was just set is a whole window away.                   *)
ArmedIsWhole ==
  \A r \in Runs :
    call[r] \in {"boot", "setup"} /\ justArmed[r] /\ There(pod[r]) /\ pod[r] \notin shared
      => ends[pod[r]] # Never /\ ends[pod[r]] >= now + Limit

(* A pod that boots, and one that goes with its call, is its call's alone: *)
(* no other run uses or keeps it, and none finds it by name.               *)
Alone(q) ==
  /\ \A r \in Runs \ {q} : pod[r] # pod[q] /\ kept[r].on # pod[q]
  /\ call[q] \in {"arm", "boot"} => warmPod[pod[q]] # "up"
  /\ named[pod[q]] => Keep(q)
GoesWithCall(q) ==
  call[q] \in Using /\ ~IsFound(q) /\ (Keep(q) => call[q] \in {"arm", "boot"})
NewIsAlone ==
  \A q \in Runs : (GoesWithCall(q) => Alone(q)) /\ (call[q] = "boot" => ~IsFound(q))

(* The types, as the steps need them apart.                                *)
PodTypes ==
  /\ warmPod \in [Pods -> {"none", "booting", "up", "gone"}]
  /\ named \in [Pods -> BOOLEAN] /\ ends \in [Pods -> Nat \cup {Never}]
  /\ renter \in [Pods -> Runs \cup {NoPod}]
ServerTypes == now \in 0..MaxNow /\ PodTypes /\ shared \subseteq Pods
CallTypes ==
  /\ keepWarm \in [Runs -> Warmths] /\ calls \in [Runs -> 0..MaxCalls]
  /\ call \in [Runs -> {"idle", "rent", "arm", "boot", "setup", "run", "release",
                        "exited"}]
  /\ pod \in [Runs -> Pods \cup {NoPod}]
  /\ justArmed \in [Runs -> BOOLEAN] /\ runEnds \in [Runs -> Nat]
  /\ holding \in [Runs -> BOOLEAN] /\ missed \in [Runs -> BOOLEAN]
EntryTypes == found \in [Runs -> Entries] /\ kept \in [Runs -> Entries]
WarmTypes == ServerTypes /\ CallTypes /\ EntryTypes
WarmInv ==
  /\ WarmTypes /\ PodsAreMade /\ TwoAreShared /\ OwnsAreRented /\ NewIsAlone
  /\ ArmedIsWhole /\ RunIsCovered

(* A removal keeps the types of the pods.                                  *)
LEMMA GoneTypes ==
  ASSUME PodTypes, NEW p, Gone(p)
  PROVE  PodTypes'
<1>1. warmPod' \in [Pods -> {"none", "booting", "up", "gone"}]
  BY DEF PodTypes, Gone
<1>2. named' \in [Pods -> BOOLEAN] BY DEF PodTypes, Gone
<1>3. ends' \in [Pods -> Nat \cup {Never}] BY DEF PodTypes, Gone
<1>4. renter' \in [Pods -> Runs \cup {NoPod}] BY DEF PodTypes, Gone
<1> QED BY <1>1, <1>2, <1>3, <1>4 DEF PodTypes

LEMMA DownTypes ==
  ASSUME PodTypes, NEW p, Down(p)
  PROVE  PodTypes'
<1>1. CASE UNCHANGED serverPods BY <1>1 DEF PodTypes, serverPods
<1> QED BY <1>1, GoneTypes DEF Down

(* The fields of an entry of _WARM, and the one for a pod found by name.   *)
LEMMA EntryFields ==
  ASSUME NEW e \in Entries
  PROVE  e.on \in Pods \cup {NoPod} /\ e.stay \in Warmths /\ e.owned \in BOOLEAN
        /\ e.previous \in Nat \cup {Never}
BY DEF Entries

LEMMA FoundEntry ==
  ASSUME NEW p \in Pods, NEW e \in Nat \cup {Never}
  PROVE  [on |-> p, stay |-> 0, owned |-> FALSE, previous |-> e] \in Entries
BY WarmAssumption DEF Entries

(* A time to live is longer than the function may run, and what is kept    *)
(* after a call has an end.                                                *)
LEMMA TimesAreNat ==
  ASSUME WarmTypes, NEW r \in Runs
  PROVE  Ttl(r) \in Nat /\ Ttl(r) >= Limit /\ Stay(r) \in Warmths /\ Window(r) \in Nat \cup {Never}
<1>w. Warmths \subseteq Nat /\ WarmMargin \in Nat /\ Limit \in Nat /\ TtlMargin \in Nat
  BY WarmAssumption
<1>0. now \in Nat /\ keepWarm[r] \in Warmths
  BY WarmAssumption DEF WarmTypes, ServerTypes, CallTypes
<1>1. now \in Nat /\ keepWarm[r] \in Warmths /\ keepWarm[r] \in Nat /\ found[r] \in Entries
  BY <1>0, <1>w DEF WarmTypes, EntryTypes
<1>2. found[r].stay \in Warmths /\ found[r].previous \in Nat \cup {Never}
  BY <1>1, EntryFields
<1>3. Ttl(r) \in Nat /\ Ttl(r) >= Limit BY <1>1, <1>w DEF Ttl
<1>4. Stay(r) \in Warmths BY <1>1, <1>2 DEF Stay
<1>5. now + Stay(r) + WarmMargin \in Nat
  <2>1. Stay(r) \in Nat BY <1>4, <1>w
  <2> QED BY <1>1, <1>w, <2>1
<1>6. Window(r) \in Nat \cup {Never} BY <1>2, <1>5, Zenon DEF Window
<1> QED BY <1>3, <1>4, <1>6

(* The types, step by step: the server and the clock, the calls, and what  *)
(* the runs keep.                                                          *)
LEMMA StepServerTypes ==
  ASSUME WarmTypes, WarmNext
  PROVE  ServerTypes'
<1>t. PodTypes /\ now \in 0..MaxNow /\ shared \subseteq Pods
  BY DEF WarmTypes, ServerTypes
<1>e. \A r \in Runs : pod[r] \in Pods \cup {NoPod} /\ kept[r] \in Entries
  BY DEF WarmTypes, CallTypes, EntryTypes
<1> USE DEF SameRuns
<1>1. ASSUME NEW r \in Runs, FindWarm(r) PROVE ServerTypes'
  <2>1. PodTypes' /\ now' = now
    BY <1>t, <1>1 DEF FindWarm, PodTypes, serverPods
  <2>2. shared' \subseteq Pods
    <3>1. CASE UseKept(r)
      BY <1>t, <1>e, <3>1, EntryFields DEF UseKept, Uses
    <3>2. CASE UseNamed(r) \/ UseNone(r)
      BY <1>t, <3>2 DEF UseNamed, UseNone
    <3> QED BY <1>1, <3>1, <3>2 DEF FindWarm
  <2> QED BY <1>t, <2>1, <2>2 DEF ServerTypes
<1>2. ASSUME NEW r \in Runs, RentNode(r) PROVE ServerTypes'
  <2>1. warmPod' \in [Pods -> {"none", "booting", "up", "gone"}]
    BY <1>t, <1>2 DEF RentNode, PodTypes
  <2>2. named' \in [Pods -> BOOLEAN]
    <3>1. Keep(r) \in BOOLEAN BY Zenon DEF Keep, WarmTypes, CallTypes
    <3> QED BY <1>t, <1>2, <3>1 DEF RentNode, PodTypes
  <2>3. renter' \in [Pods -> Runs \cup {NoPod}] /\ ends' = ends /\ now' = now /\ shared' = shared
    BY <1>t, <1>2 DEF RentNode, PodTypes
  <2> QED BY <1>t, <2>1, <2>2, <2>3 DEF ServerTypes, PodTypes
<1>3. ASSUME NEW r \in Runs, Arm(r) PROVE ServerTypes'
  <2>1. now + Ttl(r) \in Nat BY <1>t, TimesAreNat, WarmAssumption
  <2>2. ends' \in [Pods -> Nat \cup {Never}]
    BY <1>t, <1>3, <2>1 DEF Arm, Schedules, SetsEnd, PodTypes
  <2> QED BY <1>t, <1>3, <2>2 DEF ServerTypes, PodTypes, Arm
<1>4. ASSUME NEW r \in Runs, Boot(r) PROVE ServerTypes'
  <2>1. CASE Down(pod[r])
    BY <1>t, <1>4, <2>1, DownTypes DEF Boot, ServerTypes, serverPods
  <2>2. CASE ~Down(pod[r])
    BY <1>t, <1>4, <2>2 DEF Boot, ServerTypes, PodTypes
  <2> QED BY <2>1, <2>2
<1>5. ASSUME NEW r \in Runs, SetUp(r) PROVE ServerTypes'
  <2>1. now + Ttl(r) \in Nat BY <1>t, TimesAreNat, WarmAssumption
  <2>2. ends' \in [Pods -> Nat \cup {Never}]
    BY <1>t, <1>5, <2>1 DEF SetUp, Rearm, Schedules, SetsEnd, PodTypes
  <2> QED BY <1>t, <1>5, <2>2 DEF ServerTypes, PodTypes, SetUp
<1>6. ASSUME NEW r \in Runs, SetUpFails(r) \/ Finish(r) \/ MapStart(r) \/ Kill(r)
      PROVE  ServerTypes'
  BY <1>t, <1>6
     DEF SetUpFails, Finish, MapStart, Kill, Leaves, Over, serverPods, ServerTypes, PodTypes
<1>8. ASSUME NEW r \in Runs, ReleasePod(r) PROVE ServerTypes'
  <2>1. now' = now /\ shared' = shared BY <1>8 DEF ReleasePod
  <2>2. PodTypes'
    <3>1. CASE Down(pod[r]) BY <1>t, <3>1, DownTypes
    <3>2. CASE ~Down(pod[r])
      <4>1. Window(r) \in Nat \cup {Never} BY TimesAreNat
      <4>2. /\ UNCHANGED <<warmPod, named, renter>>
            /\ ends' \in {ends, [ends EXCEPT ![pod[r]] = Window(r)]}
        BY <1>8, <3>2, Zenon DEF ReleasePod, Reschedules, SetsEnd
      <4>3. ends' \in [Pods -> Nat \cup {Never}]
        BY <1>t, <4>1, <4>2 DEF PodTypes
      <4> QED BY <1>t, <4>2, <4>3 DEF PodTypes
    <3> QED BY <3>1, <3>2
  <2> QED BY <1>t, <2>1, <2>2 DEF ServerTypes
<1>9. ASSUME NEW r \in Runs, CloseWarm(r) PROVE ServerTypes'
  <2>1. now' = now /\ shared' = shared BY <1>9 DEF CloseWarm, CloseKept
  <2>2. Down(kept[r].on) \/ UNCHANGED serverPods
    BY <1>9, Zenon DEF CloseWarm, CloseKept
  <2>3. PodTypes' BY <1>t, <2>2, DownTypes DEF PodTypes, serverPods
  <2> QED BY <1>t, <2>1, <2>3 DEF ServerTypes
<1>11. ASSUME NEW r \in Runs, MapEnd(r) PROVE ServerTypes'
  <2>1. now' = now /\ shared' = shared BY <1>11 DEF MapEnd, CloseKept
  <2>2. Down(kept[r].on) \/ UNCHANGED serverPods
    BY <1>11, Zenon DEF MapEnd, CloseKept
  <2>3. PodTypes' BY <1>t, <2>2, DownTypes DEF PodTypes, serverPods
  <2> QED BY <1>t, <2>1, <2>3 DEF ServerTypes
<1>12. ASSUME NEW r \in Runs, Exit(r) PROVE ServerTypes'
  <2>1. now' = now /\ shared' = shared BY <1>12 DEF Exit, Leaves
  <2>2. Down(kept[r].on) \/ UNCHANGED serverPods
    BY <1>12, Zenon DEF Exit, Leaves
  <2>3. PodTypes' BY <1>t, <2>2, DownTypes DEF PodTypes, serverPods
  <2> QED BY <1>t, <2>1, <2>3 DEF ServerTypes
<1>14. ASSUME NEW p \in Pods, Removes(p) PROVE ServerTypes'
  BY <1>t, <1>14, GoneTypes DEF Removes, ServerTypes
<1>15. CASE Tick
  BY <1>t, <1>15, WarmAssumption DEF Tick, ServerTypes, PodTypes, serverPods
<1> QED
  BY <1>1, <1>2, <1>3, <1>4, <1>5, <1>6, <1>8, <1>9, <1>11, <1>12, <1>14, <1>15
       DEF WarmNext, RunStep

LEMMA StepCallTypes ==
  ASSUME WarmTypes, WarmNext
  PROVE  CallTypes'
<1>w. NoWarm \in Entries /\ \A e \in Entries : e.on \in Pods \cup {NoPod} /\ e.stay \in Nat
      /\ e.previous \in Nat \cup {Never} /\ e.owned \in BOOLEAN BY WarmAssumption
      DEF NoWarm, Entries
<1> USE WarmAssumption
     DEF WarmTypes, ServerTypes, CallTypes, EntryTypes, Goes, SameRuns, serverPods, There
<1>1. ASSUME NEW r \in Runs, FindWarm(r) PROVE CallTypes'
  <2>1. calls' \in [Runs -> 0..MaxCalls] BY <1>1 DEF FindWarm
  <2>2. UNCHANGED <<keepWarm, missed, justArmed, runEnds, holding>> BY <1>1 DEF FindWarm
  <2>3. /\ call' \in [Runs -> {"idle", "rent", "arm", "boot", "setup", "run", "release", "exited"}]
        /\ pod' \in [Runs -> Pods \cup {NoPod}]
    <3>1. CASE UseKept(r)
      <4>1. kept[r].on \in Pods \cup {NoPod} BY EntryFields
      <4> QED BY <3>1, <4>1 DEF UseKept, Uses
    <3>2. CASE UseNamed(r) BY <3>2 DEF UseNamed
    <3>3. CASE UseNone(r) BY <3>3 DEF UseNone
    <3> QED BY <1>1, <3>1, <3>2, <3>3 DEF FindWarm
  <2> QED BY <2>1, <2>2, <2>3
<1>2. ASSUME NEW r \in Runs, RentNode(r) PROVE CallTypes'
  BY <1>2 DEF RentNode
<1>3. ASSUME NEW r \in Runs, Arm(r) PROVE CallTypes'
  BY <1>3 DEF Arm, Schedules, SetsEnd
<1>4. ASSUME NEW r \in Runs, Boot(r) PROVE CallTypes'
  <2>1. /\ UNCHANGED <<keepWarm, calls, holding>>
        /\ pod' \in {pod, [pod EXCEPT ![r] = NoPod]}
        /\ justArmed' \in {justArmed, [justArmed EXCEPT ![r] = FALSE]}
        /\ runEnds' \in {runEnds, [runEnds EXCEPT ![r] = 0]}
        /\ missed' \in {missed, [missed EXCEPT ![r] = FALSE]}
        /\ call' \in {[call EXCEPT ![r] = "setup"], [call EXCEPT ![r] = "idle"]}
    BY <1>4, Zenon DEF Boot, Over
  <2>2. pod' \in [Runs -> Pods \cup {NoPod}] BY <2>1
  <2>4. runEnds' \in [Runs -> Nat] BY <2>1
  <2>5. justArmed' \in [Runs -> BOOLEAN] /\ missed' \in [Runs -> BOOLEAN]
    <3>1. \A f \in [Runs -> BOOLEAN] : [f EXCEPT ![r] = FALSE] \in [Runs -> BOOLEAN]
      OBVIOUS
    <3> QED BY <2>1, <3>1
  <2>3. call' \in [Runs -> {"idle", "rent", "arm", "boot", "setup", "run", "release", "exited"}]
    BY <2>1
  <2> QED BY <2>1, <2>2, <2>3, <2>4, <2>5
<1>5. ASSUME NEW r \in Runs, SetUp(r) PROVE CallTypes'
  <2>1. missed' \in [Runs -> BOOLEAN] BY <1>5 DEF SetUp, Rearm, Schedules
  <2>2. now + Limit \in Nat OBVIOUS
  <2>3. runEnds' \in [Runs -> Nat] BY <1>5, <2>2 DEF SetUp
  <2> QED BY <1>5, <2>1, <2>3 DEF SetUp
<1>6. ASSUME NEW r \in Runs, SetUpFails(r) PROVE CallTypes'
  BY <1>6 DEF SetUpFails
<1>7. ASSUME NEW r \in Runs, Finish(r) PROVE CallTypes'
  BY <1>7 DEF Finish
<1>8. ASSUME NEW r \in Runs, ReleasePod(r) PROVE CallTypes'
  BY <1>8 DEF ReleasePod, Over, Reschedules, SetsEnd, Down, Gone
<1>9. ASSUME NEW r \in Runs, CloseWarm(r) PROVE CallTypes'
  BY <1>9 DEF CloseWarm, CloseKept, Down, Gone
<1>10. ASSUME NEW r \in Runs, MapStart(r) PROVE CallTypes'
  BY <1>10 DEF MapStart
<1>11. ASSUME NEW r \in Runs, MapEnd(r) PROVE CallTypes'
  BY <1>11 DEF MapEnd, CloseKept, Down, Gone, LeavesIt
<1>12. ASSUME NEW r \in Runs, Exit(r) PROVE CallTypes'
  BY <1>12 DEF Exit, Leaves, Over, LeavesIt, Down, Gone
<1>13. ASSUME NEW r \in Runs, Kill(r) PROVE CallTypes'
  BY <1>13 DEF Kill, Leaves, Over
<1>14. ASSUME NEW p \in Pods, Removes(p) PROVE CallTypes'
  BY <1>14 DEF Removes, Gone
<1>15. CASE Tick
  BY <1>15 DEF Tick
<1> QED
  BY <1>1, <1>2, <1>3, <1>4, <1>5, <1>6, <1>7, <1>8, <1>9, <1>10, <1>11, <1>12, <1>13, <1>14,
       <1>15 DEF WarmNext, RunStep

LEMMA StepEntryTypes ==
  ASSUME WarmTypes, WarmNext
  PROVE  EntryTypes'
<1>w. NoWarm \in Entries /\ \A e \in Entries : e.on \in Pods \cup {NoPod} /\ e.stay \in Nat
      /\ e.previous \in Nat \cup {Never} /\ e.owned \in BOOLEAN BY WarmAssumption
      DEF NoWarm, Entries
<1> USE WarmAssumption
     DEF WarmTypes, ServerTypes, CallTypes, EntryTypes, Goes, SameRuns, serverPods, There
<1>1. ASSUME NEW r \in Runs, FindWarm(r) PROVE EntryTypes'
  <2>1. CASE UseKept(r) BY <1>1, <2>1, <1>w DEF FindWarm, UseKept, Uses
  <2>2. CASE UseNamed(r)
    <3>1. PICK p \in Pods : found' = [found EXCEPT ![r] = [on |-> p, stay |-> 0, owned |-> FALSE,
         previous |-> ends[p]]] BY <2>2 DEF UseNamed
    <3>2. [on |-> p, stay |-> 0, owned |-> FALSE, previous |-> ends[p]] \in Entries
      <4>1. ends[p] \in Nat \cup {Never} BY DEF PodTypes
      <4> QED BY <4>1, FoundEntry
    <3> QED BY <1>w, <2>2, <3>1, <3>2 DEF UseNamed
  <2>3. CASE UseNone(r) BY <1>1, <2>3, <1>w DEF UseNone
  <2> QED BY <1>1, <2>1, <2>2, <2>3 DEF FindWarm
<1>2. ASSUME NEW r \in Runs, RentNode(r) PROVE EntryTypes'
  BY <1>2, <1>w DEF RentNode
<1>3. ASSUME NEW r \in Runs, Arm(r) PROVE EntryTypes'
  BY <1>3, <1>w DEF Arm, Schedules, SetsEnd
<1>4. ASSUME NEW r \in Runs, Boot(r) PROVE EntryTypes'
  BY <1>4, <1>w DEF Boot, Down, Gone, Over
<1>5. ASSUME NEW r \in Runs, SetUp(r) PROVE EntryTypes'
  BY <1>5, <1>w DEF SetUp, Rearm, Schedules, SetsEnd
<1>6. ASSUME NEW r \in Runs, SetUpFails(r) PROVE EntryTypes'
  BY <1>6, <1>w DEF SetUpFails
<1>7. ASSUME NEW r \in Runs, Finish(r) PROVE EntryTypes'
  BY <1>7, <1>w DEF Finish
<1>8. ASSUME NEW r \in Runs, ReleasePod(r) PROVE EntryTypes'
  <2>1. [on |-> pod[r], stay |-> Stay(r), owned |-> Owns(r),
         previous |-> found[r].previous] \in Entries
    <3>1. found[r] \in Entries /\ pod[r] \in Pods \cup {NoPod} OBVIOUS
    <3>2. Owns(r) \in BOOLEAN BY <3>1, <1>w, Zenon DEF Owns
    <3>3. Stay(r) \in Warmths BY <3>1 DEF Stay, Entries
    <3>4. found[r].previous \in Nat \cup {Never} BY <3>1, <1>w
    <3> QED BY <3>1, <3>2, <3>3, <3>4 DEF Entries
  <2> QED BY <1>8, <2>1, <1>w DEF ReleasePod, Over
<1>9. ASSUME NEW r \in Runs, CloseWarm(r) PROVE EntryTypes'
  BY <1>9, <1>w DEF CloseWarm, CloseKept, Down, Gone
<1>10. ASSUME NEW r \in Runs, MapStart(r) PROVE EntryTypes'
  BY <1>10, <1>w DEF MapStart
<1>11. ASSUME NEW r \in Runs, MapEnd(r) PROVE EntryTypes'
  BY <1>11, <1>w DEF MapEnd, CloseKept, Down, Gone, LeavesIt
<1>12. ASSUME NEW r \in Runs, Exit(r) PROVE EntryTypes'
  BY <1>12, <1>w DEF Exit, Leaves, Over, LeavesIt, Down, Gone
<1>13. ASSUME NEW r \in Runs, Kill(r) PROVE EntryTypes'
  BY <1>13, <1>w DEF Kill, Leaves, Over
<1>14. ASSUME NEW p \in Pods, Removes(p) PROVE EntryTypes'
  BY <1>14 DEF Removes, Gone
<1>15. CASE Tick
  BY <1>15 DEF Tick
<1> QED
  BY <1>1, <1>2, <1>3, <1>4, <1>5, <1>6, <1>7, <1>8, <1>9, <1>10, <1>11, <1>12, <1>13, <1>14,
       <1>15 DEF WarmNext, RunStep
(* Lium.down removes one pod that is there, or none.                       *)
LEMMA DownFields ==
  ASSUME WarmTypes, NEW p, Down(p)
  PROVE  /\ \A q \in Pods : \/ /\ warmPod'[q] = warmPod[q] /\ renter'[q] = renter[q]
                               /\ ends'[q] = ends[q]
                            \/ q = p /\ There(q) /\ warmPod'[q] = "gone" /\ ends'[q] = Never
BY DEF WarmTypes, ServerTypes, PodTypes, Down, Gone, There, serverPods

(* Each part of WarmInv in turn.                                           *)
LEMMA StepPodsAreMade ==
  ASSUME WarmTypes, PodsAreMade, WarmNext
  PROVE  PodsAreMade'
<1> USE WarmAssumption DEF WarmTypes, ServerTypes, PodTypes, CallTypes, EntryTypes, Entries,
     PodsAreMade, Using, NoWarm, Goes, SameRuns, serverPods, There
<1>1. ASSUME NEW r \in Runs, FindWarm(r) PROVE PodsAreMade'
  BY <1>1 DEF FindWarm, UseKept, UseNamed, UseNone, Uses, KeptIsUp
<1>2. ASSUME NEW r \in Runs, RentNode(r) PROVE PodsAreMade'
  <2>1. CASE Goes(r, "rent", "idle") /\ UNCHANGED <<warmPod, named, renter, pod>>
    BY <1>2, <2>1 DEF RentNode
  <2>2. ASSUME NEW p \in Pods, warmPod' = [warmPod EXCEPT ![p] = "booting"],
               Goes(r, "rent", "arm"), pod' = [pod EXCEPT ![r] = p]
        PROVE  PodsAreMade'
    <3>1. UNCHANGED <<ends, kept>> BY <1>2 DEF RentNode
    <3> QED BY <2>2, <3>1
  <2> QED BY <1>2, <2>1, <2>2, Zenon DEF RentNode
<1>3. ASSUME NEW r \in Runs, Arm(r) PROVE PodsAreMade'
  BY <1>3 DEF Arm, Schedules, SetsEnd
<1>4. ASSUME NEW r \in Runs, Boot(r) PROVE PodsAreMade'
  <2>1. CASE Goes(r, "boot", "setup") /\ warmPod' = [warmPod EXCEPT ![pod[r]] = "up"]
        /\ UNCHANGED <<ends, pod, kept>>
    BY <2>1
  <2>2. CASE call[r] = "boot" /\ call' = [call EXCEPT ![r] = "idle"] /\ Down(pod[r]) /\ Over(r)
        /\ UNCHANGED kept
    BY <2>2, DownFields DEF Over
  <2> QED BY <1>4, <2>1, <2>2, Zenon DEF Boot
<1>5. ASSUME NEW r \in Runs, SetUp(r) PROVE PodsAreMade'
  BY <1>5 DEF SetUp, Rearm, Schedules, SetsEnd
<1>6. ASSUME NEW r \in Runs, SetUpFails(r) PROVE PodsAreMade'
  BY <1>6 DEF SetUpFails
<1>7. ASSUME NEW r \in Runs, Finish(r) PROVE PodsAreMade'
  BY <1>7 DEF Finish
<1>8. ASSUME NEW r \in Runs, ReleasePod(r) PROVE PodsAreMade'
  BY <1>8 DEF ReleasePod, Over, Reschedules, SetsEnd, Down, Gone
<1>9. ASSUME NEW r \in Runs, CloseWarm(r) PROVE PodsAreMade'
  BY <1>9 DEF CloseWarm, CloseKept, Down, Gone
<1>10. ASSUME NEW r \in Runs, MapStart(r) PROVE PodsAreMade'
  BY <1>10 DEF MapStart
<1>11. ASSUME NEW r \in Runs, MapEnd(r) PROVE PodsAreMade'
  <2>1. Down(kept[r].on) \/ UNCHANGED serverPods
    BY <1>11, Zenon DEF MapEnd, CloseKept
  <2>2. kept' = kept \/ kept' = [kept EXCEPT ![r] = NoWarm]
    BY <1>11, Zenon DEF MapEnd, CloseKept
  <2> QED BY <1>11, <2>1, <2>2, DownFields DEF MapEnd
<1>12. ASSUME NEW r \in Runs, Exit(r) PROVE PodsAreMade'
  <2>1. Down(kept[r].on) \/ UNCHANGED serverPods
    BY <1>12, Zenon DEF Exit
  <2> QED BY <1>12, <2>1, DownFields DEF Exit, Leaves, Over
<1>13. ASSUME NEW r \in Runs, Kill(r) PROVE PodsAreMade'
  BY <1>13 DEF Kill, Leaves, Over
<1>14. ASSUME NEW p \in Pods, Removes(p) PROVE PodsAreMade'
  BY <1>14 DEF Removes, Gone
<1>15. CASE Tick
  BY <1>15 DEF Tick
<1> QED
  BY <1>1, <1>2, <1>3, <1>4, <1>5, <1>6, <1>7, <1>8, <1>9, <1>10, <1>11, <1>12, <1>13, <1>14,
       <1>15 DEF WarmNext, RunStep

LEMMA StepTwoAreShared ==
  ASSUME WarmTypes, PodsAreMade, TwoAreShared, WarmNext
  PROVE  TwoAreShared'
<1> USE WarmAssumption DEF WarmTypes, ServerTypes, PodTypes, CallTypes, EntryTypes, PodsAreMade,
     Using, Entries, TwoAreShared, NoWarm, InUse, Goes, SameRuns, serverPods, There
<1>1. ASSUME NEW r \in Runs, FindWarm(r) PROVE TwoAreShared'
  <2>1. pod[r] = NoPod /\ call[r] = "idle"
    BY <1>1 DEF FindWarm, UseKept, Uses, UseNamed, UseNone
  <2>2. ASSUME NEW p \in Pods, pod' = [pod EXCEPT ![r] = p],
               shared' = IF \E q \in Runs \ {r} : InUse(q) /\ pod[q] = p
                         THEN shared \cup {p} ELSE shared
        PROVE  TwoAreShared'
    BY <2>1, <2>2
  <2>3. CASE UseKept(r)
    <3>1. kept[r].on \in Pods BY <2>3, EntryFields DEF UseKept
    <3> QED BY <2>2, <2>3, <3>1 DEF UseKept, Uses
  <2>4. CASE UseNamed(r)
    BY <2>2, <2>4 DEF UseNamed
  <2>5. CASE UseNone(r)
    BY <2>5 DEF UseNone
  <2> QED BY <1>1, <2>3, <2>4, <2>5 DEF FindWarm
<1>2. ASSUME NEW r \in Runs, RentNode(r) PROVE TwoAreShared'
  BY <1>2 DEF RentNode
<1>3. ASSUME NEW r \in Runs, Arm(r) PROVE TwoAreShared'
  BY <1>3 DEF Arm, Schedules, SetsEnd
<1>4. ASSUME NEW r \in Runs, Boot(r) PROVE TwoAreShared'
  BY <1>4 DEF Boot, Down, Gone, Over
<1>5. ASSUME NEW r \in Runs, SetUp(r) PROVE TwoAreShared'
  BY <1>5 DEF SetUp, Rearm, Schedules, SetsEnd
<1>6. ASSUME NEW r \in Runs, SetUpFails(r) PROVE TwoAreShared'
  BY <1>6 DEF SetUpFails
<1>7. ASSUME NEW r \in Runs, Finish(r) PROVE TwoAreShared'
  BY <1>7 DEF Finish
<1>8. ASSUME NEW r \in Runs, ReleasePod(r) PROVE TwoAreShared'
  BY <1>8 DEF ReleasePod, Over, Reschedules, SetsEnd, Down, Gone
<1>9. ASSUME NEW r \in Runs, CloseWarm(r) PROVE TwoAreShared'
  BY <1>9 DEF CloseWarm, CloseKept, Down, Gone
<1>10. ASSUME NEW r \in Runs, MapStart(r) PROVE TwoAreShared'
  BY <1>10 DEF MapStart
<1>11. ASSUME NEW r \in Runs, MapEnd(r) PROVE TwoAreShared'
  BY <1>11 DEF MapEnd, CloseKept, Down, Gone, LeavesIt
<1>12. ASSUME NEW r \in Runs, Exit(r) PROVE TwoAreShared'
  BY <1>12 DEF Exit, Leaves, Over, LeavesIt, Down, Gone
<1>13. ASSUME NEW r \in Runs, Kill(r) PROVE TwoAreShared'
  BY <1>13 DEF Kill, Leaves, Over
<1>14. ASSUME NEW p \in Pods, Removes(p) PROVE TwoAreShared'
  BY <1>14 DEF Removes, Gone
<1>15. CASE Tick
  BY <1>15 DEF Tick
<1> QED
  BY <1>1, <1>2, <1>3, <1>4, <1>5, <1>6, <1>7, <1>8, <1>9, <1>10, <1>11, <1>12, <1>13, <1>14,
       <1>15 DEF WarmNext, RunStep

(* What .map() closes was rented here; what it leaves is nobody's new.      *)
LEMMA MapEndOwns ==
  ASSUME WarmTypes, OwnsAreRented, NEW r \in Runs, MapEnd(r)
  PROVE  OwnsAreRented'
<1>1. /\ Down(kept[r].on) \/ UNCHANGED serverPods
      /\ kept' = kept \/ kept' = [kept EXCEPT ![r] = NoWarm]
  BY Zenon DEF MapEnd, CloseKept
<1>2. call' = call /\ pod' = pod /\ found' = found
  BY DEF MapEnd
<1>3. ASSUME NEW q \in Runs, NEW p, Mine(q, p) PROVE Mine(q, p)'
  BY <1>1, <1>3, DownFields DEF Mine, serverPods
<1>4. \A q \in Runs : kept'[q] = kept[q] \/ kept'[q] = NoWarm
  BY <1>1 DEF WarmTypes, EntryTypes
<1>5. ASSUME NEW q \in Runs
      PROVE  /\ Owns(q)' => Mine(q, pod[q])'
             /\ kept'[q].owned => kept'[q].on \in Pods /\ Mine(q, kept[q].on)'
             /\ call[q] \in {"idle", "rent", "exited"} => ~IsFound(q)'
  <2>1. /\ Owns(q) => Mine(q, pod[q])
        /\ kept[q].owned => kept[q].on \in Pods /\ Mine(q, kept[q].on)
        /\ call[q] \in {"idle", "rent", "exited"} => ~IsFound(q)
    BY <1>5 DEF OwnsAreRented
  <2>2. (Owns(q)' <=> Owns(q)) /\ (IsFound(q)' <=> IsFound(q))
    BY <1>2 DEF Owns, IsFound
  <2>3. Owns(q)' => Mine(q, pod[q])'
    BY <1>2, <1>3, <2>1, <2>2, Zenon
  <2>4. kept'[q].owned => kept'[q].on \in Pods /\ Mine(q, kept[q].on)'
    <3>1. CASE kept'[q] = NoWarm BY <3>1 DEF NoWarm
    <3>2. CASE kept'[q] = kept[q] BY <1>3, <2>1, <3>2
    <3> QED BY <1>4, <3>1, <3>2
  <2> QED BY <2>1, <2>2, <2>3, <2>4
<1> QED BY <1>2, <1>5 DEF OwnsAreRented

LEMMA StepOwnsAreRented ==
  ASSUME WarmTypes, PodsAreMade, OwnsAreRented, WarmNext
  PROVE  OwnsAreRented'
<1> USE WarmAssumption DEF WarmTypes, ServerTypes, PodTypes, CallTypes, EntryTypes, PodsAreMade,
     Using, Entries, OwnsAreRented, Mine, Owns, IsFound, NoWarm, Goes, SameRuns, serverPods, There
<1>1. ASSUME NEW r \in Runs, FindWarm(r) PROVE OwnsAreRented'
  BY <1>1 DEF FindWarm, UseKept, UseNamed, UseNone, Uses, KeptIsUp
<1>2. ASSUME NEW r \in Runs, RentNode(r) PROVE OwnsAreRented'
  BY <1>2 DEF RentNode
<1>3. ASSUME NEW r \in Runs, Arm(r) PROVE OwnsAreRented'
  BY <1>3 DEF Arm, Schedules, SetsEnd
<1>4. ASSUME NEW r \in Runs, Boot(r) PROVE OwnsAreRented'
  BY <1>4 DEF Boot, Down, Gone, Over
<1>5. ASSUME NEW r \in Runs, SetUp(r) PROVE OwnsAreRented'
  BY <1>5 DEF SetUp, Rearm, Schedules, SetsEnd
<1>6. ASSUME NEW r \in Runs, SetUpFails(r) PROVE OwnsAreRented'
  BY <1>6 DEF SetUpFails
<1>7. ASSUME NEW r \in Runs, Finish(r) PROVE OwnsAreRented'
  BY <1>7 DEF Finish
<1>8. ASSUME NEW r \in Runs, ReleasePod(r) PROVE OwnsAreRented'
  <2> HIDE DEF OwnsAreRented, Mine, Owns, IsFound
  <2>1. /\ call[r] = "release" /\ call' = [call EXCEPT ![r] = "idle"]
        /\ pod' = [pod EXCEPT ![r] = NoPod] /\ found' = [found EXCEPT ![r] = NoWarm]
    BY <1>8 DEF ReleasePod, Over
  <2>2. pod[r] \in Pods BY <2>1
  <2>3. CASE /\ kept' = [kept EXCEPT ![r] = [on |-> pod[r], stay |-> Stay(r), owned |-> Owns(r),
                                            previous |-> found[r].previous]]
             /\ UNCHANGED <<warmPod, renter>>
    <3>1. kept'[r].owned => Owns(r) BY <2>3
    <3>2. kept'[r].on = pod[r] BY <2>3
    <3>3. \A q \in Runs \ {r} : kept'[q] = kept[q] BY <2>3
    <3> QED BY <2>1, <2>2, <2>3, <3>1, <3>2, <3>3 DEF OwnsAreRented, Mine, Owns, IsFound
  <2>4. CASE Down(pod[r]) /\ UNCHANGED kept
    BY <2>1, <2>2, <2>4, DownFields DEF OwnsAreRented, Mine, Owns, IsFound
  <2> QED BY <1>8, <2>3, <2>4, Zenon DEF ReleasePod
<1>9. ASSUME NEW r \in Runs, CloseWarm(r) PROVE OwnsAreRented'
  BY <1>9 DEF CloseWarm, CloseKept, Down, Gone
<1>10. ASSUME NEW r \in Runs, MapStart(r) PROVE OwnsAreRented'
  BY <1>10 DEF MapStart
<1>11. ASSUME NEW r \in Runs, MapEnd(r) PROVE OwnsAreRented'
  BY <1>11, MapEndOwns
<1>12. ASSUME NEW r \in Runs, Exit(r) PROVE OwnsAreRented'
  <2>1. Down(kept[r].on) \/ UNCHANGED serverPods
    BY <1>12, Zenon DEF Exit
  <2> QED BY <1>12, <2>1, DownFields DEF Exit, Leaves, Over
<1>13. ASSUME NEW r \in Runs, Kill(r) PROVE OwnsAreRented'
  BY <1>13 DEF Kill, Leaves, Over
<1>14. ASSUME NEW p \in Pods, Removes(p) PROVE OwnsAreRented'
  BY <1>14 DEF Removes, Gone
<1>15. CASE Tick
  BY <1>15 DEF Tick
<1> QED
  BY <1>1, <1>2, <1>3, <1>4, <1>5, <1>6, <1>7, <1>8, <1>9, <1>10, <1>11, <1>12, <1>13, <1>14,
       <1>15 DEF WarmNext, RunStep

LEMMA StepArmedIsWhole ==
  ASSUME WarmTypes, PodsAreMade, TwoAreShared, ArmedIsWhole, WarmNext
  PROVE  ArmedIsWhole'
<1> USE WarmAssumption DEF WarmTypes, ServerTypes, PodTypes, CallTypes, EntryTypes, PodsAreMade,
     Using, Entries, TwoAreShared, ArmedIsWhole, NoWarm, InUse, Ttl, Keep, Goes, SameRuns,
     serverPods, There
<1>1. ASSUME NEW r \in Runs, FindWarm(r) PROVE ArmedIsWhole'
  BY <1>1 DEF FindWarm, UseKept, UseNamed, UseNone, Uses, KeptIsUp
<1>2. ASSUME NEW r \in Runs, RentNode(r) PROVE ArmedIsWhole'
  BY <1>2 DEF RentNode
<1>3. ASSUME NEW r \in Runs, Arm(r) PROVE ArmedIsWhole'
  <2>1. /\ call' = [call EXCEPT ![r] = IF IsFound(r) THEN "setup" ELSE "boot"]
        /\ UNCHANGED <<now, warmPod, pod, shared>>
        /\ call[r] = "arm" /\ justArmed' = [justArmed EXCEPT ![r] = ~missed'[r]]
    BY <1>3 DEF Arm
  <2>2. \/ There(pod[r]) /\ ends' = [ends EXCEPT ![pod[r]] = now + Ttl(r)]
        \/ missed'[r] /\ ends' = ends
    BY <1>3 DEF Arm, Schedules, SetsEnd
  <2>3. Ttl(r) \in Nat /\ Ttl(r) >= Limit
    <3> HIDE DEF Ttl
    <3> QED BY TimesAreNat
  <2>4. now + Ttl(r) # Never /\ now + Ttl(r) >= now + Limit
    BY <2>3
  <2> HIDE DEF Ttl, IsFound
  <2>5. ASSUME NEW q \in Runs, q # r, call[q] \in {"boot", "setup"}, There(pod[q]),
               pod[q] \notin shared
        PROVE  ends'[pod[q]] = ends[pod[q]]
    <3>1. pod[q] \in Pods /\ pod[r] \in Pods /\ pod[q] # pod[r]
      BY <2>1, <2>5
    <3> QED BY <2>2, <3>1
  <2>6. ASSUME NEW q \in Runs, q # r, call'[q] \in {"boot", "setup"}, justArmed'[q], There(pod[q])',
               pod'[q] \notin shared'
        PROVE  ends'[pod'[q]] # Never /\ ends'[pod'[q]] >= now' + Limit
    BY <2>1, <2>5, <2>6
  <2>7. ASSUME justArmed'[r] PROVE ends'[pod'[r]] # Never /\ ends'[pod'[r]] >= now' + Limit
    <3>1. ~missed'[r] /\ pod[r] \in Pods BY <2>1, <2>7
    <3> QED BY <2>1, <2>2, <2>4, <3>1
  <2> QED BY <2>6, <2>7
<1>4. ASSUME NEW r \in Runs, Boot(r) PROVE ArmedIsWhole'
  <2> USE DEF SameRuns
  <2>1. CASE Goes(r, "boot", "setup") /\ warmPod' = [warmPod EXCEPT ![pod[r]] = "up"]
        /\ UNCHANGED <<ends, pod, now, justArmed, shared>>
    <3>1. \A q \in Runs : /\ There(pod[q])' => There(pod[q])
                          /\ call'[q] \in {"boot", "setup"} => call[q] \in {"boot", "setup"}
      <4>1. pod[r] \in Pods /\ There(pod[r]) BY <1>4, <2>1 DEF Boot
      <4> QED BY <2>1, <4>1
    <3> QED BY <2>1, <3>1
  <2>2. CASE call[r] = "boot" /\ call' = [call EXCEPT ![r] = "idle"] /\ Down(pod[r]) /\ Over(r)
        /\ UNCHANGED <<now, shared>>
    BY <2>2, DownFields DEF Over
  <2> QED BY <1>4, <2>1, <2>2, Zenon DEF Boot
<1>5. ASSUME NEW r \in Runs, SetUp(r) PROVE ArmedIsWhole'
  BY <1>5 DEF SetUp, Rearm, Schedules, SetsEnd
<1>6. ASSUME NEW r \in Runs, SetUpFails(r) PROVE ArmedIsWhole'
  BY <1>6 DEF SetUpFails
<1>7. ASSUME NEW r \in Runs, Finish(r) PROVE ArmedIsWhole'
  BY <1>7 DEF Finish
<1>8. ASSUME NEW r \in Runs, ReleasePod(r) PROVE ArmedIsWhole'
  BY <1>8 DEF ReleasePod, Over, Reschedules, SetsEnd, Down, Gone
<1>9. ASSUME NEW r \in Runs, CloseWarm(r) PROVE ArmedIsWhole'
  BY <1>9 DEF CloseWarm, CloseKept, Down, Gone
<1>10. ASSUME NEW r \in Runs, MapStart(r) PROVE ArmedIsWhole'
  BY <1>10 DEF MapStart
<1>11. ASSUME NEW r \in Runs, MapEnd(r) PROVE ArmedIsWhole'
  BY <1>11 DEF MapEnd, CloseKept, Down, Gone, LeavesIt
<1>12. ASSUME NEW r \in Runs, Exit(r) PROVE ArmedIsWhole'
  BY <1>12 DEF Exit, Leaves, Over, LeavesIt, Down, Gone
<1>13. ASSUME NEW r \in Runs, Kill(r) PROVE ArmedIsWhole'
  BY <1>13 DEF Kill, Leaves, Over
<1>14. ASSUME NEW p \in Pods, Removes(p) PROVE ArmedIsWhole'
  BY <1>14 DEF Removes, Gone
<1>15. CASE Tick
  BY <1>15 DEF Tick
<1> QED
  BY <1>1, <1>2, <1>3, <1>4, <1>5, <1>6, <1>7, <1>8, <1>9, <1>10, <1>11, <1>12, <1>13, <1>14,
       <1>15 DEF WarmNext, RunStep

LEMMA StepNewIsAlone ==
  ASSUME WarmTypes, PodsAreMade, NewIsAlone, WarmNext
  PROVE  NewIsAlone'
<1> USE WarmAssumption DEF WarmTypes, ServerTypes, PodTypes, CallTypes, EntryTypes, PodsAreMade,
     Using, Entries, NewIsAlone, Alone, GoesWithCall, IsFound, Keep, NoWarm, Goes, SameRuns,
     serverPods, There
<1>1. ASSUME NEW r \in Runs, FindWarm(r) PROVE NewIsAlone'
  <2>1. call[r] = "idle" /\ UNCHANGED <<warmPod, named, keepWarm, holding>>
    BY <1>1 DEF FindWarm, UseKept, Uses, UseNamed, UseNone
  <2>2. CASE UseKept(r)
    <3>1. kept[r].on \in Pods BY <2>2, EntryFields DEF UseKept
    <3> QED BY <2>1, <2>2, <3>1 DEF UseKept, Uses
  <2>3. CASE UseNamed(r)
    <3>1. PICK p \in Pods :
            /\ warmPod[p] = "up" /\ named[p] /\ call' = [call EXCEPT ![r] = "arm"]
            /\ pod' = [pod EXCEPT ![r] = p]
            /\ found' = [found EXCEPT ![r] =
                           [on |-> p, stay |-> 0, owned |-> FALSE, previous |-> ends[p]]]
      BY <2>3 DEF UseNamed
    <3>2. kept' = [kept EXCEPT ![r] = NoWarm]
      BY <2>3 DEF UseNamed
    <3>3. \A q \in Runs \ {r} : GoesWithCall(q) => pod[q] # p
      BY <3>1
    <3> QED BY <2>1, <3>1, <3>2, <3>3
  <2>4. CASE UseNone(r)
    BY <2>1, <2>4 DEF UseNone
  <2> QED BY <1>1, <2>2, <2>3, <2>4 DEF FindWarm
<1>2. ASSUME NEW r \in Runs, RentNode(r) PROVE NewIsAlone'
  BY <1>2 DEF RentNode
<1>3. ASSUME NEW r \in Runs, Arm(r) PROVE NewIsAlone'
  BY <1>3 DEF Arm, Schedules, SetsEnd
<1>4. ASSUME NEW r \in Runs, Boot(r) PROVE NewIsAlone'
  BY <1>4 DEF Boot, Down, Gone, Over
<1>5. ASSUME NEW r \in Runs, SetUp(r) PROVE NewIsAlone'
  BY <1>5 DEF SetUp, Rearm, Schedules, SetsEnd
<1>6. ASSUME NEW r \in Runs, SetUpFails(r) PROVE NewIsAlone'
  BY <1>6 DEF SetUpFails
<1>7. ASSUME NEW r \in Runs, Finish(r) PROVE NewIsAlone'
  BY <1>7 DEF Finish
<1>8. ASSUME NEW r \in Runs, ReleasePod(r) PROVE NewIsAlone'
  BY <1>8 DEF ReleasePod, Over, Reschedules, SetsEnd, Down, Gone
<1>9. ASSUME NEW r \in Runs, CloseWarm(r) PROVE NewIsAlone'
  BY <1>9 DEF CloseWarm, CloseKept, Down, Gone
<1>10. ASSUME NEW r \in Runs, MapStart(r) PROVE NewIsAlone'
  BY <1>10 DEF MapStart
<1>11. ASSUME NEW r \in Runs, MapEnd(r) PROVE NewIsAlone'
  <2>1. Down(kept[r].on) \/ UNCHANGED serverPods
    BY <1>11, Zenon DEF MapEnd, CloseKept
  <2>2. kept' = kept \/ kept' = [kept EXCEPT ![r] = NoWarm]
    BY <1>11, Zenon DEF MapEnd, CloseKept
  <2>3. \A p \in Pods : (warmPod'[p] = "up" => warmPod[p] = "up") /\ (named'[p] => named[p])
    BY <2>1 DEF Down, Gone
  <2>4. /\ call[r] = "idle" /\ holding' = [holding EXCEPT ![r] = FALSE]
        /\ UNCHANGED <<keepWarm, call, pod, found>>
    BY <1>11 DEF MapEnd
  <2> QED BY <2>2, <2>3, <2>4
<1>12. ASSUME NEW r \in Runs, Exit(r) PROVE NewIsAlone'
  BY <1>12 DEF Exit, Leaves, Over, LeavesIt, Down, Gone
<1>13. ASSUME NEW r \in Runs, Kill(r) PROVE NewIsAlone'
  BY <1>13 DEF Kill, Leaves, Over
<1>14. ASSUME NEW p \in Pods, Removes(p) PROVE NewIsAlone'
  BY <1>14 DEF Removes, Gone
<1>15. CASE Tick
  BY <1>15 DEF Tick
<1> QED
  BY <1>1, <1>2, <1>3, <1>4, <1>5, <1>6, <1>7, <1>8, <1>9, <1>10, <1>11, <1>12, <1>13, <1>14,
       <1>15 DEF WarmNext, RunStep

LEMMA StepRunIsCovered ==
  ASSUME WarmTypes, PodsAreMade, TwoAreShared, ArmedIsWhole, RunIsCovered, WarmNext
  PROVE  RunIsCovered'
<1> USE WarmAssumption DEF WarmTypes, ServerTypes, PodTypes, CallTypes, EntryTypes, PodsAreMade,
     Using, Entries, TwoAreShared, ArmedIsWhole, RunIsCovered, NoWarm, InUse, Ttl, Keep, Goes,
     SameRuns, serverPods, There
<1>1. ASSUME NEW r \in Runs, FindWarm(r) PROVE RunIsCovered'
  BY <1>1 DEF FindWarm, UseKept, UseNamed, UseNone, Uses, KeptIsUp
<1>2. ASSUME NEW r \in Runs, RentNode(r) PROVE RunIsCovered'
  BY <1>2 DEF RentNode
<1>3. ASSUME NEW r \in Runs, Arm(r) PROVE RunIsCovered'
  BY <1>3 DEF Arm, Schedules, SetsEnd
<1>4. ASSUME NEW r \in Runs, Boot(r) PROVE RunIsCovered'
  BY <1>4 DEF Boot, Down, Gone, Over
<1>5. ASSUME NEW r \in Runs, SetUp(r) PROVE RunIsCovered'
  <2>1. /\ call' = [call EXCEPT ![r] = "run"] /\ call[r] = "setup"
        /\ runEnds' = [runEnds EXCEPT ![r] = now + Limit]
        /\ UNCHANGED <<warmPod, pod, shared>>
    BY <1>5 DEF SetUp
  <2>2. \/ justArmed[r] /\ UNCHANGED <<ends, missed>>
        \/ There(pod[r]) /\ ends' = [ends EXCEPT ![pod[r]] = now + Ttl(r)]
           /\ missed' = [missed EXCEPT ![r] = FALSE]
        \/ missed' = [missed EXCEPT ![r] = TRUE] /\ ends' = ends
    BY <1>5 DEF SetUp, Rearm, Schedules, SetsEnd
  <2>3. Ttl(r) \in Nat /\ Ttl(r) >= Limit
    <3> HIDE DEF Ttl
    <3> QED BY TimesAreNat
  <2>4. now + Ttl(r) # Never /\ now + Ttl(r) >= now + Limit /\ now + Limit \in Nat
    BY <2>3
  <2> HIDE DEF Ttl
  <2> QED BY <2>1, <2>2, <2>4
<1>6. ASSUME NEW r \in Runs, SetUpFails(r) PROVE RunIsCovered'
  BY <1>6 DEF SetUpFails
<1>7. ASSUME NEW r \in Runs, Finish(r) PROVE RunIsCovered'
  BY <1>7 DEF Finish
<1>8. ASSUME NEW r \in Runs, ReleasePod(r) PROVE RunIsCovered'
  BY <1>8 DEF ReleasePod, Over, Reschedules, SetsEnd, Down, Gone
<1>9. ASSUME NEW r \in Runs, CloseWarm(r) PROVE RunIsCovered'
  BY <1>9 DEF CloseWarm, CloseKept, Down, Gone
<1>10. ASSUME NEW r \in Runs, MapStart(r) PROVE RunIsCovered'
  BY <1>10 DEF MapStart
<1>11. ASSUME NEW r \in Runs, MapEnd(r) PROVE RunIsCovered'
  BY <1>11 DEF MapEnd, CloseKept, Down, Gone, LeavesIt
<1>12. ASSUME NEW r \in Runs, Exit(r) PROVE RunIsCovered'
  BY <1>12 DEF Exit, Leaves, Over, LeavesIt, Down, Gone
<1>13. ASSUME NEW r \in Runs, Kill(r) PROVE RunIsCovered'
  BY <1>13 DEF Kill, Leaves, Over
<1>14. ASSUME NEW p \in Pods, Removes(p) PROVE RunIsCovered'
  BY <1>14 DEF Removes, Gone
<1>15. CASE Tick
  BY <1>15 DEF Tick
<1> QED
  BY <1>1, <1>2, <1>3, <1>4, <1>5, <1>6, <1>7, <1>8, <1>9, <1>10, <1>11, <1>12, <1>13, <1>14,
       <1>15 DEF WarmNext, RunStep

(* The invariant holds at the start and is kept by every step.             *)
LEMMA WarmInitInv == WarmInit => WarmInv
<1> SUFFICES ASSUME WarmInit PROVE WarmInv
  OBVIOUS
<1> USE WarmAssumption DEF WarmInit
<1>1. NoWarm \in Entries BY DEF NoWarm, Entries
<1>2. PodTypes BY DEF PodTypes
<1>3. now \in 0..MaxNow /\ shared \subseteq Pods OBVIOUS
<1>4. CallTypes BY DEF CallTypes
<1>5. EntryTypes BY <1>1 DEF EntryTypes
<1>6. PodsAreMade /\ TwoAreShared BY DEF PodsAreMade, TwoAreShared, Using, NoWarm
<1>7. OwnsAreRented BY DEF OwnsAreRented, Owns, IsFound, Mine, NoWarm
<1>8. ArmedIsWhole /\ RunIsCovered /\ NewIsAlone
  BY DEF ArmedIsWhole, RunIsCovered, NewIsAlone, GoesWithCall, Using
<1> QED BY <1>2, <1>3, <1>4, <1>5, <1>6, <1>7, <1>8 DEF WarmInv, WarmTypes, ServerTypes

LEMMA WarmStepInv == WarmInv /\ [WarmNext]_warmVars => WarmInv'
<1>1. ASSUME WarmInv, WarmNext PROVE WarmInv'
  <2>1. /\ WarmTypes /\ PodsAreMade /\ TwoAreShared /\ OwnsAreRented /\ NewIsAlone
        /\ ArmedIsWhole /\ RunIsCovered
    BY <1>1 DEF WarmInv
  <2>2. WarmTypes'
    BY <1>1, <2>1, StepServerTypes, StepCallTypes, StepEntryTypes DEF WarmTypes
  <2>3. PodsAreMade' /\ TwoAreShared' /\ OwnsAreRented' /\ NewIsAlone'
    BY <1>1, <2>1, StepPodsAreMade, StepTwoAreShared, StepOwnsAreRented, StepNewIsAlone
  <2>4. ArmedIsWhole' BY <1>1, <2>1, StepArmedIsWhole
  <2>5. RunIsCovered' BY <1>1, <2>1, StepRunIsCovered
  <2> QED BY <2>2, <2>3, <2>4, <2>5 DEF WarmInv
<1>2. ASSUME WarmInv, UNCHANGED warmVars PROVE WarmInv'
  BY <1>2
     DEF warmVars, WarmInv, WarmTypes, ServerTypes, PodTypes, CallTypes, EntryTypes, PodsAreMade,
         TwoAreShared, OwnsAreRented, Mine, Owns, IsFound, NewIsAlone, Alone, GoesWithCall, Keep,
         ArmedIsWhole, RunIsCovered, There
<1> QED BY <1>1, <1>2

(* What ends a call, a map or a process takes only what its run rented.    *)
LEMMA TakesItsOwn ==
  ASSUME WarmInv, NEW p \in Pods, There(p), ~There(p)', NEW r \in Runs,
         ReleasePod(r) \/ MapEnd(r) \/ Exit(r)
  PROVE  renter[p] = r
<1>1. WarmTypes /\ PodsAreMade /\ OwnsAreRented
  BY DEF WarmInv
<1>2. ASSUME NEW q, Down(q) PROVE q = p
  BY <1>1, <1>2, DownFields DEF There
<1>3. warmPod[p] # "gone" /\ warmPod' # warmPod
  BY DEF There
<1>4. CASE ReleasePod(r)
  <2>1. ~IsFound(r) /\ Down(pod[r])
    BY <1>3, <1>4, Zenon DEF ReleasePod
  <2>2. pod[r] = p BY <1>2, <2>1
  <2> QED BY <1>1, <1>3, <2>1, <2>2 DEF OwnsAreRented, Owns, Mine
<1>5. CASE MapEnd(r)
  <2>1. kept[r].owned /\ Down(kept[r].on)
    BY <1>3, <1>5, Zenon DEF MapEnd, CloseKept, LeavesIt, serverPods
  <2>2. kept[r].on = p BY <1>2, <2>1
  <2> QED BY <1>1, <1>3, <2>1, <2>2 DEF OwnsAreRented, Mine
<1>6. CASE Exit(r)
  <2>1. kept[r].owned /\ Down(kept[r].on)
    BY <1>3, <1>6, Zenon DEF Exit, LeavesIt, serverPods
  <2>2. kept[r].on = p BY <1>2, <2>1
  <2> QED BY <1>1, <1>3, <2>1, <2>2 DEF OwnsAreRented, Mine
<1> QED BY <1>4, <1>5, <1>6

(* What else takes a pod from under a function is one of the few things    *)
(* that may: a call that ends or fails to boot takes only what is its own. *)
LEMMA TakenByThese ==
  ASSUME WarmInv, NEW r \in Runs, NEW p \in Pods, WarmNext,
         call[r] = "run", pod[r] = p, There(p), ~There(p)'
  PROVE  MayTake(r, p)
<1>1. WarmTypes /\ PodsAreMade /\ NewIsAlone /\ RunIsCovered
  BY DEF WarmInv
<1>2. ASSUME NEW q, Down(q) PROVE q = p
  BY <1>1, <1>2, DownFields DEF There
<1>3. warmPod[p] \in {"booting", "up"} /\ ~(warmPod'[p] \in {"booting", "up"})
  BY DEF There
<1>4. PodTypes /\ pod \in [Runs -> Pods \cup {NoPod}]
  BY <1>1 DEF WarmTypes, ServerTypes, CallTypes
<1>5. warmPod' # warmPod
  BY <1>3
<1>6. ASSUME NEW q \in Runs, call[q] \in {"boot", "release"}, ~IsFound(q),
             Keep(q) => call[q] = "boot", Down(pod[q])
      PROVE  FALSE
  <2>1. Alone(q)
    BY <1>1, <1>6 DEF NewIsAlone, GoesWithCall, Using
  <2> QED BY <1>2, <1>6, <2>1 DEF Alone
<1>7. ASSUME NEW q \in Runs, RunStep(q) PROVE MayTake(r, p)
  <2>1. CASE Boot(q)
    <3>1. CASE Down(pod[q]) /\ call[q] = "boot"
      BY <1>1, <1>6, <3>1 DEF NewIsAlone
    <3>2. CASE warmPod' = [warmPod EXCEPT ![pod[q]] = "up"]
      BY <1>3, <1>4, <3>2 DEF PodTypes
    <3> QED BY <2>1, <3>1, <3>2, Zenon DEF Boot
  <2>2. CASE ReleasePod(q)
    <3>1. call[q] = "release" /\ ~Keep(q) /\ ~IsFound(q) /\ Down(pod[q])
      BY <1>5, <2>2, Zenon DEF ReleasePod, Goes
    <3> QED BY <1>6, <3>1
  <2>3. CASE CloseWarm(q)
    <3>1. q # r BY <2>3 DEF CloseWarm
    <3> QED BY <2>3, <3>1 DEF MayTake
  <2>4. CASE MapEnd(q) \/ Exit(q)
    <3>1. q # r BY <2>4 DEF MapEnd, Exit
    <3>2. renter[p] = q BY <2>4, TakesItsOwn
    <3> QED BY <2>4, <3>1, <3>2 DEF MayTake
  <2>5. CASE RentNode(q)
    <3>1. PICK n \in Pods : warmPod' = [warmPod EXCEPT ![n] = "booting"]
      BY <1>5, <2>5 DEF RentNode
    <3> QED BY <1>3, <1>4, <3>1 DEF PodTypes
  <2>6. CASE \/ FindWarm(q) \/ Arm(q) \/ SetUp(q) \/ SetUpFails(q)
             \/ Finish(q) \/ MapStart(q) \/ Kill(q)
    BY <1>5, <2>6
       DEF FindWarm, Arm, SetUp, SetUpFails, Finish, MapStart, Kill, serverPods
  <2> QED BY <1>7, <2>1, <2>2, <2>3, <2>4, <2>5, <2>6 DEF RunStep
<1>8. ASSUME NEW q \in Pods, Removes(q) PROVE MayTake(r, p)
  <2>1. Down(q) BY <1>8 DEF Removes, Down
  <2>2. q = p BY <1>2, <2>1
  <2>3. now >= ends[p] /\ ends[p] # Never BY <1>8, <2>2 DEF Removes
  <2>4. ~missed[r] /\ p \notin shared => ends[p] >= runEnds[r]
    BY <1>1 DEF RunIsCovered
  <2>5. now \in Int /\ ends[p] \in Int /\ runEnds[r] \in Int
    BY <1>1, <1>4, <2>3, WarmAssumption DEF WarmTypes, ServerTypes, CallTypes, PodTypes
  <2> QED BY <1>8, <2>2, <2>3, <2>4, <2>5 DEF MayTake
<1>9. CASE Tick
  BY <1>5, <1>9 DEF Tick, serverPods
<1> QED BY <1>7, <1>8, <1>9 DEF WarmNext

(* While a function runs, the removal of its pod is no earlier than its    *)
(* timeout, unless it could not be set or another call used the pod; at    *)
(* the end of a call, a map or a process a run takes only pods that it     *)
(* rented; and a pod goes from under a running function only by another    *)
(* run's close(), by the end of its renter's map or process, or by a       *)
(* removal that could not be set right, was moved by another call, or is   *)
(* due (decorators.py, _schedule_removal, close and _Warm).                *)
THEOREM RunStaysCovered == WarmSpec => RunKeepsItsPod
<1>1. WarmInv => RunIsCovered
  BY DEF WarmInv
<1>2. ASSUME WarmInv, [WarmNext]_warmVars
      PROVE  [\A p \in Pods :
                There(p) /\ ~There(p)' =>
                  \A r \in Runs : ReleasePod(r) \/ MapEnd(r) \/ Exit(r) => renter[p] = r]_warmVars
  BY <1>2, TakesItsOwn
<1>3. ASSUME WarmInv, [WarmNext]_warmVars
      PROVE  [\A r \in Runs, p \in Pods :
                call[r] = "run" /\ pod[r] = p /\ There(p) /\ ~There(p)' => MayTake(r, p)]_warmVars
  BY <1>3, TakenByThese
<1> QED
  BY <1>1, <1>2, <1>3, WarmInitInv, WarmStepInv, PTL
     DEF WarmSpec, RunKeepsItsPod, RemovesOnlyItsOwn, TakenOnlyByThese

-----------------------------------------------------------------------------
(* Background jobs of one name (PodJobs).                                  *)

(* No number stands for two processes; and the number a run was given,     *)
(* which its launcher, the .pid file and the callers know, is its own for  *)
(* as long as it lives.                                                    *)
NumbersAreOwn ==
  /\ \A p, q \in Pids : table[p] = table[q] /\ table[p] # 0 => p = q
  /\ \A c \in Callers :
       /\ of[c] # 0 => at[c] \in Pids
       /\ Lives(of[c]) => table[at[c]] = of[c]
       /\ caller[c] \in {"pid", "id"} => of[c] # 0 /\ table[at[c]] \in {0, of[c]}
  /\ fileOf # 0 <=> pidFile \in Pids
  /\ Lives(fileOf) => table[pidFile] = fileOf

(* What is signalled has its number from an .id file, which is a run's.    *)
SignalledAreRuns == victims \subseteq runs /\ idFile \in runs \cup {0, Missing}

(* Without an overlap one launcher at a time is past its check ...         *)
OneLauncher ==
  \A c, d \in Callers : caller[c] \in Launching /\ caller[d] \in Launching => c = d

(* ... which found no run, and starts the last one: of that alone is the   *)
(* exit code, and nobody else knows it before its number is written.       *)
LauncherIsAlone ==
  \A c \in Callers :
    /\ caller[c] \in {"clean", "fork"} => \A n \in runs : ~Lives(n)
    /\ caller[c] = "fork" => exitFile = 0
    /\ caller[c] \in {"pid", "id"} => of[c] = newest
    /\ caller[c] = "pid" => fileOf # newest /\ \A d \in Callers \ {c} : of[d] # newest
    /\ caller[c] = "id" => fileOf = newest
OneLives == \A n \in runs : Lives(n) => n = newest

(* Once nobody launches, the files name the run that lives.                *)
FilesNameIt ==
  Lives(newest) /\ (\A c \in Callers : caller[c] \notin Launching) =>
    fileOf = newest /\ idFile = newest

ExitIsOfNewest == exitFile \in {0, newest}

JobsInv ==
  /\ PodJobsTypeOK /\ NumbersAreOwn /\ SignalledAreRuns
  /\ ~overlapped =>
       /\ OneLauncher /\ LauncherIsAlone /\ OneLives /\ FilesNameIt
       /\ ExitIsOfNewest

(* Each part of JobsInv in turn.                                           *)
LEMMA JobsTypes ==
  ASSUME PodJobsTypeOK, NumbersAreOwn, SignalledAreRuns, PodJobsNext
  PROVE  PodJobsTypeOK'
<1> USE PodJobsAssumption DEF PodJobsTypeOK, NumbersAreOwn, SignalledAreRuns, Missing, Launching,
     Told, Lives, Then, SamePod, SameHandle, podFiles
<1>1. ASSUME NEW c \in Callers, Run(c) PROVE PodJobsTypeOK'
  BY <1>1 DEF Run
<1>2. ASSUME NEW c \in Callers, StillRunning(c) PROVE PodJobsTypeOK'
  BY <1>2 DEF StillRunning, Matches
<1>3. ASSUME NEW c \in Callers, CleanFiles(c) PROVE PodJobsTypeOK'
  BY <1>3 DEF CleanFiles
<1>4. ASSUME NEW c \in Callers, Fork(c) PROVE PodJobsTypeOK'
  BY <1>4 DEF Fork, StartsAt, Free
<1>5. ASSUME NEW c \in Callers, WritePid(c) PROVE PodJobsTypeOK'
  BY <1>5 DEF WritePid
<1>6. ASSUME NEW c \in Callers, WriteId(c) PROVE PodJobsTypeOK'
  BY <1>6 DEF WriteId
<1>7. ASSUME NEW c \in Callers, Attach(c) PROVE PodJobsTypeOK'
  BY <1>7 DEF Attach
<1>8. ASSUME NEW c \in Callers, Ask(c) PROVE PodJobsTypeOK'
  BY <1>8 DEF Ask
<1>9. ASSUME NEW c \in Callers, ProbeExit(c) PROVE PodJobsTypeOK'
  BY <1>9 DEF ProbeExit
<1>10. ASSUME NEW c \in Callers, ProbeAlive(c) PROVE PodJobsTypeOK'
  BY <1>10 DEF ProbeAlive, Matches
<1>11. ASSUME NEW c \in Callers, Signal(c) PROVE PodJobsTypeOK'
  <2>1. at[c] \in Pids /\ table[at[c]] \in runs
    BY <1>11 DEF Signal, Matches
  <2>2. victims' \subseteq 1..born
    BY <1>11, <2>1 DEF Signal
  <2>3. table' \in [Pids -> 0..born]
    BY <1>11, <2>1 DEF Signal
  <2> QED BY <1>11, <2>2, <2>3 DEF Signal
<1>12. ASSUME NEW p \in Pids, RunEnds(p) PROVE PodJobsTypeOK'
  BY <1>12 DEF RunEnds
<1>13. ASSUME NEW p \in Pids, OtherEnds(p) PROVE PodJobsTypeOK'
  BY <1>13 DEF OtherEnds
<1>14. CASE OtherStarts
  BY <1>14 DEF OtherStarts, StartsAt, Free
<1>15. CASE PodRestarts
  BY <1>15 DEF PodRestarts
<1> QED
  BY <1>1, <1>2, <1>3, <1>4, <1>5, <1>6, <1>7, <1>8, <1>9, <1>10, <1>11, <1>12, <1>13, <1>14,
       <1>15 DEF PodJobsNext

LEMMA JobsNumbersAreOwn ==
  ASSUME PodJobsTypeOK, NumbersAreOwn, PodJobsNext
  PROVE  NumbersAreOwn'
<1> USE PodJobsAssumption DEF PodJobsTypeOK, NumbersAreOwn, Missing, Launching, Told, Lives, Then,
     SamePod, SameHandle, podFiles
<1>1. ASSUME NEW c \in Callers, Run(c) PROVE NumbersAreOwn'
  BY <1>1 DEF Run
<1>2. ASSUME NEW c \in Callers, StillRunning(c) PROVE NumbersAreOwn'
  BY <1>2 DEF StillRunning, Matches
<1>3. ASSUME NEW c \in Callers, CleanFiles(c) PROVE NumbersAreOwn'
  BY <1>3 DEF CleanFiles
<1>4. ASSUME NEW c \in Callers, Fork(c) PROVE NumbersAreOwn'
  BY <1>4 DEF Fork, StartsAt, Free
<1>5. ASSUME NEW c \in Callers, WritePid(c) PROVE NumbersAreOwn'
  BY <1>5 DEF WritePid
<1>6. ASSUME NEW c \in Callers, WriteId(c) PROVE NumbersAreOwn'
  BY <1>6 DEF WriteId
<1>7. ASSUME NEW c \in Callers, Attach(c) PROVE NumbersAreOwn'
  BY <1>7 DEF Attach
<1>8. ASSUME NEW c \in Callers, Ask(c) PROVE NumbersAreOwn'
  BY <1>8 DEF Ask
<1>9. ASSUME NEW c \in Callers, ProbeExit(c) PROVE NumbersAreOwn'
  BY <1>9 DEF ProbeExit
<1>10. ASSUME NEW c \in Callers, ProbeAlive(c) PROVE NumbersAreOwn'
  BY <1>10 DEF ProbeAlive, Matches
<1>11. ASSUME NEW c \in Callers, Signal(c) PROVE NumbersAreOwn'
  BY <1>11 DEF Signal, Matches
<1>12. ASSUME NEW p \in Pids, RunEnds(p) PROVE NumbersAreOwn'
  BY <1>12 DEF RunEnds
<1>13. ASSUME NEW p \in Pids, OtherEnds(p) PROVE NumbersAreOwn'
  BY <1>13 DEF OtherEnds
<1>14. CASE OtherStarts
  BY <1>14 DEF OtherStarts, StartsAt, Free
<1>15. CASE PodRestarts
  BY <1>15 DEF PodRestarts
<1> QED
  BY <1>1, <1>2, <1>3, <1>4, <1>5, <1>6, <1>7, <1>8, <1>9, <1>10, <1>11, <1>12, <1>13, <1>14,
       <1>15 DEF PodJobsNext

LEMMA JobsSignalledAreRuns ==
  ASSUME PodJobsTypeOK, NumbersAreOwn, SignalledAreRuns, PodJobsNext
  PROVE  SignalledAreRuns'
<1> USE PodJobsAssumption DEF PodJobsTypeOK, NumbersAreOwn, SignalledAreRuns, Missing, Launching,
     Told, Lives, Then, SamePod, SameHandle, podFiles
<1>1. ASSUME NEW c \in Callers, Run(c) PROVE SignalledAreRuns'
  BY <1>1 DEF Run
<1>2. ASSUME NEW c \in Callers, StillRunning(c) PROVE SignalledAreRuns'
  BY <1>2 DEF StillRunning, Matches
<1>3. ASSUME NEW c \in Callers, CleanFiles(c) PROVE SignalledAreRuns'
  BY <1>3 DEF CleanFiles
<1>4. ASSUME NEW c \in Callers, Fork(c) PROVE SignalledAreRuns'
  BY <1>4 DEF Fork, StartsAt, Free
<1>5. ASSUME NEW c \in Callers, WritePid(c) PROVE SignalledAreRuns'
  BY <1>5 DEF WritePid
<1>6. ASSUME NEW c \in Callers, WriteId(c) PROVE SignalledAreRuns'
  BY <1>6 DEF WriteId
<1>7. ASSUME NEW c \in Callers, Attach(c) PROVE SignalledAreRuns'
  BY <1>7 DEF Attach
<1>8. ASSUME NEW c \in Callers, Ask(c) PROVE SignalledAreRuns'
  BY <1>8 DEF Ask
<1>9. ASSUME NEW c \in Callers, ProbeExit(c) PROVE SignalledAreRuns'
  BY <1>9 DEF ProbeExit
<1>10. ASSUME NEW c \in Callers, ProbeAlive(c) PROVE SignalledAreRuns'
  BY <1>10 DEF ProbeAlive, Matches
<1>11. ASSUME NEW c \in Callers, Signal(c) PROVE SignalledAreRuns'
  <2>1. at[c] \in Pids /\ table[at[c]] \in runs
    BY <1>11 DEF Signal, Matches
  <2> QED BY <1>11, <2>1 DEF Signal
<1>12. ASSUME NEW p \in Pids, RunEnds(p) PROVE SignalledAreRuns'
  BY <1>12 DEF RunEnds
<1>13. ASSUME NEW p \in Pids, OtherEnds(p) PROVE SignalledAreRuns'
  BY <1>13 DEF OtherEnds
<1>14. CASE OtherStarts
  BY <1>14 DEF OtherStarts, StartsAt, Free
<1>15. CASE PodRestarts
  BY <1>15 DEF PodRestarts
<1> QED
  BY <1>1, <1>2, <1>3, <1>4, <1>5, <1>6, <1>7, <1>8, <1>9, <1>10, <1>11, <1>12, <1>13, <1>14,
       <1>15 DEF PodJobsNext

LEMMA JobsOneLauncher ==
  ASSUME PodJobsTypeOK, ~overlapped => OneLauncher, ~overlapped', PodJobsNext
  PROVE  OneLauncher'
<1>o. ~overlapped
  BY DEF PodJobsNext, Run, StillRunning, CleanFiles, Fork, WritePid, WriteId, Attach, Ask,
       ProbeExit, ProbeAlive, Signal, RunEnds, OtherEnds, OtherStarts, PodRestarts, PodJobsTypeOK
<1> USE PodJobsAssumption, <1>o DEF PodJobsTypeOK, OneLauncher, Missing, Launching, Told, Lives,
     Then, SamePod, SameHandle, podFiles
<1>1. ASSUME NEW c \in Callers, Run(c) PROVE OneLauncher'
  BY <1>1 DEF Run
<1>2. ASSUME NEW c \in Callers, StillRunning(c) PROVE OneLauncher'
  BY <1>2 DEF StillRunning, Matches
<1>3. ASSUME NEW c \in Callers, CleanFiles(c) PROVE OneLauncher'
  BY <1>3 DEF CleanFiles
<1>4. ASSUME NEW c \in Callers, Fork(c) PROVE OneLauncher'
  BY <1>4 DEF Fork, StartsAt, Free
<1>5. ASSUME NEW c \in Callers, WritePid(c) PROVE OneLauncher'
  BY <1>5 DEF WritePid
<1>6. ASSUME NEW c \in Callers, WriteId(c) PROVE OneLauncher'
  BY <1>6 DEF WriteId
<1>7. ASSUME NEW c \in Callers, Attach(c) PROVE OneLauncher'
  BY <1>7 DEF Attach
<1>8. ASSUME NEW c \in Callers, Ask(c) PROVE OneLauncher'
  BY <1>8 DEF Ask
<1>9. ASSUME NEW c \in Callers, ProbeExit(c) PROVE OneLauncher'
  BY <1>9 DEF ProbeExit
<1>10. ASSUME NEW c \in Callers, ProbeAlive(c) PROVE OneLauncher'
  BY <1>10 DEF ProbeAlive, Matches
<1>11. ASSUME NEW c \in Callers, Signal(c) PROVE OneLauncher'
  BY <1>11 DEF Signal, Matches
<1>12. ASSUME NEW p \in Pids, RunEnds(p) PROVE OneLauncher'
  BY <1>12 DEF RunEnds
<1>13. ASSUME NEW p \in Pids, OtherEnds(p) PROVE OneLauncher'
  BY <1>13 DEF OtherEnds
<1>14. CASE OtherStarts
  BY <1>14 DEF OtherStarts, StartsAt, Free
<1>15. CASE PodRestarts
  BY <1>15 DEF PodRestarts
<1> QED
  BY <1>1, <1>2, <1>3, <1>4, <1>5, <1>6, <1>7, <1>8, <1>9, <1>10, <1>11, <1>12, <1>13, <1>14,
       <1>15 DEF PodJobsNext

LEMMA JobsLauncherIsAlone ==
  ASSUME PodJobsTypeOK, NumbersAreOwn, ~overlapped => OneLauncher /\ LauncherIsAlone /\ OneLives
         /\ FilesNameIt, ~overlapped', PodJobsNext
  PROVE  LauncherIsAlone'
<1>o. ~overlapped
  BY DEF PodJobsNext, Run, StillRunning, CleanFiles, Fork, WritePid, WriteId, Attach, Ask,
       ProbeExit, ProbeAlive, Signal, RunEnds, OtherEnds, OtherStarts, PodRestarts, PodJobsTypeOK
<1> USE PodJobsAssumption, <1>o DEF PodJobsTypeOK, NumbersAreOwn, OneLauncher, LauncherIsAlone,
     OneLives, FilesNameIt, Missing, Launching, Told, Lives, Then, SamePod, SameHandle, podFiles
<1>1. ASSUME NEW c \in Callers, Run(c) PROVE LauncherIsAlone'
  BY <1>1 DEF Run
<1>2. ASSUME NEW c \in Callers, StillRunning(c) PROVE LauncherIsAlone'
  BY <1>2 DEF StillRunning, Matches
<1>3. ASSUME NEW c \in Callers, CleanFiles(c) PROVE LauncherIsAlone'
  BY <1>3 DEF CleanFiles
<1>4. ASSUME NEW c \in Callers, Fork(c) PROVE LauncherIsAlone'
  BY <1>4 DEF Fork, StartsAt, Free
<1>5. ASSUME NEW c \in Callers, WritePid(c) PROVE LauncherIsAlone'
  BY <1>5 DEF WritePid
<1>6. ASSUME NEW c \in Callers, WriteId(c) PROVE LauncherIsAlone'
  BY <1>6 DEF WriteId
<1>7. ASSUME NEW c \in Callers, Attach(c) PROVE LauncherIsAlone'
  BY <1>7 DEF Attach
<1>8. ASSUME NEW c \in Callers, Ask(c) PROVE LauncherIsAlone'
  BY <1>8 DEF Ask
<1>9. ASSUME NEW c \in Callers, ProbeExit(c) PROVE LauncherIsAlone'
  BY <1>9 DEF ProbeExit
<1>10. ASSUME NEW c \in Callers, ProbeAlive(c) PROVE LauncherIsAlone'
  BY <1>10 DEF ProbeAlive, Matches
<1>11. ASSUME NEW c \in Callers, Signal(c) PROVE LauncherIsAlone'
  BY <1>11 DEF Signal, Matches
<1>12. ASSUME NEW p \in Pids, RunEnds(p) PROVE LauncherIsAlone'
  BY <1>12 DEF RunEnds
<1>13. ASSUME NEW p \in Pids, OtherEnds(p) PROVE LauncherIsAlone'
  BY <1>13 DEF OtherEnds
<1>14. CASE OtherStarts
  BY <1>14 DEF OtherStarts, StartsAt, Free
<1>15. CASE PodRestarts
  BY <1>15 DEF PodRestarts
<1> QED
  BY <1>1, <1>2, <1>3, <1>4, <1>5, <1>6, <1>7, <1>8, <1>9, <1>10, <1>11, <1>12, <1>13, <1>14,
       <1>15 DEF PodJobsNext

LEMMA JobsOneLives ==
  ASSUME PodJobsTypeOK, NumbersAreOwn, ~overlapped => OneLauncher /\ LauncherIsAlone
         /\ OneLives, ~overlapped', PodJobsNext
  PROVE  OneLives'
<1>o. ~overlapped
  BY DEF PodJobsNext, Run, StillRunning, CleanFiles, Fork, WritePid, WriteId, Attach, Ask,
       ProbeExit, ProbeAlive, Signal, RunEnds, OtherEnds, OtherStarts, PodRestarts, PodJobsTypeOK
<1> USE PodJobsAssumption, <1>o DEF PodJobsTypeOK, NumbersAreOwn, OneLauncher, LauncherIsAlone,
     OneLives, Missing, Launching, Told, Lives, Then, SamePod, SameHandle, podFiles
<1>1. ASSUME NEW c \in Callers, Run(c) PROVE OneLives'
  BY <1>1 DEF Run
<1>2. ASSUME NEW c \in Callers, StillRunning(c) PROVE OneLives'
  BY <1>2 DEF StillRunning, Matches
<1>3. ASSUME NEW c \in Callers, CleanFiles(c) PROVE OneLives'
  BY <1>3 DEF CleanFiles
<1>4. ASSUME NEW c \in Callers, Fork(c) PROVE OneLives'
  BY <1>4 DEF Fork, StartsAt, Free
<1>5. ASSUME NEW c \in Callers, WritePid(c) PROVE OneLives'
  BY <1>5 DEF WritePid
<1>6. ASSUME NEW c \in Callers, WriteId(c) PROVE OneLives'
  BY <1>6 DEF WriteId
<1>7. ASSUME NEW c \in Callers, Attach(c) PROVE OneLives'
  BY <1>7 DEF Attach
<1>8. ASSUME NEW c \in Callers, Ask(c) PROVE OneLives'
  BY <1>8 DEF Ask
<1>9. ASSUME NEW c \in Callers, ProbeExit(c) PROVE OneLives'
  BY <1>9 DEF ProbeExit
<1>10. ASSUME NEW c \in Callers, ProbeAlive(c) PROVE OneLives'
  BY <1>10 DEF ProbeAlive, Matches
<1>11. ASSUME NEW c \in Callers, Signal(c) PROVE OneLives'
  BY <1>11 DEF Signal, Matches
<1>12. ASSUME NEW p \in Pids, RunEnds(p) PROVE OneLives'
  BY <1>12 DEF RunEnds
<1>13. ASSUME NEW p \in Pids, OtherEnds(p) PROVE OneLives'
  BY <1>13 DEF OtherEnds
<1>14. CASE OtherStarts
  BY <1>14 DEF OtherStarts, StartsAt, Free
<1>15. CASE PodRestarts
  BY <1>15 DEF PodRestarts
<1> QED
  BY <1>1, <1>2, <1>3, <1>4, <1>5, <1>6, <1>7, <1>8, <1>9, <1>10, <1>11, <1>12, <1>13, <1>14,
       <1>15 DEF PodJobsNext

LEMMA JobsFilesNameIt ==
  ASSUME PodJobsTypeOK, NumbersAreOwn, SignalledAreRuns, ~overlapped => OneLauncher
         /\ LauncherIsAlone /\ OneLives /\ FilesNameIt, ~overlapped', PodJobsNext
  PROVE  FilesNameIt'
<1>o. ~overlapped
  BY DEF PodJobsNext, Run, StillRunning, CleanFiles, Fork, WritePid, WriteId, Attach, Ask,
       ProbeExit, ProbeAlive, Signal, RunEnds, OtherEnds, OtherStarts, PodRestarts, PodJobsTypeOK
<1> USE PodJobsAssumption, <1>o DEF PodJobsTypeOK, NumbersAreOwn, SignalledAreRuns, OneLauncher,
     LauncherIsAlone, OneLives, FilesNameIt, Missing, Launching, Told, Lives, Then, SamePod,
     SameHandle, podFiles
<1>1. ASSUME NEW c \in Callers, Run(c) PROVE FilesNameIt'
  BY <1>1 DEF Run
<1>2. ASSUME NEW c \in Callers, StillRunning(c) PROVE FilesNameIt'
  BY <1>2 DEF StillRunning, Matches
<1>3. ASSUME NEW c \in Callers, CleanFiles(c) PROVE FilesNameIt'
  BY <1>3 DEF CleanFiles
<1>4. ASSUME NEW c \in Callers, Fork(c) PROVE FilesNameIt'
  BY <1>4 DEF Fork, StartsAt, Free
<1>5. ASSUME NEW c \in Callers, WritePid(c) PROVE FilesNameIt'
  BY <1>5 DEF WritePid
<1>6. ASSUME NEW c \in Callers, WriteId(c) PROVE FilesNameIt'
  BY <1>6 DEF WriteId
<1>7. ASSUME NEW c \in Callers, Attach(c) PROVE FilesNameIt'
  BY <1>7 DEF Attach
<1>8. ASSUME NEW c \in Callers, Ask(c) PROVE FilesNameIt'
  BY <1>8 DEF Ask
<1>9. ASSUME NEW c \in Callers, ProbeExit(c) PROVE FilesNameIt'
  BY <1>9 DEF ProbeExit
<1>10. ASSUME NEW c \in Callers, ProbeAlive(c) PROVE FilesNameIt'
  BY <1>10 DEF ProbeAlive, Matches
<1>11. ASSUME NEW c \in Callers, Signal(c) PROVE FilesNameIt'
  BY <1>11 DEF Signal, Matches
<1>12. ASSUME NEW p \in Pids, RunEnds(p) PROVE FilesNameIt'
  BY <1>12 DEF RunEnds
<1>13. ASSUME NEW p \in Pids, OtherEnds(p) PROVE FilesNameIt'
  BY <1>13 DEF OtherEnds
<1>14. CASE OtherStarts
  BY <1>14 DEF OtherStarts, StartsAt, Free
<1>15. CASE PodRestarts
  BY <1>15 DEF PodRestarts
<1> QED
  BY <1>1, <1>2, <1>3, <1>4, <1>5, <1>6, <1>7, <1>8, <1>9, <1>10, <1>11, <1>12, <1>13, <1>14,
       <1>15 DEF PodJobsNext

LEMMA JobsExitIsOfNewest ==
  ASSUME PodJobsTypeOK, ~overlapped => OneLauncher /\ LauncherIsAlone /\ OneLives
         /\ ExitIsOfNewest, ~overlapped', PodJobsNext
  PROVE  ExitIsOfNewest'
<1>o. ~overlapped
  BY DEF PodJobsNext, Run, StillRunning, CleanFiles, Fork, WritePid, WriteId, Attach, Ask,
       ProbeExit, ProbeAlive, Signal, RunEnds, OtherEnds, OtherStarts, PodRestarts, PodJobsTypeOK
<1> USE PodJobsAssumption, <1>o DEF PodJobsTypeOK, OneLauncher, LauncherIsAlone, OneLives,
     ExitIsOfNewest, Missing, Launching, Told, Lives, Then, SamePod, SameHandle, podFiles
<1>1. ASSUME NEW c \in Callers, Run(c) PROVE ExitIsOfNewest'
  BY <1>1 DEF Run
<1>2. ASSUME NEW c \in Callers, StillRunning(c) PROVE ExitIsOfNewest'
  BY <1>2 DEF StillRunning, Matches
<1>3. ASSUME NEW c \in Callers, CleanFiles(c) PROVE ExitIsOfNewest'
  BY <1>3 DEF CleanFiles
<1>4. ASSUME NEW c \in Callers, Fork(c) PROVE ExitIsOfNewest'
  BY <1>4 DEF Fork, StartsAt, Free
<1>5. ASSUME NEW c \in Callers, WritePid(c) PROVE ExitIsOfNewest'
  BY <1>5 DEF WritePid
<1>6. ASSUME NEW c \in Callers, WriteId(c) PROVE ExitIsOfNewest'
  BY <1>6 DEF WriteId
<1>7. ASSUME NEW c \in Callers, Attach(c) PROVE ExitIsOfNewest'
  BY <1>7 DEF Attach
<1>8. ASSUME NEW c \in Callers, Ask(c) PROVE ExitIsOfNewest'
  BY <1>8 DEF Ask
<1>9. ASSUME NEW c \in Callers, ProbeExit(c) PROVE ExitIsOfNewest'
  BY <1>9 DEF ProbeExit
<1>10. ASSUME NEW c \in Callers, ProbeAlive(c) PROVE ExitIsOfNewest'
  BY <1>10 DEF ProbeAlive, Matches
<1>11. ASSUME NEW c \in Callers, Signal(c) PROVE ExitIsOfNewest'
  BY <1>11 DEF Signal, Matches
<1>12. ASSUME NEW p \in Pids, RunEnds(p) PROVE ExitIsOfNewest'
  BY <1>12 DEF RunEnds
<1>13. ASSUME NEW p \in Pids, OtherEnds(p) PROVE ExitIsOfNewest'
  BY <1>13 DEF OtherEnds
<1>14. CASE OtherStarts
  BY <1>14 DEF OtherStarts, StartsAt, Free
<1>15. CASE PodRestarts
  BY <1>15 DEF PodRestarts
<1> QED
  BY <1>1, <1>2, <1>3, <1>4, <1>5, <1>6, <1>7, <1>8, <1>9, <1>10, <1>11, <1>12, <1>13, <1>14,
       <1>15 DEF PodJobsNext
(* The invariant holds at the start and is kept by every step.             *)
LEMMA JobsInit == PodJobsInit => JobsInv
<1> SUFFICES ASSUME PodJobsInit PROVE JobsInv
  OBVIOUS
<1> USE PodJobsAssumption DEF PodJobsInit
<1>1. PodJobsTypeOK
  <2>1. [p \in Pids |-> 0] \in [Pids -> 0..born]
    OBVIOUS
  <2>2. born \in 0..MaxBorn /\ restarts \in 0..MaxRestarts
    OBVIOUS
  <2>3. /\ caller \in [Callers -> {"idle", "check", "exit?", "alive?"} \cup Launching \cup Told]
        /\ at \in [Callers -> Pids \cup {NoPid}] /\ of \in [Callers -> runs \cup {0}]
    OBVIOUS
  <2> QED BY <2>1, <2>2, <2>3 DEF PodJobsTypeOK
<1>2. NumbersAreOwn /\ SignalledAreRuns
  BY DEF NumbersAreOwn, SignalledAreRuns, Lives
<1>3. OneLauncher /\ LauncherIsAlone /\ OneLives /\ FilesNameIt /\ ExitIsOfNewest
  BY DEF OneLauncher, LauncherIsAlone, OneLives, FilesNameIt, ExitIsOfNewest, Lives, Launching
<1> QED BY <1>1, <1>2, <1>3 DEF JobsInv

LEMMA JobsStep == JobsInv /\ [PodJobsNext]_podJobVars => JobsInv'
<1>1. ASSUME JobsInv, PodJobsNext PROVE JobsInv'
  <2>1. /\ PodJobsTypeOK /\ NumbersAreOwn /\ SignalledAreRuns
        /\ ~overlapped =>
             OneLauncher /\ LauncherIsAlone /\ OneLives /\ FilesNameIt /\ ExitIsOfNewest
    BY <1>1 DEF JobsInv
  <2>2. PodJobsTypeOK' /\ NumbersAreOwn' /\ SignalledAreRuns'
    BY <1>1, <2>1, JobsTypes, JobsNumbersAreOwn, JobsSignalledAreRuns
  <2>3. ASSUME ~overlapped' PROVE OneLauncher' /\ LauncherIsAlone' /\ OneLives'
    BY <1>1, <2>1, <2>3, JobsOneLauncher, JobsLauncherIsAlone, JobsOneLives
  <2>4. ASSUME ~overlapped' PROVE FilesNameIt' /\ ExitIsOfNewest'
    BY <1>1, <2>1, <2>4, JobsFilesNameIt, JobsExitIsOfNewest
  <2> QED BY <2>2, <2>3, <2>4 DEF JobsInv
<1>2. ASSUME JobsInv, UNCHANGED podJobVars PROVE JobsInv'
  BY <1>2
     DEF JobsInv, podJobVars, podFiles, PodJobsTypeOK, NumbersAreOwn, SignalledAreRuns,
         OneLauncher, LauncherIsAlone, OneLives, FilesNameIt, ExitIsOfNewest, Lives
<1> QED BY <1>1, <1>2

(* What a probe says of the last run is so at the moment it says it.       *)
LEMMA StatusIsSo ==
  ASSUME JobsInv, PodJobsNext, ~overlapped, NEW c \in Callers, of[c] = newest, LaunchIsOver,
         caller'[c] # caller[c]
  PROVE  /\ caller'[c] = "running" => Lives(of[c])
         /\ caller'[c] = "exited" => exitFile = of[c]
         /\ caller'[c] = "gone" => ~Lives(of[c])
<1> USE PodJobsAssumption
    DEF JobsInv, PodJobsTypeOK, SignalledAreRuns, OneLives, ExitIsOfNewest, Missing, Then
<1>1. CASE ProbeExit(c)
  BY <1>1 DEF ProbeExit
<1>2. CASE ProbeAlive(c)
  <2>1. CASE Matches(at[c])
    <3>1. at[c] \in Pids /\ table[at[c]] \in runs
      BY <2>1 DEF Matches
    <3> QED BY <1>2, <2>1, <3>1 DEF ProbeAlive, Lives
  <2>2. CASE ~Matches(at[c])
    <3>1. ASSUME Lives(newest) PROVE FALSE
      <4>1. of[c] # 0 /\ at[c] \in Pids /\ table[at[c]] = newest
        BY <3>1 DEF Lives, NumbersAreOwn
      <4>2. \A d \in Callers : caller[d] \notin Launching
        BY <1>2, <3>1, <4>1 DEF LauncherIsAlone, LaunchIsOver, Launching, ProbeAlive
      <4> QED BY <2>2, <3>1, <4>1, <4>2 DEF FilesNameIt, Matches
    <3> QED BY <1>2, <2>2, <3>1 DEF ProbeAlive
  <2> QED BY <2>1, <2>2
<1>3. CASE PodRestarts
  BY <1>3 DEF PodRestarts, Launching
<1>4. CASE ~ProbeExit(c) /\ ~ProbeAlive(c) /\ ~PodRestarts
  <2>1. caller'[c] \notin {"running", "exited", "gone"}
    BY <1>4 DEF PodJobsNext, Run, StillRunning, CleanFiles, Fork, WritePid, WriteId, Attach, Ask,
         ProbeExit, ProbeAlive, Signal, RunEnds, OtherEnds, OtherStarts
  <2> QED BY <2>1
<1> QED BY <1>1, <1>2, <1>3, <1>4

(* Only runs of the job are ever signalled; and as long as no two          *)
(* launchers were past their check together, one run of the name lives at  *)
(* a time and status() says what is so of the last (README, "Jobs").       *)
THEOREM JobIsNeverMistaken == PodJobsSpec => NeverMistaken
<1>1. ASSUME JobsInv, JobsInv', [PodJobsNext]_podJobVars
      PROVE  [ /\ victims' \subseteq runs'
               /\ ~overlapped' =>
                    /\ \A n \in runs' : Lives(n)' => n = newest'
                    /\ \A c \in Callers : of[c] = newest /\ LaunchIsOver
                       /\ caller'[c] # caller[c] =>
                         /\ caller'[c] = "running" => Lives(of[c])
                         /\ caller'[c] = "exited" => exitFile = of[c]
                         /\ caller'[c] = "gone" => ~Lives(of[c]) ]_podJobVars
  <2>1. victims' \subseteq runs' /\ (~overlapped' => \A n \in runs' : Lives(n)' => n = newest')
    BY <1>1 DEF JobsInv, SignalledAreRuns, OneLives
  <2>2. CASE PodJobsNext
    <3>1. ~overlapped' => ~overlapped
      BY <2>2
         DEF PodJobsNext, Run, StillRunning, CleanFiles, Fork, WritePid, WriteId, Attach, Ask,
             ProbeExit, ProbeAlive, Signal, RunEnds, OtherEnds, OtherStarts, PodRestarts
    <3> QED BY <1>1, <2>1, <2>2, <3>1, StatusIsSo
  <2> QED BY <1>1, <2>1, <2>2
<1> QED BY <1>1, JobsInit, JobsStep, PTL DEF PodJobsSpec, NeverMistaken

-----------------------------------------------------------------------------
(* The two together (MCWarmPods).                                          *)

LEMMA WarmInvTypes == WarmInv => WarmTypeOK
<1> SUFFICES ASSUME WarmInv PROVE WarmTypeOK
  OBVIOUS
<1>1. \A r \in Runs : kept[r].owned => renter[kept[r].on] = r \/ warmPod[kept[r].on] = "gone"
  BY DEF WarmInv, OwnsAreRented, Mine
<1> QED BY <1>1 DEF WarmInv, WarmTypes, ServerTypes, PodTypes, CallTypes, EntryTypes, WarmTypeOK

(* Every variable of the two components has its type, and the entry a run  *)
(* holds as its own is for a pod that it rented (MCWarmPods).              *)
THEOREM SharedTypes == SharedSpec => []SharedTypeOK
<1> DEFINE SharedInv == /\ part \in {"warm", "jobs"}
                        /\ part = "warm" => WarmInv
                        /\ part = "jobs" => JobsInv
<1>1. SharedInit => SharedInv
  BY WarmInitInv, JobsInit DEF SharedInit
<1>2. SharedInv /\ [SharedNext]_sharedVars => SharedInv'
  <2> SUFFICES ASSUME SharedInv, [SharedNext]_sharedVars PROVE SharedInv'
    OBVIOUS
  <2>1. CASE part = "warm" /\ WarmNext /\ UNCHANGED <<part, podJobVars>>
    BY <2>1, WarmStepInv
  <2>2. CASE part = "jobs" /\ PodJobsNext /\ UNCHANGED <<part, warmVars>>
    BY <2>2, JobsStep
  <2>3. CASE UNCHANGED sharedVars
    BY <2>3, WarmStepInv, JobsStep DEF sharedVars
  <2> QED BY <2>1, <2>2, <2>3 DEF SharedNext
<1>3. SharedInv => SharedTypeOK
  BY WarmInvTypes DEF SharedTypeOK, JobsInv
<1> QED BY <1>1, <1>2, <1>3, PTL DEF SharedSpec
==============================================================================
