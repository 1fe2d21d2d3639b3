----------------------------- MODULE MCWarmPods ------------------------------
(***************************************************************************)
(* What several scripts keep on the same pods: two runs of one @machine    *)
(* script and the pods they keep warm for each other, callers and the      *)
(* background jobs of one name.  They share no state: a behaviour is one   *)
(* of one component, named by `part`, with the other in its initial state. *)
(***************************************************************************)
EXTENDS WarmPods, PodJobs, TLC

VARIABLE part
sharedVars == <<part, warmVars, podJobVars>>

SharedInit ==
  /\ part \in {"warm", "jobs"} /\ WarmInit /\ PodJobsInit
  /\ part # "warm" => keepWarm = [r \in Runs |-> 0]
SharedNext ==
  \/ part = "warm" /\ WarmNext /\ UNCHANGED <<part, podJobVars>>
  \/ part = "jobs" /\ PodJobsNext /\ UNCHANGED <<part, warmVars>>
SharedSpec == SharedInit /\ [][SharedNext]_sharedVars

SharedTypeOK ==
  CASE part = "warm" -> WarmTypeOK
    [] part = "jobs" -> PodJobsTypeOK

(* Neither runs and pods nor callers and process numbers are told apart;   *)
(* no liveness is checked.                                                 *)
Sym == {f @@ g : f \in Permutations(Runs), g \in Permutations(Pods)}
  \cup {f @@ g : f \in Permutations(Callers), g \in Permutations(Pids)}

(* What is followed: until every run has begun all its calls, with at most *)
(* one run that keeps a pod warm for longer than its calls, and only until *)
(* a removal did not reach the server, which excuses what comes after.     *)
FewCalls ==
  part = "warm" =>
    /\ \E r \in Runs : calls[r] > 0
    /\ \E r \in Runs : keepWarm[r] = 0
    /\ \A r \in Runs : ~missed[r]
==============================================================================
