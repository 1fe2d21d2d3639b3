------------------------------ MODULE PodJobs ------------------------------
(***************************************************************************)
(* Background jobs of one name on one pod (src/lium/sdk/jobs.py): callers  *)
(* that start the job with a launcher shell, attach to it by name, ask for *)
(* its status and signal it.  All that connects them is the pod's process  *)
(* table and the job's .pid, .id and .exit files, which a restart of the   *)
(* pod keeps.  Process numbers are given out again.                        *)
(*                                                                         *)
(* A process is a natural number, its boot id and start time; the numbers  *)
(* the kernel knows it by are Pids.                                        *)
(***************************************************************************)
EXTENDS Integers

CONSTANTS
  Callers,     \* clients that start and follow the job
  Pids,        \* process numbers
  MaxBorn,     \* bound: processes that ever start
  MaxRestarts, \* bound: restarts of the pod
  NoPid

ASSUME PodJobsAssumption ==
  NoPid \notin Pids /\ MaxBorn \in Nat /\ MaxRestarts \in Nat

VARIABLES
  table,      \* the process that each number stands for, 0 for none
  born,       \* processes so far
  runs,       \* those that are runs of the job
  pidFile, idFile, exitFile,  \* <name>.pid, .id (Missing, or 0 when empty), .exit (whose, 0 for none)
  caller,     \* each caller's next step, or what it was last told
  at, of,     \* its Job's pid, and the run it stands for
  fileOf,     \* history: the run whose number is in the .pid file
  newest,     \* history: the last run started
  overlapped, \* history: two launchers were past their check at a time
  victims,    \* history: the processes that kill() has signalled
  restarts

podFiles == <<pidFile, idFile, exitFile, fileOf>>
podJobVars == <<table, born, runs, podFiles, caller, at, of, newest, overlapped, victims, restarts>>

Missing == -1
Launching == {"clean", "fork", "pid", "id"}
Told == {"new", "running", "exited", "gone"}

(* A number stands for a process that was started; a caller's Job and the  *)
(* .pid and .exit files stand for runs.                                    *)
PodJobsTypeOK ==
  /\ born \in 0..MaxBorn /\ runs \subseteq 1..born /\ victims \subseteq 1..born
  /\ table \in [Pids -> 0..born] /\ newest \in runs \cup {0} /\ fileOf \in runs \cup {0}
  /\ pidFile \in Pids \cup {NoPid} /\ idFile \in {Missing} \cup 0..born /\ exitFile \in runs \cup {0}
  /\ caller \in [Callers -> {"idle", "check", "exit?", "alive?"} \cup Launching \cup Told]
  /\ at \in [Callers -> Pids \cup {NoPid}] /\ of \in [Callers -> runs \cup {0}]
  /\ overlapped \in BOOLEAN /\ restarts \in 0..MaxRestarts

PodJobsInit ==
  /\ table = [p \in Pids |-> 0] /\ born = 0 /\ runs = {}
  /\ pidFile = NoPid /\ idFile = Missing /\ exitFile = 0
  /\ caller = [c \in Callers |-> "idle"]
  /\ at = [c \in Callers |-> NoPid] /\ of = [c \in Callers |-> 0]
  /\ fileOf = 0 /\ newest = 0 /\ overlapped = FALSE /\ victims = {} /\ restarts = 0

Lives(n) == \E p \in Pids : n # 0 /\ table[p] = n
Then(c, from, to) == caller[c] = from /\ caller' = [caller EXCEPT ![c] = to]
SamePod == UNCHANGED <<table, born, runs, newest, restarts>>
SameHandle == UNCHANGED <<at, of>>

(* identity_matches: the process at `p` is the one in the .id file.  One   *)
(* that is gone, and a missing or empty file, never match.                 *)
(* Faulty: kill -0 alone.                                                  *)
MatchesFaulty(p) == p # NoPid /\ table[p] # 0
Matches(p) == p # NoPid /\ table[p] # 0 /\ idFile = table[p]

-----------------------------------------------------------------------------
(* run_background: build_job_launcher's shell.                             *)
Run(c) ==
  /\ caller[c] \in {"idle"} \cup Told /\ caller' = [caller EXCEPT ![c] = "check"]
  /\ at' = [at EXCEPT ![c] = NoPid] /\ of' = [of EXCEPT ![c] = 0]
  /\ SamePod /\ UNCHANGED <<podFiles, overlapped, victims>>

StillRunning(c) ==
  /\ Then(c, "check", IF Matches(pidFile) THEN "idle" ELSE "clean")
  /\ overlapped' = (overlapped \/ (~Matches(pidFile) /\ \E d \in Callers : caller[d] \in Launching))
  /\ SamePod /\ SameHandle /\ UNCHANGED <<podFiles, victims>>

(* rm -f .exit .id                                                         *)
CleanFiles(c) ==
  /\ Then(c, "clean", "fork") /\ idFile' = Missing /\ exitFile' = 0
  /\ SamePod /\ SameHandle /\ UNCHANGED <<pidFile, fileOf, overlapped, victims>>

(* nohup setsid ... &.  A number is not given out again while the launcher *)
(* it was given to still runs.                                             *)
Free(p) == table[p] = 0 /\ \A d \in Callers : caller[d] \in {"pid", "id"} => at[d] # p
StartsAt(p) == born < MaxBorn /\ Free(p) /\ born' = born + 1 /\ table' = [table EXCEPT ![p] = born']
Fork(c) ==
  /\ Then(c, "fork", "pid")
  /\ \E p \in Pids : StartsAt(p) /\ at' = [at EXCEPT ![c] = p]
  /\ runs' = runs \cup {born'} /\ newest' = born' /\ of' = [of EXCEPT ![c] = born']
  /\ UNCHANGED <<podFiles, overlapped, victims, restarts>>

WritePid(c) ==
  /\ Then(c, "pid", "id") /\ pidFile' = at[c] /\ fileOf' = of[c]
  /\ SamePod /\ SameHandle /\ UNCHANGED <<idFile, exitFile, overlapped, victims>>

(* ... and the number it prints, which may get lost on its way.            *)
WriteId(c) ==
  /\ \/ Then(c, "id", "new") /\ SameHandle
     \/ Then(c, "id", "idle") /\ at' = [at EXCEPT ![c] = NoPid] /\ of' = [of EXCEPT ![c] = 0]
  /\ idFile' = table[at[c]]
  /\ SamePod /\ UNCHANGED <<pidFile, exitFile, fileOf, overlapped, victims>>

(* Lium.job: the number in the .pid file.                                  *)
Attach(c) ==
  /\ pidFile # NoPid /\ Then(c, "idle", "new")
  /\ at' = [at EXCEPT ![c] = pidFile] /\ of' = [of EXCEPT ![c] = fileOf]
  /\ SamePod /\ UNCHANGED <<podFiles, overlapped, victims>>

-----------------------------------------------------------------------------
(* build_status_probe: the .exit file, then the process.                   *)
Ask(c) ==
  /\ caller[c] \in Told /\ caller' = [caller EXCEPT ![c] = "exit?"]
  /\ SamePod /\ SameHandle /\ UNCHANGED <<podFiles, overlapped, victims>>

ProbeExit(c) ==
  /\ Then(c, "exit?", IF exitFile # 0 THEN "exited" ELSE "alive?")
  /\ SamePod /\ SameHandle /\ UNCHANGED <<podFiles, overlapped, victims>>

ProbeAlive(c) ==
  /\ Then(c, "alive?", IF Matches(at[c]) THEN "running" ELSE "gone")
  /\ SamePod /\ SameHandle /\ UNCHANGED <<podFiles, overlapped, victims>>

(* Job.kill: the process group of a process that matches, which the signal *)
(* may end without an exit code.                                           *)
Signal(c) ==
  /\ caller[c] \in Told /\ Matches(at[c])
  /\ victims' = victims \cup {table[at[c]]}
  /\ table' \in {table, [table EXCEPT ![at[c]] = 0]}
  /\ SameHandle /\ UNCHANGED <<born, runs, newest, restarts, podFiles, caller, overlapped>>

-----------------------------------------------------------------------------
(* The pod.  A run ends with its exit code in the .exit file.              *)
RunEnds(p) ==
  /\ table[p] \in runs /\ exitFile' = table[p] /\ table' = [table EXCEPT ![p] = 0]
  /\ UNCHANGED <<born, runs, newest, restarts, pidFile, idFile, fileOf, caller, at, of, overlapped, victims>>

OtherStarts ==
  /\ \E p \in Pids : StartsAt(p)
  /\ UNCHANGED <<runs, newest, restarts, podFiles, caller, at, of, overlapped, victims>>

OtherEnds(p) ==
  /\ table[p] \notin runs \cup {0} /\ table' = [table EXCEPT ![p] = 0]
  /\ UNCHANGED <<born, runs, newest, restarts, podFiles, caller, at, of, overlapped, victims>>

(* Every process ends, the launchers and probes among them.                *)
PodRestarts ==
  /\ restarts < MaxRestarts /\ restarts' = restarts + 1
  /\ table' = [p \in Pids |-> 0]
  /\ caller' = [c \in Callers |-> CASE caller[c] \in Launching \cup {"check"} -> "idle"
                                    [] caller[c] \in {"exit?", "alive?"} -> "new"
                                    [] OTHER -> caller[c]]
  /\ UNCHANGED <<born, runs, newest, podFiles, at, of, overlapped, victims>>

PodJobsNext ==
  \/ \E c \in Callers :
       \/ Run(c) \/ StillRunning(c) \/ CleanFiles(c) \/ Fork(c) \/ WritePid(c) \/ WriteId(c)
       \/ Attach(c) \/ Ask(c) \/ ProbeExit(c) \/ ProbeAlive(c) \/ Signal(c)
  \/ \E p \in Pids : RunEnds(p) \/ OtherEnds(p)
  \/ OtherStarts \/ PodRestarts

PodJobsSpec == PodJobsInit /\ [][PodJobsNext]_podJobVars

-----------------------------------------------------------------------------
(* status() and kill() never take another process for the job, such as one *)
(* that got its number after a restart (README 164): only runs are ever    *)
(* signalled; and unless two launchers were past their check together,     *)
(* which nothing prevents, a name is one run at a time and what status()   *)
(* says of the last one is so.  A caller that attaches before the .id file *)
(* is written may hear "gone" of a run that lives.                         *)
LaunchIsOver == \A c \in Callers : caller[c] # "id"
NeverMistaken ==
  [][ /\ victims' \subseteq runs'
      /\ ~overlapped' =>
           /\ \A n \in runs' : Lives(n)' => n = newest'
           /\ \A c \in Callers : of[c] = newest /\ LaunchIsOver /\ caller'[c] # caller[c] =>
                /\ caller'[c] = "running" => Lives(of[c])
                /\ caller'[c] = "exited" => exitFile = of[c]
                /\ caller'[c] = "gone" => ~Lives(of[c]) ]_podJobVars

(* Job.status: "``gone`` means the process is not alive and left no exit   *)
(* code".                                                                  *)
GoneLeftNoExitCode ==
  [][\A c \in Callers : caller[c] = "alive?" /\ caller'[c] = "gone" => of[c] # exitFile]_podJobVars
=============================================================================
