------------------------------- MODULE MineNode -------------------------------
(***************************************************************************)
(* `lium mine` on a provider's host (src/lium/cli/commands/mine.py): the   *)
(* executor's .env is rebuilt from its template, the settings of this run  *)
(* and of earlier ones are put back into it, and docker compose starts the *)
(* runner, which starts the executor.  An executor that was created with   *)
(* other settings is recreated, but not under rentals.  A run may be cut   *)
(* short at any step and started again.                                    *)
(*                                                                         *)
(* `ports` stands for the service, SSH and renting ports and the NAT       *)
(* forwards: what the template resets and the second write puts back.  The *)
(* storage set-up among the preparations is the module StorageSetup.       *)
(***************************************************************************)
EXTENDS Naturals

CONSTANTS
  PortChoices,  \* port settings a provider may choose
  DefaultPorts, \* those of the template
  Claims,       \* MINER_ACCOUNT_CLAIM of register tokens
  NoClaim,
  MaxMineRuns   \* bound: runs of the command

ASSUME MineAssumption ==
  DefaultPorts \in PortChoices /\ NoClaim \notin Claims /\ MaxMineRuns \in Nat

VARIABLES
  mineStep,    \* next step of a run, or how it ended
  mineRuns,    \* runs begun
  answers,     \* settings of the run: flags, saved ones, the token's claim
  env,         \* settings in neurons/executor/.env
  executor,    \* the executor's container and the settings it was created with
  runner,      \* executor-runner: "recreating" and "starting" end in a new executor
  occupied,    \* ports another process holds
  rented,      \* a rental pod runs
  stale,       \* _executor_env_stale
  rentals,     \* the pods _start_executor saw
  lingers,     \* the container is the one of old_id
  given,       \* history: settings the provider gave, in the order given
  torn,        \* history: a run was cut between the two writes of .env
  taken,       \* history: ports others took since a check last found them free
  spared,      \* history: the rental was seen when nothing was to restart it
  hurt,        \* history: a rental that was seen has been interrupted
  lost         \* history: a working executor gave way to one without its port

mineHistory == <<given, torn, taken, spared, hurt, lost>>
mineRunVars == <<mineRuns, answers, stale, rentals>>
dockerVars == <<executor, runner, rented, lingers>>
mineVars == <<mineStep, mineRunVars, env, dockerVars, occupied, mineHistory>>

Settings == [ports : PortChoices, claim : Claims \cup {NoClaim}]
MineEnds == {"idle", "failed", "cut", "served"}
MineSteps == {"prepare", "check", "template", "overrides", "stale", "look", "up", "wait"}

MineTypeOK ==
  /\ mineStep \in MineEnds \cup MineSteps /\ mineRuns \in 0..MaxMineRuns
  /\ answers \in Settings /\ env \in Settings /\ given \in Settings
  /\ executor \in [state : {"none", "created", "starting", "healthy"}, set : Settings]
  /\ runner \in {"down", "up", "starting", "recreating"}
  /\ occupied \subseteq PortChoices /\ taken \subseteq PortChoices
  /\ rented \in BOOLEAN /\ stale \in BOOLEAN /\ rentals \in BOOLEAN /\ lingers \in BOOLEAN
  /\ torn \in BOOLEAN /\ spared \in BOOLEAN /\ hurt \in BOOLEAN /\ lost \in BOOLEAN

(* Without an .env the defaults are taken.                                 *)
Fresh == [ports |-> DefaultPorts, claim |-> NoClaim]
MineInit ==
  /\ mineStep = "idle" /\ mineRuns = 0 /\ answers = Fresh /\ env = Fresh
  /\ executor = [state |-> "none", set |-> Fresh] /\ runner = "down"
  /\ occupied \in SUBSET PortChoices /\ rented = FALSE
  /\ stale = FALSE /\ rentals = FALSE /\ lingers = FALSE
  /\ given = Fresh /\ torn = FALSE /\ taken = {}
  /\ spared = FALSE /\ hurt = FALSE /\ lost = FALSE

MineGoes(from, to) == mineStep = from /\ mineStep' = to
Runs(state) == state \in {"starting", "healthy"}

-----------------------------------------------------------------------------
(* mine_command: "a rerun keeps the port settings an earlier run wrote; a  *)
(* flag or a prompt answer overrides them".                                *)
MineBegins(ports, claim) ==
  /\ mineStep \in MineEnds /\ mineStep' = "prepare"
  /\ mineRuns < MaxMineRuns /\ mineRuns' = mineRuns + 1
  /\ answers' = [ports |-> ports, claim |-> claim]
  /\ stale' = FALSE /\ rentals' = FALSE
  /\ UNCHANGED <<env, dockerVars, occupied, mineHistory>>
BeginsWith(ports, claim) ==
  MineBegins(IF ports = "saved" THEN env.ports ELSE ports, claim)

(* The checkout, the tools, the prerequisites and the disk: a refusal.     *)
Prepare ==
  /\ MineGoes("prepare", "check") \/ MineGoes("prepare", "failed")
  /\ UNCHANGED <<mineRunVars, env, dockerVars, occupied, mineHistory>>

(* _check_ports_free: only what a running executor publishes now is its    *)
(* own.  Faulty: with one that runs every port is, as the help text says.  *)
OwnPortsFaulty == IF Runs(executor.state) THEN PortChoices ELSE {}
OwnPorts == IF Runs(executor.state) THEN {executor.set.ports} ELSE {}
CheckPorts ==
  /\ IF answers.ports \in occupied \ OwnPorts
     THEN MineGoes("check", "failed") /\ UNCHANGED taken
     ELSE MineGoes("check", "template") /\ taken' = taken \ {answers.ports}
  /\ UNCHANGED <<mineRunVars, env, dockerVars, occupied, given, torn, spared, hurt, lost>>

(* _setup_executor_env: the defaults, and the claim an earlier --register  *)
(* wrote.                                                                  *)
FromTemplate == [Fresh EXCEPT !.claim = env.claim]
WriteTemplate ==
  /\ MineGoes("template", "overrides") /\ env' = FromTemplate
  /\ UNCHANGED <<mineRunVars, dockerVars, occupied, mineHistory>>

(* _apply_env_overrides.                                                   *)
Overridden(settings) ==
  [ports |-> answers.ports, claim |-> IF answers.claim = NoClaim THEN settings.claim ELSE answers.claim]
WriteOverrides ==
  /\ MineGoes("overrides", "stale") /\ env' = Overridden(env)
  /\ given' = Overridden(given) /\ torn' = FALSE
  /\ UNCHANGED <<mineRunVars, dockerVars, occupied, taken, spared, hurt, lost>>

(* _executor_env_stale: every key the executor reads at its start.         *)
Stale == executor.state # "none" /\ executor.set # env
CheckStale ==
  /\ MineGoes("stale", "look") /\ stale' = Stale
  /\ UNCHANGED <<mineRuns, answers, rentals, env, dockerVars, occupied, mineHistory>>

(* _start_executor: the rental pods, and, for a recreate, the id of the    *)
(* executor that runs.                                                     *)
LookForRentals ==
  /\ MineGoes("look", "up") /\ rentals' = rented
  /\ lingers' = (stale /\ ~rented /\ Runs(executor.state))
  /\ spared' = (rented /\ runner = "up")
  /\ UNCHANGED <<mineRuns, answers, stale, env, executor, runner, rented, occupied,
                 given, torn, taken, hurt, lost>>

(* docker compose up -d: --no-recreate under rentals, --force-recreate of  *)
(* a stale executor, and otherwise a runner whose own configuration        *)
(* changed is recreated.                                                   *)
UpOutcomes ==
  IF rentals THEN {"up"} ELSE IF stale THEN {"recreating"} ELSE {"up", "recreating"}
ComposeUp ==
  /\ MineGoes("up", "wait")
  /\ IF runner = "down" THEN runner' = "starting"
     ELSE \E outcome \in UpOutcomes : runner' = IF outcome = "up" THEN runner ELSE outcome
  /\ UNCHANGED <<mineRunVars, env, executor, rented, lingers, occupied, mineHistory>>

(* Until an executor that is not the old one is healthy, or 180 s; step 6, *)
(* the preflight image, follows.                                           *)
WaitHealthy ==
  /\ \/ executor.state = "healthy" /\ ~lingers /\ MineGoes("wait", "served")
     \/ MineGoes("wait", "failed")
  /\ UNCHANGED <<mineRunVars, env, dockerVars, occupied, mineHistory>>

CutRun ==
  /\ mineStep \in MineSteps /\ mineStep' = "cut" /\ torn' = (torn \/ mineStep = "overrides")
  /\ UNCHANGED <<mineRunVars, env, dockerVars, occupied, given, taken, spared, hurt, lost>>

-----------------------------------------------------------------------------
(* Docker, and what else goes on at the host.                              *)

(* The runner force-recreates the executor, from .env as it is.            *)
RunnerStarts ==
  /\ runner \in {"starting", "recreating"} /\ runner' = "up"
  /\ LET free == env.ports \notin occupied
     IN /\ executor' = [state |-> IF free THEN "starting" ELSE "created", set |-> env]
        /\ lost' = (lost \/ (executor.state = "healthy" /\ ~free /\ env = given /\ env.ports \notin taken))
  /\ rented' = FALSE /\ lingers' = FALSE /\ hurt' = (hurt \/ (rented /\ spared))
  /\ UNCHANGED <<mineStep, mineRunVars, env, occupied, given, torn, taken, spared>>
ExecutorIsHealthy ==
  /\ executor.state = "starting" /\ executor' = [executor EXCEPT !.state = "healthy"]
  /\ UNCHANGED <<mineStep, mineRunVars, env, runner, rented, lingers, occupied, mineHistory>>
RunnerStops ==
  /\ runner = "up" /\ runner' = "down" /\ spared' = FALSE
  /\ UNCHANGED <<mineStep, mineRunVars, env, executor, rented, lingers, occupied,
                 given, torn, taken, hurt, lost>>

RentalBegins ==
  /\ executor.state = "healthy" /\ ~rented /\ rented' = TRUE /\ spared' = FALSE
  /\ UNCHANGED <<mineStep, mineRunVars, env, executor, runner, lingers, occupied,
                 given, torn, taken, hurt, lost>>
RentalEnds ==
  /\ rented /\ rented' = FALSE
  /\ UNCHANGED <<mineStep, mineRunVars, env, executor, runner, lingers, occupied, mineHistory>>

OtherBinds(ports) ==
  /\ ports \notin occupied /\ ~(Runs(executor.state) /\ executor.set.ports = ports)
  /\ occupied' = occupied \cup {ports} /\ taken' = taken \cup {ports}
  /\ UNCHANGED <<mineStep, mineRunVars, env, dockerVars, given, torn, spared, hurt, lost>>
OtherLeaves(ports) ==
  /\ ports \in occupied /\ occupied' = occupied \ {ports}
  /\ UNCHANGED <<mineStep, mineRunVars, env, dockerVars, mineHistory>>

MineNext ==
  \/ \E ports \in PortChoices \cup {"saved"}, claim \in Claims \cup {NoClaim} : BeginsWith(ports, claim)
  \/ Prepare \/ CheckPorts \/ WriteTemplate \/ WriteOverrides \/ CheckStale \/ LookForRentals
  \/ ComposeUp \/ WaitHealthy \/ CutRun
  \/ RunnerStarts \/ ExecutorIsHealthy \/ RunnerStops \/ RentalBegins \/ RentalEnds
  \/ \E ports \in PortChoices : OtherBinds(ports) \/ OtherLeaves(ports)
MineSpec == MineInit /\ [][MineNext]_mineVars

-----------------------------------------------------------------------------
(* A run that ends with a healthy node leaves it with the settings in .env *)
(* ("a rerun after a restart skipped under rentals still delivers what     *)
(* .env already holds"), unless it said that it did not restart it.        *)
SettingsReachTheNode ==
  mineStep = "served" /\ ~(stale /\ rentals) => executor.set = env

(* What is registered next is the port in .env (executor_port), and it is  *)
(* one the node serves.  Does not hold of a run that did not restart the   *)
(* executor under rentals: it goes on to register the new port.            *)
ServesWhatIsRegistered == mineStep = "served" => executor.set.ports = env.ports

(* "A restart under running rentals interrupts them" (_start_executor): of *)
(* a rental the run saw, while the runner was up, none is.                 *)
RentalsAreSpared == ~hurt

(* "A changed port must be free before a recreate removes the working      *)
(* executor" (_check_ports_free), unless it was taken after the check, or  *)
(* .env was the template when the runner read it.                          *)
WorkingNodeIsKept == ~lost

(* .env holds what the provider last gave for each setting, but for a run  *)
(* cut between the two writes; the claim then, too.                        *)
SettingsAreKept ==
  /\ env.claim = given.claim
  /\ ~torn /\ mineStep # "overrides" => env = given
(* "A rerun keeps the port settings an earlier run wrote."  Does not hold  *)
(* after a cut between the two writes: the defaults are then the saved     *)
(* settings of the next run.                                               *)
PortsOutliveACut == mineStep # "overrides" => env = given

(* What `lium mine` promises of the node it works on.                      *)
NodeKeepsItsWord ==
  SettingsReachTheNode /\ RentalsAreSpared /\ WorkingNodeIsKept /\ SettingsAreKept
==============================================================================
