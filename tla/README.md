# Verification of the Lium SDK and CLI

TLA+ models, TLC runs and TLAPS proofs for the parts of `lium.io` (the Python
SDK `lium/sdk`, the CLI `lium/cli`, the provider client `lium/provider`) that
spend money, hold a pod or change a machine: what happens to a rent whose
answer is lost, who is told about a pod, who removes it and when, which
connection a command runs on, and what a crash leaves on disk. The Lium API,
the pods and the operating system are outside the repository; they are modelled
from how the code uses them, and are marked external in `PROJECT.json`.

## The system

| Part | State it keeps | Operations | Interacts with | What makes it correct |
|---|---|---|---|---|
| Rent protocol (`sdk/client.py` 1380-2228) | one call's requests, key, known pods | `up`, `rent`, `rental`, `_replay_rent` | API; MCP ledger, jobs, `@machine` call it | a refusal means nothing was rented; one pod per call; a pod is never lost or another's |
| MCP rental ledger (`cli/mcp/tools.py`) | four lists of unheard rentals, journals and lock files on disk | `rent_pod`, `list_pods`, `remove_pod`, deliver, cancel, adopt, reconcile | worker threads, event loop, reconciler thread, other processes through the directory, rent protocol | no second rent beside an unsettled one; each rental has one receiver; a cancelled rental's pod goes; crashes lose nothing |
| SSH pool (`sdk/_ssh_reuse.py`, `client.py` 3725-3959) | pool, session tables, users, timers | calls, `ssh_session`, idle expiry, drop, close | threads of one client | no connection closes under a call, none stays for ever |
| Storage set-up (`cli/mine/gpu_splitting.py`) | mounts, Docker's root and backup, five configuration files, docker.service | set-up in nineteen commands, rollback | the host, systemd, a reboot | one whole copy of the data at every moment; Docker never starts on the wrong root |
| Self update (`cli/self_update.py`) | lock file, state file, versions, link | start-up update | other CLI processes | one updater; the link resolves to a whole bundle; no downgrade |
| Control master (`sdk/ssh_mux.py`) | control socket, flock | check, start, run, stop | other CLI processes, `ssh` processes | one master, and it has the socket |
| Token cache (`provider/token_store.py`, `client.py`) | JSON file, lock | load, save, clear; login, logout, set_email | other CLI processes, the portal | no lost session of another account; a dead session is noticed |
| Transfer key (`client.py` `cp`) | key files and `authorized_keys` on two pods | place, grant, copy, revoke, remove | other copies, users' keys | no key lost, none left behind silently |
| Bounded job (`sdk/bounded_job.py`) | one result | rent, schedule, boot, run, remove | rent protocol, termination | the pod goes by the limit; the report is true |
| `@machine` (`sdk/decorators.py`) | `_WARM` | call, `map`, `close`, exit | rent protocol, SSH pool, other runs by pod name | a pod is removed by whom it belongs to, and not under a running function |
| Readiness wait (`client.py` 4632) | one wait | poll, grace, back-off, vanish, time out | API | keeps its timeout, ends |
| Background jobs (`sdk/jobs.py`) | `.pid`, `.id`, `.exit` files on the pod | launch, attach, status, kill | processes of the pod, restarts, other callers | the right process; the right answer |
| Clusters (`client.py` 2871-3192, `cli/clusters`) | one order | snapshot, order, resend, lookup, schedule, wait, remove | API, other clusters of the name | one order rents one cluster; what is handed back is this order's, and whole |
| `lium up` (`cli/up`) | one command's pod, volume, end | prompt, volume, upload, rent, schedule, wait, cap, check, SSH | rent protocol, readiness wait, termination | a ready pod has the end asked for; a failure names what it leaves |
| Card top-up (`cli/topup`, `client.py` `topup_card`, `wait_for_credit`) | one command's key, baseline, exit | prompt, baseline, POST, wait, report | API, Stripe, the payer who runs it again | at most one payment; the exit says what became of it |
| `lium fund` (`cli/fund`) | one command's target, agreed target | register, resolve, quote, prompt, quote again, transfer | pay API, the chain | at most one transfer, and the one agreed to |
| Targets of `lium rm` (`cli/utils.py`, `cli/ps`, `cli/rm`) | a file of listed rows per shell; one command's plan | `ps` stores and shows; `rm` resolves, asks, removes or schedules | API, other clients, other shells | a row number means the pod that was seen there; only pods agreed to are touched; the report is true |
| Keys and workspaces (`cli/settings.py`, `cli/signup`, `cli/init`, `cli/keys`, `cli/workspaces`) | `config.ini`, and what each process read of it | signup, login, set and unset, save a workspace's key, delete | other CLI processes, API | an e-mail-less login is not lost; the account that rents pays; a section is one workspace's |
| Provider's node (`cli/commands/mine.py`) | `.env`, the executor and its runner | configure, check ports, start or recreate | Docker, rentals on the node, other programs, a run that was cut short | what the provider set reaches the node; rentals and a working node are spared |
| Registration of a node (`mine_register.py`) | one run's token, node id, wait | confirm, post, look up, watch | portal, validators, other accounts | the node watched is the account's own; OFFLINE is confirmed; the wait ends in time |
| Blocking reasons (`cli/provider/node.py`, `_blocking.py`) | one command's refreshes | verification, record, overview, decide | portal, agents that read the exit status | exit 0 means clear, a blocked exit means blocked |
| Credits, SDK spend cap (`client.py`) | one call each | one or two requests | API | a half-done sequence is reported as such |
| Other portal commands, other CLI commands, integrations | none, or the host's | one request or one script each | | |

`PROJECT.json` lists every component with its status, and under `hazards` what
is hard to test, at its line. The behaviours that make this system hard are
answers that are lost or late, the same name used by several clients, state
shared by worker threads, an event loop and a background thread, processes
that share files, servers that act at a time of their own, and a crash between
two steps.

## Modules

**Rent.** `RentApi` is the API and the network under a rent: what happens to
one POST (`http[c][n]`) and the Idempotency-Key it carries (`under[c][n]`), the
record of each key, the pods and how their rows look. The API knows a repeat by
its key alone; which key a request carries is the client's doing.
`Rent` extends it with the client: one action per branch of `_rent`,
`_rent_on_server`, `_replay_rent` and `rental`. A call is of one of four kinds:
plain `up`, `Confirmed` (`confirmed_only=True`, the one that replays), `Scoped`
(`rental`) and `BySpec` (`rent`). A call draws a new key before its first request
(`NewKey`: `uuid.uuid4()`) and sends the repeat and the replays under it. A request
may be late: it can run after the call gave up on it. `RentContract` is the
abstract promise (a rent happens at most once; the caller is told created, refused
or unknown, and only the truth) and `Rent` maps to it for the confirmed calls (`ContractKept`).

**`McpRentals`** is `LiumTools` with `_RentalStore` and `_Rental`. Its rentals
are `rent_pod` calls, its listings `list_pods` calls, its servers processes over
one journal directory. An object (`_Rental`) and its journal are separate
state, and so are the four lists: `unresolved`, `recovered`, `handing`,
`delivered`, with `in_flight`. What the code does under `_cleanup` is one step;
saves, replays and requests outside it are steps of their own, and so are the
two halves of `_adopt`, the mark of a cancellation and what follows it. Three
pairs are merged: a list change with the `forget` in the same
`_forget_delivered` call; `reconcile` called by `rent_pod` or `list_pods` with
the reconciler's own pass (the same actions serve both); and the DELETE of
`remove_pod` with the discard after it. A crash clears a process's memory,
keeps the journals and drops the locks; a later process adopts them.

**`SshPool`** is one pod's kept connection shared by the threads of a client.
Sections under `_ssh_pool_lock` or `_users_lock` are steps; the session tables
are read and written without a lock, so each access is a step of its own. A
popped entry is closed in the same step except in the idle expiry, where the
distance between check and close is the question. In `take_kept` the check of
the entry (`CheckKept`) and the `acquire` (`TakeKept`) are two steps under the
pool lock (`taking` holds it), since a release needs only the users lock. A
call on the client that a session or the caller holds (`EndBorrowed`) counts no
use, as in the code. `Age`, the passing of the idle time, does not happen
between a thread's read of a session entry and its use of it: that would take
five minutes between two statements. `conn`, `carrier` and `kind`
stand for the paramiko connection, which entry really owns it, and why it was
opened.

**`StorageSetup`** goes through `_execute_setup` and `_rollback_setup` one
command at a time. `host` is what survives the process (mounts, roots, backup,
configuration, docker.service); `flags` is `_SetupExecutionState`, set after a
helper returns, as in the code. A command may fail before, within or after its
effect, the process may be killed and the host rebooted anywhere, also in the
rollback; at boot systemd mounts and starts what the files say.

**`SelfUpdate`** is `perform_startup_update` of several launches over one
`~/.lium`: the lock file that is created, aged, stolen and unlinked, the
staging directory, the bundle that is removed and then moved in, the link, the
clean-up, the throttle state. **`SshMux`** is `ControlMaster`: check, flock,
second check, unlink, `ssh -M`, run, the question after status 255, stop; a
master is a process that binds the socket or stays up as a plain connection.
**`TokenCache`** is the portal's session file: every `load`, `save` and `clear`
is a critical section under a lock that does not wait (`with_refresh_retry`
tries again), composed with `login`, `logout` and `set_email`; sessions end at
the portal at any time. **`TransferKey`** is `cp` between two pods: the client's
steps on one side, the grant and the revoke on the destination on the other,
since a command goes on when its client has lost the connection. A revoke is a
read (`Filter`) and a write (`WriteBack`) of `authorized_keys` under `flock`;
other programs append keys without that lock.

**`BoundedJob`** is `run_job` with every lost answer, refused or failed DELETE,
interrupt and kill, beside the server: a pod's end that is set exactly, or
replaced at boot by `boot + termination_hours`, a pod that cannot be deleted
while it deploys, a rent that appears late. Time is an era: before `stop_at`,
after it, after the server's own hours. **`WarmPods`** is `@machine`: processes
(`Runs`) that keep a pod between calls (`_WARM`), find one by name that another
run keeps, schedule and schedule again its removal, and remove or leave it at
the end of a call, of `map()`, of `close()` and of the process. **`ReadyWait`**
is `wait_ready` and `wait_for_port` over a clock in seconds: the poll intervals
(the adaptive ones, without `poll_interval`), the grace for a pod that was never
listed, 429s with and without `Retry-After`, other errors of the listing, terminal
states, the timeout, and the request for the pod's events that comes before each
`PodStartError` (`Cause`). **`PodJobs`** is the launcher of `run_background`
step by step, `job()`, the two looks of a status probe and `kill()`, over the
pod's process table (numbers are used again) and the job's files, which survive
a restart of the pod.

**`UpCommand`** is `lium up` from the prompt to the SSH session, one action per
stretch of `up_command` that can end it. Its state is what the function holds
(`deadline`, `termination_time` as `plan`, `termination_scheduled`), what the
server holds (the pod, its `created_at` and `removal_scheduled_at`, the volume)
and the exit: its code, what its `data` names and what it says of the pod's
end. The removal can be scheduled twice, at the rent and when the pod is ready,
`--budget` can move it in between, and every answer may be lost. The rent is
what `RentContract` leaves of it: made, refused or unknown.

**`Clusters`** is `Lium.up_cluster` under `lium clusters up`: the snapshot of
known clusters without which no order is placed, the order and its resend (only
where the API honours the key), the lookup by the pods the answer named or by
name, the schedule of each member, `wait_cluster_ready`; beside it removals
(`rm_cluster`), a cluster of before and one that another client rents under the
same name. Requests may arrive after the command gave up on them.

**`TopUp`** is `lium topup card`, one action per step of `card_command` that can
end it, over the API's memory of idempotency keys: what was charged under each
(`charge`), where each run's request is (`post`), the balance that the wait
compares with its baseline. The payer is part of the model: he runs the command
again with the same key or with a fresh one, as the exit of the last run tells
him to. **`Fund`** is `lium fund`, with TAO and with `--alpha`: the address,
subnet and amount that the pay API names before a prompt which may stand for
hours, the second quote, the gate on the free alpha, the transfer whose answer
may be lost. The address, the primary subnet and the free alpha change around
the prompt; a transfer that was signed lands or is rejected at a time of its own.

**`PodTargets`** is what a target of `lium rm` stands for: `lium ps` stores its
rows in a file named after the shell's process number and then shows them; `rm`
lists the pods, reads each target as a row, an id or a name, asks for consent
where the code does, and removes or schedules one pod after the other. Pods are
rented, renamed and removed by others between any two steps, the file is cut
short, pruned or left by a shell that has ended, and listings get older than the
ten minutes for which a number may be used.

**`AccountKeys`** is `config.ini` as several CLI processes use it: each reads
the file when it starts (`view`) and writes all of that back with every option
it sets, so the last writer wins. A command is the list of its steps (`todo`):
the saves of a signup (fingerprint, key, billing key, its tag), of a login, of
`keys create --save` and `workspaces use` (id, then key), of `config unset` and
`workspaces delete`. A command can be cut short before any of them. `RunsAs` and
`PaysAs` are `Config.load` and `billing_client`: whose key rents, whose pays.

**`MineNode`** is `lium mine` up to step 6 on a host where the executor may run
already: the settings saved in `.env` and those of the command, the port check,
the two writes of `.env`, the comparison with what the executor was created
with, the look for rentals, `docker compose up` and the wait for an executor
that is not the old one. Docker's side is external: the runner, which
force-recreates the executor when it is itself recreated, rentals that begin and
end, other programs that take ports. `ports` stands for all port settings. A run
may be cut short at any step. **`RegisterNode`** is steps 7 and 8: the token
confirmed before the install, the POST, the lookup in a list that lags or hides
addresses, the wait with its clock (`elapsed`, `offlineSince`). The portal takes
one node at an address, which may be another account's. **`NodeStatus`** is
`provider node status` and `get`: the reads of a refresh, the reasons rebuilt
for an older portal, which of them block, and the exit. `standing` and `ever`
are the reasons that were there throughout, or at some time of, the refresh.

Operators named `...Faulty` are plausible bugs of the definition they precede.
No action uses them; they show that each property notices something.

**MC modules.** `MCRent`, `MCMcpRentals`, `MCSshPool` and `MCBoundedJob` are
instances of one component. Three modules check several components that have no
state in common in one run: `MCMachine` (storage set-up, self update, control
master, token cache, transfer key, clusters, account keys, a provider's node, its
registration, its blocking reasons), `MCPodHolders` (bounded job,
readiness wait, `lium up`, card top-up, `fund`, `rm` with `ps`) and `MCWarmPods` (`@machine`,
background jobs). A variable `part`, chosen
in the initial state, says which component a behaviour is of; the others stay
in their initial state, so that the run's states are the sum, not the product,
of the components', and a property of one component is checked on all
behaviours of that component.

## Runs

| Run | Instance | Shows |
|---|---|---|
| `rent_with_key` | one call of each kind, two pods, 3 requests per call, key honoured | refusals are true for ever, one pod per call, confirmed pods are ours, no pod hidden, refinement of the contract |
| `rental_older` (violation) | one `rental()` | it can delete an older pod of the same name |
| `mcp_sessions` | two rents in two processes without a crash, or in one that crashes once | admission, journals, lists, cancellations |
| `mcp_hand_over` | one rental, two listings, one crash, fairness | one receiver at a time; a cancelled rental's pod goes in the end |
| `mcp_adoption_gap` (violation) | two processes, a crash | a second rent beside an unsettled one |
| `ssh_pool` | two threads, one opens sessions, two connections | users are counted, expiry spares them, nothing unwatched, one shared connection |
| `ssh_session_moves` (violation) | the same, three connections | a session that ends during a reconnect leaves a connection in use |
| `machine` | ten components, each alone | a whole copy of the data always, Docker never on a wrong root, a silent rollback is complete; one updater, a live link, no downgrade; every master has its socket; no lost session, a sign-in is live; authorized keys are right; one order, one cluster; a cluster handed back is whole and no older one; the keys in `config.ini` lead where the code says; settings reach the node, rentals and a working node are spared; a node watched is the account's own, OFFLINE is confirmed; "clear" was clear, "blocked" was blocked |
| `warm_pods` | two `@machine` runs and two pods; two callers of one background job | only the owner removes a pod, a running function is covered by its schedule, and few things take its pod all the same; status and kill never mistake a process |
| `pod_holders` | `run_job`; `wait_ready` with every timeout, fairness; `lium up` with 18 combinations of its options; three runs of a card top-up; two runs of `fund`; one `rm` beside `ps` | the job's report is true, its run is bounded, a running pod goes; the timeout is kept, the wait ends; a ready pod has the earliest end asked for, failures name what they leave; who follows the exits pays once, and they are true; one transfer, as agreed; a row number means what was seen, only agreed pods go, the report is true |
| `job_schedule` (violation) | `run_job` | a removal reported as scheduled does not stand |
| `job_gone` (violation) | two callers of one background job | a job that ended with an exit code is reported gone |

**Bounds.**

- Rent: `MaxPosts` bounds the requests of a call: 2 are the first and the
  repeat, the third a replay; further replays meet the same stored answer. Two
  pods are enough for a call's pod beside a foreign or older one, or for two
  pods of one call. Of the two keys one is the call's, the other is what a repeat
  that draws its own would take. `OneCallOnly` (a TLC constraint) follows the behaviours in
  which one of the four calls is started: they meet only through pods of other
  clients, which the API side makes too. An API that ignores the key is left to
  the proofs (`RefusedSafe` and `TypeCorrect` hold for both).
- MCP: `MaxCrashes` is 1: a second crash finds the same kind of journals.
  `OneToTheEnd` follows two processes as long as one can still send a rent, and
  one process to the end, across the crash.
- SSH: `MaxConns` is the number of connections ever opened: two are needed for a
  reconnect, three for the violation.
- Storage set-up: three faults (two can hit the set-up and its rollback, the
  third an attempt of the rollback after a failed one) and one reboot; the proof
  has no bound. Self update: two launches, three versions and two mishaps (a
  failed step, a kill), so that a launch can install beside, over or after
  another one. `RunFollowed` ends a behaviour at the first stolen lock, which
  the properties excuse. Control master: three processes and a stop, three
  masters. Token cache: two commands, two accounts, two sessions, two tries; the
  accounts are alike, so one command works for a chosen one. Transfer key: two
  copies, two keys of others.
- Warm pods: two runs, two pods, two calls each, a clock of two ticks, which is
  longer than the limit and the margins; `FewCalls` leaves out that both runs
  keep a pod for longer than their calls, and what follows a removal that did
  not reach the server. Background jobs: three processes over two numbers (a
  run, a stranger with its number, the next run) and one restart.
- Clusters: two ranks are enough for a cluster of which one member is missing,
  dead or unscheduled; the command line has `--ttl` and `--wait`, so that every
  step is taken. Members change only while the command is at a step that looks
  at them (`Followed`); requests of the order run at any time.
- Account keys: two processes, three commands, one of them cut short, after
  whatever an earlier signup and unsets have left; two accounts, two workspaces of
  one name. Signups and workspaces are two parts (`accounts`, `teams`): they meet
  only in the file, and to each the other is a command that sets another option.
- A provider's node: three runs (settings given, changed, and a repeat after a
  cut), two port settings, one claim or none. Registration: two runs; the
  constants are the code's in units of the poll's interval, made small in the same
  order (a wait of 5, a confirmation of 4 as in the code, two lookups for six).
  Blocking reasons: `RunFollowed` leaves at most two reasons at a node during one
  refresh, which is what the rule about too few ports counts.
- `lium up`: no end, `--ttl` or `--until`, each with no budget, one that is
  spent before the pod is ready, or one that is earlier or later than the end;
  with and without a volume and a build context. `UpHorizon` is past the
  timeout and, for a pod rented at once, past every end.
- Card top-up: three runs, within the 24 hours for which the API remembers a
  key, which allow a repeat of a repeat and a fresh key between two uses of an
  old one. `fund`: two runs, two subnets, two addresses, one unit of alpha; the
  world changes only while the command is at the prompt or between its last
  reads, which is where it matters.
- `rm`: two pods, two row numbers, one name that is no number, two changes of the
  world around the command (a listing counts as one), and eight command lines:
  one number, a number beside a name or twice beside an id, everything, with
  each way to agree. `OneRm` ends a behaviour with the command, since the next
  one starts from what any first one can start from.
- Readiness wait: the constants are the code's, made small in the same order;
  `Horizon` is past all of them.

Symmetry is used only in runs without liveness properties.

**Deadlock** is not checked (`CHECK_DEADLOCK FALSE`): calls are finite and the
bounded instances stop when every call has returned.

**Fairness.** `mcp_hand_over` (`FairSpec`): weak fairness of the server's own
steps (the reconciler retries while a rental is in its list, threads finish
what they began), and of the API's answers; the host, the user who cancels,
crashes and other clients are never fair. `pod_holders`: for the job only the
world is fair (`JobFairness`: time passes, the server carries out a removal
that is due, a removal that began ends) and the job itself is not, since it may
be killed; for the wait its own loop (`WaitFairness`), which is one thread that
nothing blocks, and not the pod or the API.

## Findings

Each violation run is a disagreement between a sentence of the repository and
the code; `PROJECT.json` quotes both under `findings`:

- `rental()` can delete an older pod when its second listing fails;
- the adoption of journals has a gap in which admission sees a rental nowhere;
- an `ssh_session` that ends while another thread reconnects pins the new
  connection;
- a bounded job that ends with "scheduled" while its pod deploys: the boot
  replaces the acknowledged end by a later one;
- a background job that ends between the two looks of a status probe is "gone",
  although its exit code is in the file; `wait()` then raises.

The models show further places where the code does not do what a sentence says.
No run of the project is about them; thirteen are stated as properties, and adding
the property to the cfg named gives the counterexample:

- `OnlyUnheardJournaled` (`MCMcpSessions.cfg`): the save of a delivery runs
  after the lock is released and brings back a journal that an acknowledgement
  removed (tools.py:681); a later process reports that rental again.
- `RecoveredPodIsKnown` (`MCMcpSessions.cfg`): `remove_pod` during a reconcile
  pass leaves a recovered rental without pods (tools.py:1136).
- `CallsAreCounted` (`MCSshPool.cfg` with `Owners <- SshThreads`): two threads
  that enter `ssh_session()` for one pod before either has listed its entry
  (client.py:3739, 3743) overwrite each other in the tables, and whichever block
  ends first gives back the use that is listed (client.py:3746-3749), not its own;
  a connection in use then counts as free and its idle timer runs, although the
  entry is to be "in use until the block ends" (client.py:3740).
- `SwappedAtomically` (`MCMachine.cfg`): a launch that read its layout before
  another one's update installs the live version over itself, and the link
  leads nowhere while the bundle is replaced; a crash leaves it so
  (self_update.py:430).
- `RunGetsItsWindow` (`MCWarmPods.cfg`): a pod is armed again after its set-up
  so that "the run gets its full window" (decorators.py:648). A function that
  found its pod by name (a visitor's) does not: the pod's owner removes it at the
  end of its `map()` (decorators.py:764) or process (decorators.py:473). Nor does
  the owner's, under a visitor whose call puts back the removal it found
  (decorators.py:729).
- `BillingPodIsNamed` (`MCPodHolders.cfg`): `lium up` says that every failure
  after the rent names the billing pod in `data` (command.py:800-803); the
  removal of a pod that started too late for its budget (command.py:889), and
  its lookup for SSH (command.py:1070), fail without that.
- `AlphaReachesLium` (`MCPodHolders.cfg`): `fund --alpha` resolves the address
  once, before the prompt, and quotes again after it; the second quote guards the
  subnet, not the address, so that an address which rotated while the prompt
  stood is still paid ("a rotated address can never silently send alpha into a
  black hole", actions.py:8).
- `OnlyWhatWasShown` (`MCPodHolders.cfg`): a row number can name a pod that the
  caller never saw (what utils.py:1188 refuses): the rows are stored before they
  are shown, so that a `ps` beside the command replaces them unseen, and a
  failure to store them is taken to be harmless (utils.py:1080) although the older
  rows stay in the file; and the file is found by the shell's process number,
  which is used again. `RemovalKeepsItsWord` speaks of a file that is what the
  screen shows. `lium rm all` on a terminal removes every pod without the
  question that `--all` asks, and a target given twice is reported as failed
  although it was removed.
- `PaysWhereItRents` (`MCMachine.cfg`): a signup saves the billing key and then
  the tag that binds it to its rent key (signup/actions.py:367). The tag of an
  earlier account survives the unsets that a second signup asks for; when the
  signup is cut short between the two, or another command reads the file there,
  and the earlier account's key is restored, that tag matches, and top-ups go to
  the second account while the first one rents ("one signup, one account",
  topup/command.py:66).
- `PortsOutliveACut` (`MCMachine.cfg`): a run of `lium mine` that is cut between
  the two writes of `.env` (mine.py:1261-1266) leaves the template's ports there,
  and the next run takes them for the settings "an earlier run wrote"
  (mine.py:1201).
- `ServesWhatIsRegistered` (`MCMachine.cfg`): under rentals a stale executor is
  not restarted and step 5 succeeds with the old one; `--register` then adds the
  node at the new port, which nothing serves until the rentals end.
- `NotInListWasRead` (`MCMachine.cfg`): "already in the portal but not in this
  account's node list" is also said when no lookup got an answer; only a rate
  limit is raised ("never read as 'not in the list'", mine_register.py:360).
- `StrictHasRead` (`MCMachine.cfg`): "--fail-on-blocked never exits 0 unless every
  source was read" (node.py:135); Ctrl-C by a person exits 0, without `--watch`
  too (node.py:275-279), where the help speaks of `--watch` only.
- The help of `lium mine` says that the port check is skipped where the executor
  runs (mine.py:1119-1123); the code exempts only the ports it publishes
  (mine.py:578-584). `OwnPortsFaulty` is what the help says, and breaks
  `NodeKeepsItsWord`.
- `PortalHTTP._request` turns network errors into `ProviderServerError`, which
  `with_retry` does not retry, although the comment there says so
  (portal_http.py:144).
- `node status` of another provider's node takes an overview that cannot hold it
  for one that was read (`node list` makes the difference, node.py:117).
- Two processes that write `config.ini` lose each other's options, the only login
  of an e-mail-less account among them (settings.py:69); `LoginIsKept` holds until
  a process has written over what it had not read.
- A launch that is turned away unlinks the holder's lock file when it leaves the
  `with` block (self_update.py:113). `UpdateIsSafe` and
  `NoDowngrade` hold until then (`stolen`).
- A transfer key whose grant was done but not answered stays authorized, and a
  private half placed without an answer stays on the source, without a warning
  (client.py:5104, 5050; "both halves are removed again whatever happened",
  client.py:5002). `KeysAreRight` speaks of answered grants.
- Two launchers of one job name that look at the same time both start it: the
  refusal of a second start (jobs.py:119) takes no lock. `NeverMistaken` excuses
  what follows (`overlapped`).

## Proofs

Proved with TLAPS for every value of the constants, from the assumptions the
modules name and no others. They say that owners, commands and placeholders are
distinct values (`ApiAssumption`, `KindAssumption`, `McpAssumption`,
`MuxAssumption`, `CacheAssumption`, `FundAssumption`, `MineAssumption`,
`UpAssumption`, `KeysAssumption`, `SshAssumption`), that a copy's key is nobody else's
(`CopyAssumption`), that bounds, limits and numbers of attempts are naturals,
positive where the code makes at least one (`SetupAssumption`, `CardAssumption`,
`RegisterAssumption`, `JobAssumption`, `UpdateAssumption`, `PodJobsAssumption`), that
a run may keep no pod warm (`WarmAssumption`), that a cluster has members
(`ClusterAssumption`), that the readiness wait's first two poll intervals are no
longer than `SlowPoll` (`ReadyAssumption`: constants in the code), and that the
pods are finitely many and no id is a row number or a plain name
(`RowsAssumption`). For the rent that is every set of calls and pods, every
number of requests per call (`MaxPosts >= 2`), and, where not said otherwise, an
API that honours the Idempotency-Key or ignores it.

| Module | Theorem | Says |
|---|---|---|
| `RentProofs` | `TypeCorrect` | `Spec => []TypeOK` (rent) |
| | `RefusedSafe` | `Spec => []RefusedRentedNothing` |
| | `CallRentsOnce` | `Spec => []OnePodPerCall` |
| | `ConfirmedIsOurs` | `Spec => []ConfirmedPodIsOurs` |
| | `NothingHidden` | `Spec => []NoPodUnreported` |
| | `ProtocolKeepsContract` | `ASSUME Idempotent PROVE Spec => ContractKept` |
| `McpProofs` | `LedgerTypes` | `Spec => []TypeOK` (MCP ledger) |
| | `UnheardStaysJournaled` | `Spec => []UnheardIsJournaled` |
| | `HeldStaysTracked` | `Spec => []HeldRentalIsTracked` |
| | `CancellationIsWritten` | `Spec => []CancellationReachesDisk` |
| | `ReservationsAreReceived` | `Spec => []ReservationHasReceiver` |
| | `NoRentIsDoubled` | `ASSUME MaxCrashes = 0 PROVE Spec => NoRentBesideUnsettled` |
| `CommandProofs` | `TopUpIsKept` | `CardSpec => []TopUpKeepsItsWord` |
| | `FundIsKept` | `FundSpec => []FundKeepsItsWord` |
| | `JobWordIsKept` | `JobSpec => []JobKeepsItsWord` |
| | `UpWordIsKept` | `UpSpec => []UpKeepsItsWord` |
| | `TimeoutStaysKept` | `ReadySpec => []TimeoutIsKept` |
| | `RemovalWordIsKept` | `TargetSpec => RemovalKeepsItsWord` |
| | `HolderTypes` | `HolderSpec => []HolderTypeOK` |
| `SharedFilesProofs` | `KeysStayRight` | `CopySpec => []KeysAreRight` |
| | `OneMasterPerSocket` | `MuxSpec => []MasterHasItsSocket` |
| | `SessionsStayKept` | `CacheSpec => []SessionsAreKept` |
| | `UpdateKeepsBoth` | `UpdateSpec => UpdateKeepsItsWord` |
| `MachineProofs` | `KeysStayHome` | `KeysSpec => []KeysLeadHome` |
| | `ClusterWordIsKept` | `ClustersSpec => []ClusterKeepsItsWord` |
| | `MachineTypes` | `MachineSpec => []MachineTypeOK` |
| `SshProofs` | `PoolTypes` | `Spec => []TypeOK` (SSH pool) |
| | `IdleStaysWatched` | `Spec => []IdleIsWatched` |
| | `KeptStays` | `Spec => KeptIsNotReplaced` |
| | `CallsStaySafe` | `ASSUME OneOwner PROVE Spec => []RunningCallsAreSafe` |
| `PodProofs` | `RunStaysCovered` | `WarmSpec => RunKeepsItsPod` |
| | `JobIsNeverMistaken` | `PodJobsSpec => NeverMistaken` |
| | `SharedTypes` | `SharedSpec => []SharedTypeOK` |
| `ProviderProofs` | `NodeWordIsKept` | `MineSpec => []NodeKeepsItsWord` |
| | `RegisterWordIsKept` | `RegisterSpec => []RegisterKeepsItsWord` |
| | `StatusWordIsKept` | `StatusSpec => []StatusKeepsItsWord` |
| | `DataIsKept` | `SetupSpec => []DataKept` |
| | `HostStaysWhole` | `SetupSpec => []HostIsLeftWhole` |

The safety properties are not inductive; each proof strengthens its own to an
invariant that is, which TLC checked on the run's instance before it was proved.

`RentProofs` strengthens the first three to `RentInv`: the types, the keys
(`OwnKeys`: no two calls have one in common; `KeysInUse`: the API knows no key
that no call sent), and one `CallInv(c)` per call, in five parts:

- `Carries`: every request of the call carries the key of its first one. It is
  this and `OwnKeys`, both the client's doing, that make the API's record of a key
  a record of the call; a repeat under a key of its own would rent a second pod.
- `Phase`: the place of the call tells how many requests have left, and
  requests leave in order; one that is beyond the count is unsent.
- `Record`: with a key, at most one request of the call runs, and only while
  the record is pending; the record is "refused" once a refusal was answered,
  and no pod exists while it is free, pending or refused.
- `Maker`: a pod comes from a request that ended well or with a lost answer.
- `Settled`: after a reported refusal the call is over and nothing can rent any
  more, since either all its requests were refused outright or the key's
  record is a refusal. This is what makes a refusal final although requests
  may run late: only a call that is not over, or that is in doubt, sends again.

`ReportInv` adds to it what the caller hears: an answer, stored or
given, names pods of its own call (`Named`), what was told follows from where
the call is (`Told`), a pod given is the call's own or a stranger's that the
lookup by name took for it (`Given`), and listed pods exist. From that follow
the next theorems; the refinement maps a pod being made to `RentPod`
(`RunningInDoubt`: a request that runs belongs to a caller still in doubt), and
each call step to a stutter, `SayUnknown`, `SayRefused` or `GivePod` (`Kinds`).

`McpProofs` has one invariant, `McpInv`, for five properties, because they lean
on each other. Its parts, per rental and per call:

- `OwnersInv`: what a process has in memory is of its own calls; a call that is
  idle has no process.
- `Journaled`: a journal is locked by the process that has the rental, and an
  object that could be sent, or whose answer is unknown, can be written again.
- `Before`, `Under`, `After`: for each place of a call, which list has its
  rental, whether it is on disk, and what its object says. In particular the
  journal is there from before the request to after the answer (`Under`).
- `Honest`: what the object says is what the API did: a rental is "rejected"
  only if it never can rent, and a pass decides "done" only of one that bills
  no more. With it no journal is forgotten early (`Heard`).
- `Cancelled`: a cancelled object is on disk cancelled, or a save that will say
  so is under way; the saves are of the whole object, so that the last one wins.
- `OnePlace` and `ReceiversInv`: a rental has one place at a time, and what is
  reserved is in the hands of one call that has returned.

`NoRentIsDoubled` needs `AdmissionInv` besides: no rental is an orphan, who is
being admitted holds the door, and of two rentals one at most is between its
admission and its request, the other being settled or known to the host
(`NoRival`). The assumption that no process stops cannot be dropped. The run
`mcp_adoption_gap` shows a journal that a crash left and another process has
claimed but not listed yet. TLC found a second way while the invariant was looked for: a rental
that was rejected before its request, and cancelled, has its journal removed by
the call and written once more by the loop's save; a crash leaves it an orphan,
whose replay may rent.

Of the storage set-up, `ProviderProofs` strengthens `DataKept` to `DataInv`:
where the commit point lies, that the target is full once the restored data was
checked, and that before the backup nothing is mounted over a root which is not
a mount of its own. The lemmas say what Docker's start, a command cut short and a command of
the rollback leave of the copies; each stage is then a step of one of few kinds.
`HostIsLeftWhole` needs `HostInv` on top of it, one lemma per part and in it one
step per action: which roots there are at each stage, and where a renamed one is
(`RootsKept`, `RootRenamed`); whether the new filesystem is on the root, and that
the rollback takes it for unmounted only when it is (`TargetMounted`); that what
the rollback calls restored is the old root with its data (`RestoredIsBack`); how
far the configuration is written (`ConfigIsWritten`); that a boot finds the data,
by the old configuration or the new one, or else finds the unit masked
(`BootIsSafe`, `MaskHolds`); and that a rollback with no error to report has done
each of its steps so far (`SilentSoFar`).

`CommandProofs` adds to the exits of `topup card` that every key but the one in
use is dead (its payment failed, or nothing was ever charged under it and no
request travels) and that a key which was not typed is known to one run only; so
a fresh key is taken only when the old one can charge no more. For `fund` it adds
that only the present run can have a transfer, since every exit that lets the
payer run the command again lies before the signature, and that `target` is what
was agreed to from the prompt on. Of a bounded job, an acknowledged removal
stands but for a boot that came later (`AcknowledgedStands`), and a pod that was
ready does not boot again. Of `lium up`, the server has the plan of the step
where the command is (`PlanIs`).

Of the readiness wait, `WaitInv` says how far past the timeout the clock can be
at each place of the loop (`RoundIsShort`): a listing is asked for only before
the timeout, so that its answer is one request late at most, and a probe of the
port only less than one `PortPoll` after it. The back-off that follows a 429 is
cut to what is left of the timeout, whatever Retry-After said; the sleep after a
listing and the one between two probes are not cut. This is where the bound of
one request and one poll comes from. A wait that ends with a `PodStartError` has
asked for the pod's events first, after its time was up if need be, and may take
one request more (`CauseTime`).

Of `lium rm`, `RowsInv`: the plan is made once, of pods that were listed
(`PlanIsListed`); only pods of it are touched, and of each that was tried it is
known what became of it (`TriedAreTouched`); nothing is tried before it was
agreed to (`ActsAgreed`), and an exit is reported of a plan that is done
(`ExitIsDone`). What a row number means is said of the step that makes the plan:
if the stored rows are those on the screen, the pod that a number names is the
one the reader saw there (`PlanMeans`).

`SharedFilesProofs` has the files that processes change at once:

- Copies: `CopyPhase` (which command a call can have on the destination, and
  whether it was answered), `OwnKey` (its key is there until the revoke is sent,
  gone once it ended well) and `RevokeRead` (what a revoke has read is the file
  but for its own key and what others appended since, and no other revoke is
  between read and write). `RevokeRead` is what makes the write-back harmless,
  and holds because of the lock.
- The control master: who is past the second look found no master and starts its
  own at an empty path (`PathIsFree`), and a master that connects has a starter
  that waits for it (`StarterWaits`); both only until a process is killed.
- The token cache: what a process will write differs from the file by its own
  entry (`CopyIsCurrent`), and the session in its hands was not ended before it
  began (`InHand`).
- The update: who updates has the lock, installs something newer than what is
  live, and staged it whole, all while the lock has not been stolen. `NoDowngrade`
  is an action property and follows from `InstallsNewer`.

Of the keys, `MachineProofs` has one invariant of what a command that is under
way knows of its own view of `config.ini`, by the steps it has left (`Knows`): a
command that is to bind a billing key has saved the key of the account it works for, one that
is to save a workspace's key has saved its id. A billing key has its tag in the
file and in every view, but in the moment between its two saves
(`BillingIsBound`), and only until one was left or read there (`halfBound`). A
section holds the key of the workspace it names (`OneSection`), in the file and
in every view, which is why writing over another's view never mixes two.

Of a cluster order, one request at most ran, since the record of the key follows
the requests (`OneRuns`, `KeyIsRecord`), and a cluster that is not known is not
the older one (`OlderIsKnown`), which makes the handed-back cluster new.

`MachineTypes` and `HolderTypes` are of the compositions: a step is of one part
and leaves the others as they are, and each part's types follow from an
invariant of its own. Two of these say more than a type. The types of the storage
set-up need that the new filesystem is made before anything mounts it, and that
its image file goes only once nothing does (`TargetIsThere`); those of the keys,
that a login which is saved, or is going to be, is of an account that there is
(`LoginsAreReal`).

`SshProofs` has two invariants. `PoolInv`, for the first three theorems: what a
thread, the tables or a close refer to has been opened (`References`), what a
thread is about to use it has read (`Reads`), who connects has the connect lock
and found nothing kept (`Connecting`), and an unused entry has a timer that is
armed, or one that has fired and not yet taken it out (`Watched`). `CountInv`
adds to it that an entry's users are at least its running calls, the session
that is listed on it, and the block whose entry the tables name no longer
(`LeftBehind`), and that the idle expiry took out only what nobody uses or has
read (`Expired`). The count holds as long as one thread opens `ssh_session()`
blocks (`OneOwner`; any number may call): of two blocks each could be the one
that the tables forget, and TLC shows that they do (`CallsAreCounted` under
Findings).

In `PodProofs`, of `@machine`, `WarmInv`: a pod that a call uses or a run keeps
was made (`PodsAreMade`); two calls on one pod are known as such (`TwoAreShared`); what a
call or a run owns it rented, or it is gone (`OwnsAreRented`), which is why the
ends of a call, a `map()` and a process remove nothing of another run; and a
removal that a call has just set is a whole window away, since the schedule is
sent after the window is known and only another call on the pod moves it
(`ArmedIsWhole`, `RunIsCovered`). A pod that a call has rented, and that is still
its own to remove, is nobody else's (`NewIsAlone`): a failed boot or the end of a
call takes no other function's pod. What does take a pod from under a function is
named in `MayTake`, and `TakenOnlyByThese` says that nothing else does; that the
owner of a pod which a visitor found is among it is what the code does
(`RunGetsItsWindow` under Findings). That a run without `keep_warm` has the
warmth 0 is part of `WarmAssumption`.

Of background jobs, `JobsInv`: a number in the hands of a launcher, a caller or
the `.pid` file is the run's own for as long as that run lives (`NumbersAreOwn`),
and only a run's number gets into an `.id` file, so that nothing else is signalled
(`SignalledAreRuns`). Until two launchers were past their check together, one
launches at a time (`OneLauncher`), it found no run and starts the last one
(`LauncherIsAlone`, `OneLives`), the files name the run that lives once nobody
launches (`FilesNameIt`), and the exit code is the last run's (`ExitIsOfNewest`).

`ProviderProofs`: `lium mine` restarts nothing under a rental it has seen, and a
port that is held was taken after the check (`RestartIsDue`, `SparedIsSeen`,
`HeldWasTaken`); an OFFLINE that is waited on was read after every other status
(`OfflineSinceOther`); what a refresh has read lies between what stood all
through it and what was ever there (`ReadIsBetween`).

Every invariant and every action property of the passing runs is stated by a
theorem; so is `TimeoutIsKept`, the safety half of `WaitKeepsItsTimeout`. Out of
the prover's reach, and left to TLC, is liveness under fairness:
`RunningPodGoes`, `CancelledPodGoes`, and `WaitEnds` in `WaitKeepsItsTimeout`.

## Not modelled

`PROJECT.json` gives the reason per component. In the modelled parts: node and
template selection before a rent, the text of requests and reports, the kept
SFTP session, `LIUM_SSH_REUSE=0`, Windows variants of the file locks, asset
names and checksums of an update, the preflight checks of the storage set-up (one
refusal), `run_local` and the runner script of `@machine`, `wait()` and
`wait_for_port()` of a job (loops over the same probe), a pod that restarts
while `authorized_keys` is written and Ctrl-C in `lium up`; `transfer_credits`, stablecoin
invoices and checkout links (the payment is made elsewhere), a card key older
than 24 hours; `lium exec` on remembered pods and the other commands that take
a target (they resolve it as `rm` does); keys in the environment, `config reset` and
`config edit`; the hotkey in `.env` (it is not among the values whose change
restarts an executor, mine.py:641) and a write of `.env` that is cut in its middle; the provider
commands that make one request. A generated key is lost when Ctrl-C hits the POST of a card
top-up; the model's payer stops there. Bills that lower the balance while a top-up waits
for its credit (client.py:6211) and rents that a caller repeats under an
`idempotency_key` of its own are not modelled. A release that is withdrawn, so that the
latest version goes back, is not modelled: `NoDowngrade` relies on that.

The rest of the code (most of `lium/cli` and `lium/provider`, the larger part of
`client.py`) parses arguments, formats tables, or makes one request per
operation; it keeps no state between steps that a model could get wrong.

## Plan

1. `cap_spend` and `transfer_credits`, the choice of a storage target, and the
   version arithmetic of the release scripts.
2. The parts that keep little state but make up most of the code, as far as one
   of them does more than one request: the provider client and
   `cli/mine/storage.py`.
