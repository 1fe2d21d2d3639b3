------------------------------- MODULE SshMux -------------------------------
(***************************************************************************)
(* One OpenSSH control master per pod (src/lium/sdk/ssh_mux.py): `lium     *)
(* exec` processes that check, start and use it, beside processes that     *)
(* stop it.  A master is an `ssh` process; it owns the control socket it   *)
(* created, and may exit when idle, when told to, or without cleaning up.  *)
(***************************************************************************)
EXTENDS Integers, FiniteSets

CONSTANTS
  Execs,      \* processes that run a command on the pod
  Stoppers,   \* processes that close the pod's master
  MaxMasters, \* bound: masters ever started, 1..MaxMasters
  NoExec      \* nobody

ASSUME MuxAssumption ==
  MaxMasters \in Nat /\ NoExec \notin Execs /\ Execs \cap Stoppers = {}

VARIABLES
  socket,  \* the master whose control socket is at the path; 0 when there is none
  master,  \* each master: unborn, connecting, up, plain (no multiplexing), gone
  starter, \* the process that holds the flock of <path>.lock
  step,    \* each process's next step
  on,      \* the master a process starts, or runs its command on
  killed   \* history: a process was killed while its ssh was connecting

muxVars == <<socket, master, starter, step, on, killed>>

Masters == 1..MaxMasters
Up(m) == m # 0 /\ master[m] = "up"
Begun == {m \in Masters : master[m] # "unborn"}

(* With: nobody connects without the lock, or its process is gone.         *)
MuxTypeOK ==
  /\ socket \in 0..MaxMasters
  /\ master \in [Masters -> {"unborn", "connecting", "up", "plain", "gone"}]
  /\ starter \in Execs \cup {NoExec}
  /\ step \in [Execs \cup Stoppers ->
                 {"check", "lock", "recheck", "unlink", "launch", "connect", "use", "running",
                  "ask", "glob", "ok", "lost", "status", "failed", "killed"}]
  /\ on \in [Execs \cup Stoppers -> 0..MaxMasters]
  /\ killed \in BOOLEAN
  /\ \A e \in Execs : step[e] \in {"recheck", "unlink", "launch", "connect"} => starter = e

MuxInit ==
  /\ socket = 0 /\ master = [m \in Masters |-> "unborn"] /\ starter = NoExec
  /\ step = [p \in Execs \cup Stoppers |-> IF p \in Execs THEN "check" ELSE "glob"]
  /\ on = [p \in Execs \cup Stoppers |-> 0] /\ killed = FALSE

Moves(p, from, to) == step[p] = from /\ step' = [step EXCEPT ![p] = to]

(* ControlMaster.ensure: `ssh -O check` at the socket.                     *)
CheckMaster(e) ==
  /\ Moves(e, "check", IF Up(socket) THEN "use" ELSE "lock")
  /\ UNCHANGED <<socket, master, starter, on, killed>>

(* ControlMaster.start: one starter at a time, and the next one looks      *)
(* again.  Faulty: without the second look.                                *)
LockStart(e) ==
  /\ Moves(e, "lock", "recheck") /\ starter = NoExec /\ starter' = e
  /\ UNCHANGED <<socket, master, on, killed>>

RecheckFaulty(e) ==
  /\ Moves(e, "recheck", "unlink")
  /\ UNCHANGED <<socket, master, starter, on, killed>>
Recheck(e) ==
  /\ Moves(e, "recheck", IF Up(socket) THEN "use" ELSE "unlink")
  /\ starter' = IF Up(socket) THEN NoExec ELSE starter
  /\ UNCHANGED <<socket, master, on, killed>>

(* _start_locked: what is at the path is no master that answers.           *)
UnlinkSocket(e) ==
  /\ Moves(e, "unlink", "launch") /\ socket' = 0
  /\ UNCHANGED <<master, starter, on, killed>>

Launch(e) ==
  \E m \in Masters \ Begun :
    /\ Moves(e, "launch", "connect") /\ \A k \in 1..(m - 1) : k \in Begun
    /\ master' = [master EXCEPT ![m] = "connecting"] /\ on' = [on EXCEPT ![e] = m]
    /\ UNCHANGED <<socket, starter, killed>>

(* ssh is authenticated and binds the socket; where one is in its way, it  *)
(* stays up without multiplexing.                                          *)
Bind(m) ==
  /\ socket' = IF socket = 0 THEN m ELSE socket
  /\ master' = [master EXCEPT ![m] = IF socket = 0 THEN "up" ELSE "plain"]

Connect(e) ==
  /\ Moves(e, "connect", "use") /\ Bind(on[e]) /\ starter' = NoExec
  /\ UNCHANGED <<on, killed>>

ConnectFails(e) ==
  /\ Moves(e, "connect", "failed") /\ master' = [master EXCEPT ![on[e]] = "gone"]
  /\ starter' = NoExec /\ UNCHANGED <<socket, on, killed>>

(* ControlMaster.run: a new channel on the master at the path; without one *)
(* ssh connects for itself (ControlMaster=no).                             *)
RunCommand(e) ==
  /\ Moves(e, "use", "running") /\ on' = [on EXCEPT ![e] = IF Up(socket) THEN socket ELSE 0]
  /\ UNCHANGED <<socket, master, starter, killed>>

CommandEnds(e) ==
  /\ Moves(e, "running", "ok") /\ (on[e] = 0 \/ Up(on[e]))
  /\ UNCHANGED <<socket, master, starter, on, killed>>

(* Exit status 255: the command's own, or ssh's with the connection gone.  *)
Status255(e) ==
  /\ Moves(e, "running", "ask")
  /\ UNCHANGED <<socket, master, starter, on, killed>>

(* exec_over_master asks whether the master is up.                         *)
AskMaster(e) ==
  /\ Moves(e, "ask", IF Up(socket) THEN "status" ELSE "lost")
  /\ UNCHANGED <<socket, master, starter, on, killed>>

-----------------------------------------------------------------------------
(* What ends a master: it removes the socket at its path as it exits.      *)
Exits(m) ==
  /\ master' = [master EXCEPT ![m] = "gone"]
  /\ socket' = IF socket = m THEN 0 ELSE socket

(* ControlMaster.stop: `ssh -O exit` to every socket of the pod.           *)
StopMaster(p) ==
  /\ Moves(p, "glob", "ok")
  /\ IF Up(socket) THEN Exits(socket) ELSE UNCHANGED <<socket, master>>
  /\ UNCHANGED <<starter, on, killed>>

(* ControlPersist, while no command runs on it.                            *)
MasterIdles(m) ==
  /\ Up(m) /\ Exits(m) /\ \A e \in Execs : step[e] = "running" => on[e] # m
  /\ UNCHANGED <<starter, step, on, killed>>

(* The connection drops, or the master is killed and leaves its socket.    *)
MasterDies(m) ==
  /\ Up(m)
  /\ \/ Exits(m)
     \/ master' = [master EXCEPT ![m] = "gone"] /\ UNCHANGED socket
  /\ UNCHANGED <<starter, step, on, killed>>

(* A process is killed: its flock goes with it, its ssh does not.          *)
ExecKilled(e) ==
  /\ step[e] \notin {"ok", "lost", "status", "failed", "killed"}
  /\ step' = [step EXCEPT ![e] = "killed"]
  /\ starter' = IF starter = e THEN NoExec ELSE starter
  /\ killed' = (killed \/ step[e] = "connect")
  /\ UNCHANGED <<socket, master, on>>

Abandoned(m) ==
  /\ master[m] = "connecting" /\ \E e \in Execs : step[e] = "killed" /\ on[e] = m
  /\ Bind(m) /\ UNCHANGED <<starter, step, on, killed>>

MuxNext ==
  \/ \E e \in Execs :
       \/ CheckMaster(e) \/ LockStart(e) \/ Recheck(e) \/ UnlinkSocket(e) \/ Launch(e)
       \/ Connect(e) \/ ConnectFails(e) \/ RunCommand(e) \/ CommandEnds(e)
       \/ Status255(e) \/ AskMaster(e) \/ ExecKilled(e)
  \/ \E p \in Stoppers : StopMaster(p)
  \/ \E m \in Masters : MasterIdles(m) \/ MasterDies(m) \/ Abandoned(m)

MuxSpec == MuxInit /\ [][MuxNext]_muxVars

-----------------------------------------------------------------------------
(* Every connection that stays up has the control socket, so that the next *)
(* command finds it and stop() reaches it ("the loser's ssh would find the *)
(* socket taken, drop multiplexing and stay up as a plain connection       *)
(* nothing ever closes"), unless a process was killed while it connected.  *)
MasterHasItsSocket ==
  ~killed => \A m \in Masters : master[m] \in {"up", "plain"} => master[m] = "up" /\ socket = m
=============================================================================
