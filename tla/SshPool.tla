-------------------------------- MODULE SshPool --------------------------------
(***************************************************************************)
(* The SSH connections one Lium client keeps between calls to a pod        *)
(* (src/lium/sdk/_ssh_reuse.py, client.py: _pooled_connection ... _sftp):  *)
(* threads that run calls (exec, stream_exec, upload, download) and        *)
(* ssh_session() blocks on one pod, and the idle timers.                   *)
(*                                                                         *)
(* A connection is a number; opening a new one takes the next.  Locked     *)
(* sections are one step, unlocked reads and writes of the session tables  *)
(* are steps of their own.                                                 *)
(***************************************************************************)
EXTENDS Integers, FiniteSets

CONSTANTS
  Threads,    \* threads that share the client
  Owners,     \* those that also open ssh_session() blocks
  MaxConns    \* bound: connections opened in one behaviour

ASSUME SshAssumption == Owners \subseteq Threads /\ 0 \notin Threads /\ MaxConns \in Nat

Conns == 1..MaxConns
None == 0
MaybeConn == Conns \cup {None}

VARIABLES
  conn,        \* "unused", "open", "dead" (transport down), "closed"
  carrier,     \* the connection an entry's client really is (ssh_connection
               \* hands a session's client to whoever connects meanwhile)
  kind,        \* "kept"; "own": for one call; "private": not an entry at all
  users,       \* PooledConnection.users
  idle,        \* entries whose last use ended IDLE_SECONDS ago
  armed,       \* entries with a timer
  fired,       \* entries whose timer runs _expire, before its locks
  expiring,    \* entries _expire took out of the pool and is about to close
  pool,        \* _ssh_pool[key]
  taking,      \* holder of the pool lock, between usable() and acquire()
  connecting,  \* holder of _ssh_connecting[key]
  closing,     \* what close_pool has listed and not closed
  sessClient,  \* _ssh_sessions[pod]
  sessEntry,   \* _ssh_session_entries[pod]
  pc, use, seen,   \* per thread: where, the entry it runs on, one it has read
  again,       \* second attempt of _on_kept_connection
  mine,        \* in_session
  wants,       \* "call" or "session"
  block,       \* "none", "in" an ssh_session, or "nested" in another's
  local        \* the block's own `entry`, or its private connection

connVars == <<conn, carrier, kind>>
useVars == <<users, idle, armed>>
timerVars == <<fired, expiring>>
sessVars == <<sessClient, sessEntry>>
threadVars == <<use, seen, again, mine, wants, block, local>>
vars == <<connVars, useVars, timerVars, taking, pool, connecting, closing, sessVars, pc, threadVars>>

TypeOK ==
  /\ conn \in [Conns -> {"unused", "open", "dead", "closed"}]
  /\ carrier \in [Conns -> Conns]
  /\ kind \in [Conns -> {"kept", "own", "private"}]
  /\ users \in [Conns -> Nat]
  /\ idle \subseteq Conns /\ armed \subseteq Conns /\ fired \subseteq Conns
  /\ expiring \subseteq Conns
  /\ pool \in MaybeConn /\ closing \in MaybeConn
  /\ connecting \in Threads \cup {None} /\ taking \in Threads \cup {None}
  /\ sessClient \in MaybeConn /\ sessEntry \in MaybeConn
  /\ pc \in [Threads -> {"base", "held", "borrowed", "use", "take", "lock", "retake",
                         "connect", "enter", "nest", "open", "own", "run", "drop",
                         "shut", "check", "unlist", "join"}]
  /\ use \in [Threads -> MaybeConn] /\ seen \in [Threads -> MaybeConn]
  /\ again \in [Threads -> BOOLEAN] /\ mine \in [Threads -> BOOLEAN]
  /\ wants \in [Threads -> {"call", "session"}]
  /\ block \in [Threads -> {"none", "in", "nested"}]
  /\ local \in [Threads -> MaybeConn]
  /\ \A t \in Threads : pc[t] \in {"open", "run", "join", "enter"} => use[t] # None

Init ==
  /\ conn = [e \in Conns |-> "unused"] /\ carrier = [e \in Conns |-> e]
  /\ kind = [e \in Conns |-> "kept"] /\ users = [e \in Conns |-> 0]
  /\ idle = {} /\ armed = {} /\ fired = {} /\ expiring = {}
  /\ pool = None /\ connecting = None /\ taking = None /\ closing = None
  /\ sessClient = None /\ sessEntry = None
  /\ pc = [t \in Threads |-> "base"]
  /\ use = [t \in Threads |-> None] /\ seen = [t \in Threads |-> None]
  /\ again = [t \in Threads |-> FALSE] /\ mine = [t \in Threads |-> FALSE]
  /\ wants = [t \in Threads |-> "call"]
  /\ block = [t \in Threads |-> "none"] /\ local = [t \in Threads |-> None]

Set(f, t, v) == [f EXCEPT ![t] = v]
Goto(t, label) == pc' = Set(pc, t, label)

Alive(e) == conn[carrier[e]] = "open"
Usable(e) == Alive(e) /\ (users[e] > 0 \/ e \notin idle)
KeptUsable == pool # None /\ Usable(pool)

(* PooledConnection.acquire, release, close.                               *)
Acquire(e) ==
  /\ users' = [users EXCEPT ![e] = @ + 1]
  /\ armed' = armed \ {e}
  /\ UNCHANGED idle

(* Faulty: nothing wakes the idle connection.                              *)
ReleaseFaulty(e) ==
  /\ users' = [users EXCEPT ![e] = IF @ = 0 THEN 0 ELSE @ - 1]
  /\ idle' = idle \ {e}
  /\ UNCHANGED armed

Release(e) ==
  /\ users' = [users EXCEPT ![e] = IF @ = 0 THEN 0 ELSE @ - 1]
  /\ idle' = idle \ {e}
  /\ armed' = IF users[e] <= 1 THEN armed \cup {e} ELSE armed

(* Closing an entry ends its own connection, never one it was lent.        *)
Shut(es) == conn' = [e \in Conns |-> IF e \in es THEN "closed" ELSE conn[e]]
Close(e) == Shut({e}) /\ armed' = armed \ {e}

(* ssh_connection(): the client of an open session, else a new one.        *)
Fresh == {e \in Conns : conn[e] = "unused" /\ \A d \in 1..(e - 1) : conn[d] # "unused"}
NewConnection(e, as) ==
  /\ conn' = Set(conn, e, "open")
  /\ carrier' = Set(carrier, e, IF sessClient = None THEN e ELSE sessClient)
  /\ kind' = Set(kind, e, as)

(***************************************************************************)
(* Calls: _remote_command and _sftp.                                       *)
(***************************************************************************)

(* The session's entry is read first, its client second, without a lock.   *)
Begin(t) ==
  /\ pc[t] = "base"
  /\ seen' = Set(seen, t, sessEntry)
  /\ wants' = Set(wants, t, "call")
  /\ Goto(t, "held")
  /\ UNCHANGED <<taking, connVars, useVars, timerVars, pool, connecting, closing, sessVars,
                 use, again, mine, block, local>>

(* A client without an entry is used as it is, and not counted as a user.  *)
ReadHeld(t) ==
  /\ pc[t] = "held"
  /\ Goto(t, IF seen[t] # None THEN "use" ELSE IF sessClient # None THEN "borrowed" ELSE "take")
  /\ UNCHANGED <<taking, connVars, useVars, timerVars, pool, connecting, closing, sessVars, threadVars>>

EndBorrowed(t) ==
  /\ pc[t] = "borrowed"
  /\ Goto(t, "base")
  /\ UNCHANGED <<taking, connVars, useVars, timerVars, pool, connecting, closing, sessVars, threadVars>>

(* _use(): the session's entry.                                            *)
UseSession(t) ==
  /\ pc[t] = "use"
  /\ Acquire(seen[t])
  /\ use' = Set(use, t, seen[t]) /\ seen' = Set(seen, t, None)
  /\ Goto(t, "open")
  /\ UNCHANGED <<taking, connVars, timerVars, pool, connecting, closing, sessVars,
                 again, mine, wants, block, local>>

(* _pooled_connection(): take_kept, then again under the connect lock, and *)
(* only then a new connection.                                             *)
AfterTake(t) == IF wants[t] = "session" THEN "enter" ELSE IF mine[t] THEN "join" ELSE "open"

(* usable() and acquire() are one section under the pool lock, but the     *)
(* clock and the timers run on in between.                                 *)
CheckKept(t) ==
  /\ pc[t] \in {"take", "retake"} /\ KeptUsable /\ taking = None
  /\ taking' = t
  /\ seen' = Set(seen, t, pool)
  /\ UNCHANGED <<connVars, useVars, timerVars, pool, connecting, closing, sessVars, pc,
                 use, again, mine, wants, block, local>>

Took(t) ==
  /\ taking' = None
  /\ use' = Set(use, t, seen[t]) /\ seen' = Set(seen, t, None)
  /\ connecting' = IF connecting = t THEN None ELSE connecting
  /\ Goto(t, AfterTake(t))

(* Faulty: the kept connection is handed out without being marked in use.  *)
TakeKeptFaulty(t) ==
  /\ taking = t
  /\ Took(t)
  /\ UNCHANGED <<connVars, useVars, timerVars, pool, closing, sessVars,
                 again, mine, wants, block, local>>

TakeKept(t) ==
  /\ taking = t
  /\ Acquire(seen[t])
  /\ Took(t)
  /\ UNCHANGED <<connVars, timerVars, pool, closing, sessVars,
                 again, mine, wants, block, local>>

NoneKept(t) ==
  /\ pc[t] \in {"take", "retake"} /\ ~KeptUsable /\ taking = None
  /\ pool' = None
  /\ IF pool = None THEN UNCHANGED <<conn, armed>> ELSE Close(pool)
  /\ Goto(t, IF pc[t] = "take" THEN "lock" ELSE "connect")
  /\ UNCHANGED <<taking, carrier, kind, users, idle, timerVars, connecting, closing, sessVars, threadVars>>

(* Faulty: calls that start together connect each on its own.              *)
LockConnectFaulty(t) ==
  /\ pc[t] = "lock"
  /\ Goto(t, "connect")
  /\ UNCHANGED <<taking, connVars, useVars, timerVars, pool, connecting, closing, sessVars, threadVars>>

LockConnect(t) ==
  /\ pc[t] = "lock" /\ connecting = None
  /\ connecting' = t
  /\ Goto(t, "retake")
  /\ UNCHANGED <<taking, connVars, useVars, timerVars, pool, closing, sessVars, threadVars>>

Connect(t) ==
  /\ pc[t] = "connect" /\ taking = None
  /\ \E e \in Fresh :
        /\ NewConnection(e, "kept")
        /\ users' = Set(users, e, 1)
        /\ pool' = e
        /\ use' = Set(use, t, e)
  /\ connecting' = None
  /\ Goto(t, AfterTake(t))
  /\ UNCHANGED <<taking, idle, armed, timerVars, closing, sessVars, seen, again, mine, wants, block, local>>

(* Faulty: the failure is swallowed, and the call goes on without an entry.*)
ConnectFailsFaulty(t) ==
  /\ pc[t] = "connect"
  /\ connecting' = None
  /\ Goto(t, AfterTake(t))
  /\ UNCHANGED <<taking, connVars, useVars, timerVars, pool, closing, sessVars, threadVars>>

(* The call, or ssh_session(), raises.                                     *)
ConnectFails(t) ==
  /\ pc[t] = "connect"
  /\ connecting' = None
  /\ again' = Set(again, t, FALSE) /\ mine' = Set(mine, t, FALSE)
  /\ Goto(t, "base")
  /\ UNCHANGED <<taking, connVars, useVars, timerVars, pool, closing, sessVars,
                 use, seen, wants, block, local>>

(* A channel opens on the entry, at the first or the second attempt.       *)
OpenChannel(t) ==
  /\ pc[t] = "open" /\ Alive(use[t])
  /\ again' = Set(again, t, FALSE) /\ mine' = Set(mine, t, FALSE)
  /\ Goto(t, "run")
  /\ UNCHANGED <<taking, connVars, useVars, timerVars, pool, connecting, closing, sessVars,
                 use, seen, wants, block, local>>

(* ChannelException on a connection that is fine: outside a session the    *)
(* call goes on with a connection of its own.                              *)
Refused(t) ==
  /\ pc[t] = "open" /\ ~again[t] /\ Alive(use[t])
  /\ Release(use[t])
  /\ use' = Set(use, t, None)
  /\ Goto(t, IF sessEntry = use[t] THEN "base" ELSE "own")
  /\ UNCHANGED <<taking, connVars, timerVars, pool, connecting, closing, sessVars,
                 seen, again, mine, wants, block, local>>

OpenOwn(t) ==
  /\ pc[t] = "own"
  /\ \/ \E e \in Fresh :
           /\ NewConnection(e, "own")
           /\ users' = Set(users, e, 1)
           /\ use' = Set(use, t, e)
        /\ Goto(t, "run")
     \/ UNCHANGED <<connVars, users, use>> /\ Goto(t, "base")
  /\ UNCHANGED <<taking, idle, armed, timerVars, pool, connecting, closing, sessVars,
                 seen, again, mine, wants, block, local>>

(* Any other failure: the first time the entry is written off and the call *)
(* connects again; the second time, or when interrupted, it raises.        *)
OpenFails(t) ==
  /\ pc[t] = "open"
  /\ Release(use[t])
  /\ \/ ~again[t] /\ seen' = Set(seen, t, use[t]) /\ Goto(t, "drop") /\ UNCHANGED <<again, mine>>
     \/ /\ again' = Set(again, t, FALSE) /\ mine' = Set(mine, t, FALSE)
        /\ Goto(t, "base") /\ UNCHANGED seen
  /\ use' = Set(use, t, None)
  /\ UNCHANGED <<taking, connVars, timerVars, pool, connecting, closing, sessVars,
                 wants, block, local>>

(* _drop_pooled(pod, entry), when an attempt or a call found it dead.      *)
Drop(t) ==
  /\ pc[t] \in {"drop", "shut"} /\ taking = None
  /\ IF pool = seen[t] THEN pool' = None /\ Close(seen[t]) ELSE UNCHANGED <<pool, conn, armed>>
  /\ IF pc[t] = "drop" THEN Goto(t, "check") /\ UNCHANGED seen
     ELSE Goto(t, "base") /\ seen' = Set(seen, t, None)
  /\ UNCHANGED <<taking, carrier, kind, users, idle, timerVars, connecting, closing, sessVars,
                 use, again, mine, wants, block, local>>

(* in_session is read, and the session's tables are cleared after that.    *)
CheckSession(t) ==
  /\ pc[t] = "check"
  /\ mine' = Set(mine, t, sessEntry = seen[t])
  /\ again' = Set(again, t, TRUE) /\ seen' = Set(seen, t, None)
  /\ Goto(t, IF sessEntry = seen[t] THEN "unlist" ELSE "take")
  /\ UNCHANGED <<taking, connVars, useVars, timerVars, pool, connecting, closing, sessVars,
                 use, wants, block, local>>

Unlist(t) ==
  /\ pc[t] = "unlist"
  /\ sessEntry' = None /\ sessClient' = None
  /\ Goto(t, "take")
  /\ UNCHANGED <<taking, connVars, useVars, timerVars, pool, connecting, closing, threadVars>>

(* "the block moves over too, with its own use".                           *)
Join(t) ==
  /\ pc[t] = "join"
  /\ Acquire(use[t])
  /\ sessEntry' = use[t] /\ sessClient' = carrier[use[t]]
  /\ Goto(t, "open")
  /\ UNCHANGED <<taking, connVars, timerVars, pool, connecting, closing, threadVars>>

(* _done_with(): the call is over.                                         *)
Done(t) ==
  /\ pc[t] = "run"
  /\ users' = [users EXCEPT ![use[t]] = IF @ = 0 THEN 0 ELSE @ - 1]
  /\ idle' = idle \ {use[t]}
  /\ use' = Set(use, t, None)
  /\ IF kind[use[t]] = "own" THEN
          Shut({use[t]}) /\ armed' = armed \ {use[t]} /\ Goto(t, "base") /\ UNCHANGED seen
     ELSE /\ armed' = IF users[use[t]] <= 1 THEN armed \cup {use[t]} ELSE armed
          /\ IF Alive(use[t]) THEN Goto(t, "base") /\ UNCHANGED seen
             ELSE Goto(t, "shut") /\ seen' = Set(seen, t, use[t])
          /\ UNCHANGED conn
  /\ UNCHANGED <<taking, carrier, kind, timerVars, pool, connecting, closing, sessVars,
                 again, mine, wants, block, local>>

(***************************************************************************)
(* ssh_session() blocks.                                                   *)
(***************************************************************************)

Enter(t) ==
  /\ t \in Owners /\ pc[t] = "base" /\ block[t] = "none"
  /\ wants' = Set(wants, t, "session")
  /\ Goto(t, IF sessClient = None THEN "take" ELSE "nest")
  /\ UNCHANGED <<taking, connVars, useVars, timerVars, pool, connecting, closing, sessVars,
                 use, seen, again, mine, block, local>>

EnterSession(t) ==
  /\ pc[t] = "enter"
  /\ sessClient' = carrier[use[t]] /\ sessEntry' = use[t]
  /\ local' = Set(local, t, use[t]) /\ use' = Set(use, t, None)
  /\ block' = Set(block, t, "in")
  /\ Goto(t, "base")
  /\ UNCHANGED <<taking, connVars, useVars, timerVars, pool, connecting, closing,
                 seen, again, mine, wants>>

(* A session was held a moment ago: the block runs on its client, or, when *)
(* it has ended since, on a private connection; either without an entry.   *)
EnterNested(t) ==
  /\ pc[t] = "nest"
  /\ \/ /\ sessClient # None
        /\ block' = Set(block, t, "nested")
        /\ UNCHANGED <<connVars, sessClient, local>>
     \/ /\ sessClient = None
        /\ \E e \in Fresh :
              NewConnection(e, "private") /\ sessClient' = e /\ local' = Set(local, t, e)
        /\ block' = Set(block, t, "nested")
     \/ /\ sessClient = None
        /\ UNCHANGED <<connVars, sessClient, block, local>>
  /\ Goto(t, "base")
  /\ UNCHANGED <<taking, useVars, timerVars, pool, connecting, closing, sessEntry,
                 use, seen, again, mine, wants>>

(* The block ends: it clears the tables and gives back the use of the      *)
(* entry they name, or, when they name none, of the one it began with.     *)
Leave(t) ==
  /\ pc[t] = "base" /\ block[t] = "in"
  /\ sessClient' = None /\ sessEntry' = None
  /\ Release(IF sessEntry = None THEN local[t] ELSE sessEntry)
  /\ block' = Set(block, t, "none") /\ local' = Set(local, t, None)
  /\ UNCHANGED <<taking, connVars, timerVars, pool, connecting, closing,
                 pc, use, seen, again, mine, wants>>

LeaveNested(t) ==
  /\ pc[t] = "base" /\ block[t] = "nested"
  /\ sessClient' = None
  /\ Shut({local[t]})
  /\ block' = Set(block, t, "none") /\ local' = Set(local, t, None)
  /\ UNCHANGED <<taking, carrier, kind, useVars, timerVars, pool, connecting, closing, sessEntry,
                 pc, use, seen, again, mine, wants>>

(***************************************************************************)
(* Timers, the network, and the calls that close connections.              *)
(***************************************************************************)

(* IDLE_SECONDS since the last use ended.  No thread holds an entry it has *)
(* read for that long before taking it.                                    *)
Age(e) ==
  /\ conn[e] \in {"open", "dead"} /\ kind[e] = "kept" /\ e \notin idle
  /\ \A t \in Threads : pc[t] \notin {"held", "use"}
  /\ idle' = idle \cup {e}
  /\ UNCHANGED <<taking, connVars, users, armed, timerVars, pool, connecting, closing, sessVars,
                 pc, threadVars>>

Fire(e) ==
  /\ e \in armed /\ e \in idle
  /\ armed' = armed \ {e} /\ fired' = fired \cup {e}
  /\ UNCHANGED <<taking, connVars, users, idle, expiring, pool, connecting, closing, sessVars,
                 pc, threadVars>>

(* Faulty: the timer trusts that the entry is still unused.                *)
ExpireFaulty(e) ==
  /\ e \in fired /\ taking = None
  /\ fired' = fired \ {e}
  /\ expiring' = expiring \cup {e} /\ armed' = armed \ {e}
  /\ pool' = IF pool = e THEN None ELSE pool
  /\ UNCHANGED <<taking, connVars, users, idle, connecting, closing, sessVars, pc, threadVars>>

(* _expire(): the entry was used again meanwhile, or it leaves the pool.   *)
Expire(e) ==
  /\ e \in fired /\ taking = None
  /\ fired' = fired \ {e}
  /\ IF users[e] > 0 \/ e \notin idle THEN UNCHANGED <<expiring, armed, pool>>
     ELSE /\ expiring' = expiring \cup {e} /\ armed' = armed \ {e}
          /\ pool' = IF pool = e THEN None ELSE pool
  /\ UNCHANGED <<taking, connVars, users, idle, connecting, closing, sessVars, pc, threadVars>>

ExpireClose(e) ==
  /\ e \in expiring
  /\ expiring' = expiring \ {e}
  /\ Close(e)
  /\ UNCHANGED <<taking, carrier, kind, users, idle, fired, pool, connecting, closing, sessVars,
                 pc, threadVars>>

(* The transport ends: a reset, a NAT that dropped the flow, the pod gone. *)
Die(e) ==
  /\ conn[e] = "open"
  /\ conn' = Set(conn, e, "dead")
  /\ UNCHANGED <<taking, carrier, kind, useVars, timerVars, pool, connecting, closing, sessVars,
                 pc, threadVars>>

(* _drop_pooled(pod): down(), reboot() and reset close what is kept.       *)
ReleaseSsh ==
  /\ pool # None /\ taking = None
  /\ pool' = None /\ Close(pool)
  /\ UNCHANGED <<taking, carrier, kind, users, idle, timerVars, connecting, closing, sessVars,
                 pc, threadVars>>

(* close_pool(): lists the pool, clears it, closes what it listed; it      *)
(* takes no lock.                                                          *)
ClosePoolList ==
  /\ closing = None /\ pool # None
  /\ closing' = pool
  /\ UNCHANGED <<taking, connVars, useVars, timerVars, pool, connecting, sessVars, pc, threadVars>>

ClosePool ==
  /\ closing # None
  /\ closing' = None /\ pool' = None
  /\ Close(closing)
  /\ UNCHANGED <<taking, carrier, kind, users, idle, timerVars, connecting, sessVars, pc, threadVars>>

CallStep(t) ==
  \/ Begin(t) \/ ReadHeld(t) \/ EndBorrowed(t) \/ UseSession(t) \/ CheckKept(t) \/ TakeKept(t)
  \/ NoneKept(t)
  \/ LockConnect(t) \/ Connect(t) \/ ConnectFails(t) \/ OpenChannel(t) \/ Refused(t)
  \/ OpenOwn(t) \/ OpenFails(t) \/ Drop(t) \/ CheckSession(t) \/ Unlist(t) \/ Join(t) \/ Done(t)
SessionStep(t) ==
  \/ Enter(t) \/ EnterSession(t) \/ EnterNested(t) \/ Leave(t) \/ LeaveNested(t)
TimerStep(e) == Age(e) \/ Fire(e) \/ Expire(e) \/ ExpireClose(e)

Next ==
  \/ \E t \in Threads : CallStep(t) \/ SessionStep(t)
  \/ \E e \in Conns : TimerStep(e) \/ Die(e)
  \/ ReleaseSsh \/ ClosePoolList \/ ClosePool

Spec == Init /\ [][Next]_vars

(***************************************************************************)
(* What a call relies on.                                                  *)
(***************************************************************************)

RunsOn(e) == {t \in Threads : pc[t] \in {"open", "run", "join", "enter"} /\ use[t] = e}

(* Every call, and every session that began on an entry or moved to it, is *)
(* counted in `users`, through reconnects, nested blocks and shared use:   *)
(* an entry counted too low is closed as idle under a running command.     *)
CallsAreCounted ==
  \A e \in Conns : users[e] >= Cardinality(RunsOn(e)) + (IF sessEntry = e THEN 1 ELSE 0)

(* The idle expiry closes no entry with a user, and none that a call takes *)
(* while the expiry is between its check and the close.                    *)
ExpirySparesUsers == \A e \in expiring : users[e] = 0 /\ RunsOn(e) = {}

(* No connection is closed as idle under a running call: uses are counted, *)
(* and the expiry goes by the count.                                       *)
RunningCallsAreSafe == CallsAreCounted /\ ExpirySparesUsers

(* An open entry without users is watched by a timer, in every order of    *)
(* releases, expiries and closes: nothing else would close it before the   *)
(* process ends, and the pod's SSH session with it.                        *)
IdleIsWatched ==
  \A e \in Conns :
    conn[e] \in {"open", "dead"} /\ kind[e] = "kept" /\ users[e] = 0 =>
      e \in armed \cup fired \cup expiring

(* Calls that start together share one connection: no step replaces a kept *)
(* entry by another, which would leave the first one open and unlisted.    *)
KeptIsNotReplaced == [][pool # None /\ pool' # None => pool' = pool]_vars

Quiet == \A t \in Threads : pc[t] = "base" /\ block[t] = "none"

(* PooledConnection's docstring (_ssh_reuse.py:41): "``users`` counts the  *)
(* calls running on it (a command, a stream, a transfer, an ssh_session    *)
(* block); while it is above zero the connection is in use and never       *)
(* idle".  With none running it is zero, so the entry expires.             *)
UsersCountTheCalls == Quiet => \A e \in Conns : conn[e] = "open" => users[e] = 0
================================================================================
