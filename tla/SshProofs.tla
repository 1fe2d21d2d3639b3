------------------------------- MODULE SshProofs -------------------------------
(***************************************************************************)
(* The SSH connections a client keeps (SshPool), for any number of threads *)
(* and connections: types, the idle timers, that no kept connection is     *)
(* replaced, and, as long as one thread opens ssh_session() blocks, that   *)
(* no connection is closed under a running call.                           *)
(***************************************************************************)
EXTENDS SshPool, FiniteSetTheorems, TLAPS

(* What is referred to has been opened.                                    *)
Opened == {e \in Conns : conn[e] # "unused"}
MaybeOpened == Opened \cup {None}
References ==
  /\ \A t \in Threads :
       use[t] \in MaybeOpened /\ seen[t] \in MaybeOpened /\ local[t] \in MaybeOpened
  /\ pool \in MaybeOpened /\ sessEntry \in MaybeOpened /\ idle \subseteq Opened

(* Who is at "use", or holds the pool lock, has read an entry, and who is  *)
(* in a block has the one it began with.                                   *)
Reads ==
  /\ \A t \in Threads : /\ pc[t] = "use" => seen[t] # None
                        /\ block[t] = "in" => local[t] # None
  /\ taking # None => pc[taking] \in {"take", "retake"} /\ seen[taking] # None

(* Who connects has the connect lock, and found nothing kept.              *)
Connecting ==
  \A t \in Threads :
    /\ pc[t] \in {"retake", "connect"} => connecting = t
    /\ pc[t] = "connect" => pool = None

(* An idle timer that has fired is armed again by a later release.         *)
Watched(e) ==
  conn[e] \in {"open", "dead"} /\ kind[e] = "kept" /\ users[e] = 0 =>
    IF e \in idle THEN e \in armed \cup fired \cup expiring ELSE e \in armed

PoolInv == TypeOK /\ References /\ Reads /\ Connecting /\ \A e \in Conns : Watched(e)

(* The use of a block whose entry the tables name no longer.               *)
LeftBehind(e) == \E t \in Threads : block[t] = "in" /\ local[t] = e /\ sessEntry # e
One(b) == IF b THEN 1 ELSE 0
Counted(e) ==
  /\ IsFiniteSet(RunsOn(e))
  /\ users[e] >= Cardinality(RunsOn(e)) + One(sessEntry = e) + One(LeftBehind(e))

OwnersOpen ==
  \A t \in Threads : wants[t] = "session" \/ pc[t] = "enter" \/ block[t] = "in" => t \in Owners

(* What _expire takes out is out of use, and nobody has read it.           *)
Expired ==
  /\ \A e \in expiring : users[e] = 0 /\ e \in idle
  /\ \A t \in Threads :
       pc[t] \in {"held", "use"} /\ seen[t] \in idle => users[seen[t]] > 0
  /\ taking # None => seen[taking] \notin expiring

CountInv == PoolInv /\ OwnersOpen /\ Expired /\ \A e \in Conns : Counted(e)

LEMMA Placeholder == None \notin Conns /\ None \notin Threads
BY SshAssumption DEF None, Conns

LEMMA FreshIsUnused == \A e \in Fresh : e \in Conns /\ conn[e] = "unused"
BY DEF Fresh

LEMMA TakenLeadsTo ==
  \A t \in Threads : /\ AfterTake(t) \in {"enter", "join", "open"}
                     /\ AfterTake(t) = "enter" => wants[t] = "session"
BY DEF AfterTake

LEMMA PoolInit == Init => PoolInv
<1> SUFFICES ASSUME Init PROVE PoolInv
  OBVIOUS
<1>1. TypeOK
  BY Placeholder DEF Init, TypeOK, MaybeConn
<1>2. References /\ Reads /\ Connecting /\ \A e \in Conns : Watched(e)
  BY Placeholder DEF Init, References, Reads, Connecting, Watched, MaybeOpened
<1> QED BY <1>1, <1>2 DEF PoolInv

-----------------------------------------------------------------------------
(* Types.                                                                  *)
UseTypes == users' \in [Conns -> Nat] /\ armed' \subseteq Conns /\ idle' \subseteq Conns
LEMMA AcquireTypes == ASSUME TypeOK, NEW e \in Conns, Acquire(e) PROVE UseTypes
BY DEF TypeOK, Acquire, UseTypes
LEMMA ReleaseTypes == ASSUME TypeOK, NEW e \in Conns, Release(e) PROVE UseTypes
BY DEF TypeOK, Release, UseTypes
LEMMA ConnectionTypes ==
  ASSUME TypeOK, NEW e \in Conns, NEW as \in {"kept", "own", "private"}, NewConnection(e, as)
  PROVE  /\ conn' \in [Conns -> {"unused", "open", "dead", "closed"}]
         /\ carrier' \in [Conns -> Conns] /\ kind' \in [Conns -> {"kept", "own", "private"}]
BY DEF TypeOK, NewConnection, MaybeConn, Set
Labels ==
  {"base", "held", "borrowed", "use", "take", "lock", "retake", "connect", "enter", "nest", "open",
   "own", "run", "drop", "shut", "check", "unlist", "join"}
AtLabels ==
  /\ pc \in [Threads -> Labels] /\ use \in [Threads -> MaybeConn]
  /\ \A t \in Threads : pc[t] \in {"open", "run", "join", "enter"} => use[t] # None
LEMMA ThreadTypes ==
  ASSUME TypeOK, NEW t \in Threads, NEW label, NEW e \in MaybeConn,
         pc' = Set(pc, t, label), use' = Set(use, t, e),
         label \in Labels, label \in {"open", "run", "join", "enter"} => e # None
  PROVE  AtLabels'
BY DEF TypeOK, Set, AtLabels, Labels

LEMMA TypeStep == PoolInv /\ Next => TypeOK'
<1> SUFFICES ASSUME PoolInv, Next PROVE TypeOK'
  OBVIOUS
<1>a. \A t \in Threads : (pc[t] = "use" => seen[t] # None) /\ (block[t] = "in" => local[t] # None)
  BY DEF PoolInv, Reads
<1>0. TypeOK /\ Reads /\ None \notin Conns /\ None \notin Threads /\ None \in MaybeConn
      /\ Conns \subseteq MaybeConn
  BY Placeholder DEF PoolInv, MaybeConn
<1> USE <1>0 DEF TypeOK, connVars, useVars, timerVars, sessVars, threadVars, Set, Goto
<1>1. ASSUME NEW t \in Threads, CallStep(t) PROVE TypeOK'
  <2>1. CASE Begin(t) BY <2>1 DEF Begin
  <2>2. CASE ReadHeld(t) BY <2>2 DEF ReadHeld
  <2>3. CASE EndBorrowed(t) BY <2>3 DEF EndBorrowed
  <2>4. CASE UseSession(t)
    <3>1. seen[t] \in Conns BY <1>a, <2>4 DEF UseSession, MaybeConn
    <3>2. UseTypes BY <2>4, <3>1, AcquireTypes DEF UseSession
    <3>3. pc' = Set(pc, t, "open") /\ use' = Set(use, t, seen[t]) BY <2>4 DEF UseSession
    <3>4. AtLabels' BY <3>1, <3>3, ThreadTypes DEF Labels
    <3> QED BY <2>4, <3>2, <3>4 DEF UseSession, UseTypes, AtLabels, Labels
  <2>5. CASE CheckKept(t) BY <2>5 DEF CheckKept, KeptUsable
  <2>6. CASE TakeKept(t)
    <3>1. seen[t] \in Conns BY <2>6 DEF TakeKept, Reads, MaybeConn
    <3>2. UseTypes BY <2>6, <3>1, AcquireTypes DEF TakeKept
    <3>3. pc' = Set(pc, t, AfterTake(t)) /\ use' = Set(use, t, seen[t]) BY <2>6 DEF TakeKept, Took
    <3>4. connecting' \in Threads \cup {None} BY <2>6 DEF TakeKept, Took
    <3>5. AtLabels' BY <3>1, <3>3, TakenLeadsTo, ThreadTypes DEF Labels
    <3> QED BY <2>6, <3>1, <3>2, <3>4, <3>5 DEF TakeKept, Took, UseTypes, AtLabels, Labels
  <2>7. CASE NoneKept(t) BY <2>7 DEF NoneKept, Close, Shut
  <2>8. CASE LockConnect(t) BY <2>8 DEF LockConnect
  <2>9. CASE Connect(t)
    <3>1. PICK e \in Conns : /\ NewConnection(e, "kept") /\ users' = Set(users, e, 1)
                             /\ pool' = e /\ use' = Set(use, t, e)
      BY <2>9, FreshIsUnused DEF Connect
    <3>2. AtLabels' BY <2>9, <3>1, TakenLeadsTo, ThreadTypes DEF Connect, Labels
    <3> QED BY <2>9, <3>1, <3>2, ConnectionTypes DEF Connect, AtLabels, Labels
  <2>10. CASE ConnectFails(t) BY <2>10 DEF ConnectFails
  <2>11. CASE OpenChannel(t) BY <2>11 DEF OpenChannel
  <2>12. CASE Refused(t)
    <3>1. UseTypes BY <2>12, ReleaseTypes DEF Refused, MaybeConn
    <3>2. AtLabels'
      <4>1. PICK label \in {"base", "own"} : pc' = Set(pc, t, label) BY <2>12 DEF Refused
      <4> QED BY <2>12, <4>1, ThreadTypes DEF Refused, Labels
    <3> QED BY <2>12, <3>1, <3>2 DEF Refused, UseTypes, AtLabels, Labels
  <2>13. CASE OpenOwn(t)
    <3>1. CASE UNCHANGED <<connVars, users, use>> /\ Goto(t, "base")
      BY <2>13, <3>1 DEF OpenOwn
    <3>2. ASSUME NEW e \in Conns, NewConnection(e, "own"), users' = Set(users, e, 1),
                 use' = Set(use, t, e), Goto(t, "run")
          PROVE TypeOK'
      <4>1. AtLabels' BY <3>2, ThreadTypes DEF Labels
      <4> QED BY <2>13, <3>2, <4>1, ConnectionTypes DEF OpenOwn, AtLabels, Labels
    <3> QED BY <2>13, <3>1, <3>2, FreshIsUnused DEF OpenOwn
  <2>14. CASE OpenFails(t)
    <3>1. UseTypes BY <2>14, ReleaseTypes DEF OpenFails, MaybeConn
    <3>2. AtLabels' BY <2>14, ThreadTypes DEF OpenFails, Labels
    <3>3. seen' \in [Threads -> MaybeConn] /\ again' \in [Threads -> BOOLEAN]
          /\ mine' \in [Threads -> BOOLEAN]
      <4>1. CASE seen' = Set(seen, t, use[t]) /\ UNCHANGED <<again, mine>>
        BY <4>1
      <4>2. CASE again' = Set(again, t, FALSE) /\ mine' = Set(mine, t, FALSE) /\ UNCHANGED seen
        BY <4>2, Zenon
      <4> QED BY <2>14, <4>1, <4>2 DEF OpenFails
    <3> QED BY <2>14, <3>1, <3>2, <3>3 DEF OpenFails, UseTypes, AtLabels, Labels
  <2>15. CASE Drop(t) BY <2>15 DEF Drop, Close, Shut
  <2>16. CASE CheckSession(t) BY <2>16 DEF CheckSession
  <2>17. CASE Unlist(t) BY <2>17 DEF Unlist
  <2>18. CASE Join(t)
    <3>1. UseTypes BY <2>18, AcquireTypes DEF Join, MaybeConn
    <3>2. use[t] \in Conns /\ carrier[use[t]] \in MaybeConn BY <2>18 DEF Join, MaybeConn
    <3>3. \A s \in Threads : pc'[s] \in {"open", "run", "join", "enter"} => use'[s] # None
      BY <2>18 DEF Join
    <3> QED BY <2>18, <3>1, <3>2, <3>3 DEF Join, UseTypes
  <2>19. CASE Done(t)
    <3>1. use[t] \in Conns BY <2>19 DEF Done, MaybeConn
    <3>2. users' \in [Conns -> Nat] BY <2>19, <3>1 DEF Done
    <3>3. AtLabels' BY <2>19, ThreadTypes DEF Done, Labels
    <3>4. seen' \in [Threads -> MaybeConn] BY <2>19, <3>1 DEF Done
    <3> QED BY <2>19, <3>1, <3>2, <3>3, <3>4 DEF Done, Shut, AtLabels, Labels
  <2> QED BY <1>1, <2>1, <2>2, <2>3, <2>4, <2>5, <2>6, <2>7, <2>8, <2>9, <2>10, <2>11, <2>12,
             <2>13, <2>14, <2>15, <2>16, <2>17, <2>18, <2>19 DEF CallStep
<1>2. ASSUME NEW t \in Threads, SessionStep(t) PROVE TypeOK'
  <2>1. CASE Enter(t) BY <2>1 DEF Enter
  <2>2. CASE EnterSession(t)
    <3>1. AtLabels' BY <2>2, ThreadTypes DEF EnterSession, Labels
    <3> QED BY <2>2, <3>1 DEF EnterSession, MaybeConn, AtLabels, Labels
  <2>3. CASE EnterNested(t)
    <3>1. ASSUME UNCHANGED <<connVars, sessClient, local>>,
                 block' = Set(block, t, "nested") \/ UNCHANGED block
          PROVE TypeOK'
      BY <2>3, <3>1 DEF EnterNested
    <3>2. ASSUME NEW e \in Conns, NewConnection(e, "private"), sessClient' = e,
                 local' = Set(local, t, e), block' = Set(block, t, "nested")
          PROVE TypeOK'
      BY <2>3, <3>2, ConnectionTypes DEF EnterNested
    <3> QED BY <2>3, <3>1, <3>2, FreshIsUnused DEF EnterNested
  <2>4. CASE Leave(t)
    <3>1. (IF sessEntry = None THEN local[t] ELSE sessEntry) \in Conns
      BY <1>a, <2>4 DEF Leave, MaybeConn
    <3>2. UseTypes BY <2>4, <3>1, ReleaseTypes DEF Leave
    <3> QED BY <2>4, <3>2 DEF Leave, UseTypes
  <2>5. CASE LeaveNested(t) BY <2>5 DEF LeaveNested, Shut
  <2> QED BY <1>2, <2>1, <2>2, <2>3, <2>4, <2>5 DEF SessionStep
<1>3. ASSUME NEW e \in Conns, TimerStep(e) \/ Die(e) PROVE TypeOK'
  <2>1. CASE Age(e) BY <2>1 DEF Age
  <2>2. CASE Fire(e) BY <2>2 DEF Fire
  <2>3. CASE Expire(e) BY <2>3 DEF Expire
  <2>4. CASE ExpireClose(e) BY <2>4 DEF ExpireClose, Close, Shut
  <2>5. CASE Die(e) BY <2>5 DEF Die
  <2> QED BY <1>3, <2>1, <2>2, <2>3, <2>4, <2>5 DEF TimerStep
<1>4. CASE ReleaseSsh BY <1>4 DEF ReleaseSsh, Close, Shut
<1>5. CASE ClosePoolList BY <1>5 DEF ClosePoolList
<1>6. CASE ClosePool BY <1>6 DEF ClosePool, Close, Shut
<1> QED BY <1>1, <1>2, <1>3, <1>4, <1>5, <1>6 DEF Next

-----------------------------------------------------------------------------
(* A connection that was opened stays opened, or closed.                   *)
LEMMA OpenedGrow == TypeOK /\ Next => Opened \subseteq Opened'
<1> SUFFICES ASSUME TypeOK, Next, NEW e \in Conns, conn[e] # "unused" PROVE conn'[e] # "unused"
  BY DEF Opened
<1>1. ASSUME NEW es, Shut(es) PROVE conn'[e] # "unused"
  BY <1>1 DEF Shut
<1>2. ASSUME NEW d, Close(d) PROVE conn'[e] # "unused"
  BY <1>1, <1>2 DEF Close
<1>3. ASSUME NEW d \in Fresh, NEW as, NewConnection(d, as) PROVE conn'[e] # "unused"
  BY <1>3, FreshIsUnused DEF NewConnection, Set, TypeOK
<1>4. CASE UNCHANGED conn BY <1>4
<1>5. ASSUME NEW t \in Threads, CallStep(t) \/ SessionStep(t) PROVE conn'[e] # "unused"
  <2>1. CASE NoneKept(t) BY <1>2, <1>4, <2>1 DEF NoneKept
  <2>2. CASE Connect(t) BY <1>3, <2>2 DEF Connect
  <2>3. CASE OpenOwn(t) BY <1>3, <1>4, <2>3 DEF OpenOwn, connVars
  <2>4. CASE Drop(t) BY <1>2, <1>4, <2>4 DEF Drop
  <2>5. CASE Done(t) BY <1>1, <1>4, <2>5 DEF Done
  <2>6. CASE EnterNested(t) BY <1>3, <1>4, <2>6 DEF EnterNested, connVars
  <2>7. CASE LeaveNested(t) BY <1>1, <2>7 DEF LeaveNested
  <2>8. CASE \/ Begin(t) \/ ReadHeld(t) \/ EndBorrowed(t) \/ UseSession(t) \/ CheckKept(t)
             \/ TakeKept(t) \/ LockConnect(t) \/ ConnectFails(t) \/ OpenChannel(t) \/ Refused(t)
             \/ OpenFails(t) \/ CheckSession(t) \/ Unlist(t) \/ Join(t)
             \/ Enter(t) \/ EnterSession(t) \/ Leave(t)
    BY <1>4, <2>8
       DEF Begin, ReadHeld, EndBorrowed, UseSession, CheckKept, TakeKept, LockConnect, ConnectFails,
           OpenChannel, Refused, OpenFails, CheckSession, Unlist, Join, Enter, EnterSession, Leave,
           connVars
  <2> QED BY <1>5, <2>1, <2>2, <2>3, <2>4, <2>5, <2>6, <2>7, <2>8 DEF CallStep, SessionStep
<1>6. ASSUME NEW d \in Conns, TimerStep(d) \/ Die(d) PROVE conn'[e] # "unused"
  <2>1. CASE ExpireClose(d) BY <1>2, <2>1 DEF ExpireClose
  <2>2. CASE Die(d) BY <2>2 DEF Die, Set, TypeOK
  <2>3. CASE Age(d) \/ Fire(d) \/ Expire(d) BY <1>4, <2>3 DEF Age, Fire, Expire, connVars
  <2> QED BY <1>6, <2>1, <2>2, <2>3 DEF TimerStep
<1>7. CASE ReleaseSsh \/ ClosePoolList \/ ClosePool
  BY <1>2, <1>4, <1>7 DEF ReleaseSsh, ClosePoolList, ClosePool, connVars
<1> QED BY <1>5, <1>6, <1>7 DEF Next

(* What a step refers to was referred to before it, or opened by it.       *)
LEMMA ReferencesStep == PoolInv /\ Next => References'
<1> SUFFICES ASSUME PoolInv, Next PROVE References'
  OBVIOUS
<1>1. TypeOK /\ Opened \subseteq Opened' /\ idle \subseteq Opened
  BY OpenedGrow DEF PoolInv, References
<1>2. MaybeOpened \subseteq MaybeOpened' /\ None \in MaybeOpened' /\ Opened' \subseteq MaybeOpened'
  BY <1>1 DEF MaybeOpened
<1>3. /\ \A t \in Threads :
           use[t] \in MaybeOpened' /\ seen[t] \in MaybeOpened' /\ local[t] \in MaybeOpened'
      /\ pool \in MaybeOpened' /\ sessEntry \in MaybeOpened' /\ idle \subseteq Opened'
  BY <1>1, <1>2 DEF PoolInv, References
<1>4. /\ use \in [Threads -> MaybeConn] /\ seen \in [Threads -> MaybeConn]
      /\ local \in [Threads -> MaybeConn]
  BY <1>1 DEF TypeOK
<1> USE <1>2, <1>3, <1>4
    DEF References, connVars, useVars, timerVars, sessVars, threadVars, Set, Goto
<1>5. ASSUME NEW t \in Threads, CallStep(t) PROVE References'
  <2>1. CASE \/ Begin(t) \/ ReadHeld(t) \/ EndBorrowed(t) \/ LockConnect(t) \/ ConnectFails(t)
             \/ OpenChannel(t) \/ CheckSession(t) \/ Unlist(t) \/ CheckKept(t) \/ NoneKept(t)
    BY <2>1 DEF Begin, ReadHeld, EndBorrowed, LockConnect, ConnectFails, OpenChannel, CheckSession,
                Unlist, CheckKept, NoneKept
  <2>2. CASE UseSession(t) BY <2>2 DEF UseSession, Acquire
  <2>3. CASE TakeKept(t) BY <2>3 DEF TakeKept, Took, Acquire
  <2>4. CASE Connect(t)
    <3>1. PICK e \in Conns : /\ conn' = Set(conn, e, "open") /\ pool' = e /\ use' = Set(use, t, e)
      BY <2>4, FreshIsUnused DEF Connect, NewConnection
    <3>2. e \in Opened' BY <1>1, <3>1 DEF Opened, TypeOK
    <3> QED BY <2>4, <3>1, <3>2 DEF Connect
  <2>5. CASE Refused(t) BY <2>5 DEF Refused, Release
  <2>6. CASE OpenOwn(t)
    <3>1. CASE UNCHANGED <<connVars, users, use>> BY <2>6, <3>1 DEF OpenOwn
    <3>2. ASSUME NEW e \in Conns, conn' = Set(conn, e, "open"), use' = Set(use, t, e)
          PROVE  References'
      <4>1. e \in Opened' BY <1>1, <3>2 DEF Opened, TypeOK
      <4> QED BY <2>6, <3>2, <4>1 DEF OpenOwn
    <3> QED BY <2>6, <3>1, <3>2, FreshIsUnused DEF OpenOwn, NewConnection
  <2>7. CASE OpenFails(t) BY <2>7 DEF OpenFails, Release
  <2>8. CASE Drop(t) BY <2>8 DEF Drop
  <2>9. CASE Join(t) BY <2>9 DEF Join, Acquire
  <2>10. CASE Done(t) BY <2>10 DEF Done
  <2> QED BY <1>5, <2>1, <2>2, <2>3, <2>4, <2>5, <2>6, <2>7, <2>8, <2>9, <2>10 DEF CallStep
<1>6. ASSUME NEW t \in Threads, SessionStep(t) PROVE References'
  <2>1. CASE Enter(t) BY <2>1 DEF Enter
  <2>2. CASE EnterSession(t) BY <2>2 DEF EnterSession
  <2>3. CASE EnterNested(t)
    <3>1. CASE UNCHANGED <<connVars, sessClient, local>> BY <2>3, <3>1 DEF EnterNested
    <3>2. ASSUME NEW e \in Conns, conn' = Set(conn, e, "open"), local' = Set(local, t, e)
          PROVE  References'
      <4>1. e \in Opened' BY <1>1, <3>2 DEF Opened, TypeOK
      <4> QED BY <2>3, <3>2, <4>1 DEF EnterNested
    <3> QED BY <2>3, <3>1, <3>2, FreshIsUnused DEF EnterNested, NewConnection
  <2>4. CASE Leave(t) BY <2>4 DEF Leave, Release
  <2>5. CASE LeaveNested(t) BY <2>5 DEF LeaveNested
  <2> QED BY <1>6, <2>1, <2>2, <2>3, <2>4, <2>5 DEF SessionStep
<1>7. ASSUME NEW e \in Conns, TimerStep(e) \/ Die(e) PROVE References'
  <2>1. CASE Age(e)
    <3>1. e \in Opened' BY <1>1, <2>1 DEF Age, Opened
    <3> QED BY <2>1, <3>1 DEF Age
  <2>2. CASE Fire(e) \/ ExpireClose(e) \/ Die(e) BY <2>2 DEF Fire, ExpireClose, Die
  <2>3. CASE Expire(e) BY <2>3 DEF Expire
  <2> QED BY <1>7, <2>1, <2>2, <2>3 DEF TimerStep
<1>8. CASE ReleaseSsh \/ ClosePoolList \/ ClosePool
  BY <1>8 DEF ReleaseSsh, ClosePoolList, ClosePool
<1> QED BY <1>5, <1>6, <1>7, <1>8 DEF Next

(* Where the threads are, and what they have read.                         *)
LEMMA ReadsStep == PoolInv /\ Next => Reads'
<1> SUFFICES ASSUME PoolInv, Next PROVE Reads'
  OBVIOUS
<1>1. /\ pc \in [Threads -> Labels] /\ seen \in [Threads -> MaybeConn] /\ None \notin Conns
      /\ block \in [Threads -> {"none", "in", "nested"}] /\ local \in [Threads -> MaybeConn]
      /\ use \in [Threads -> MaybeConn] /\ taking \in Threads \cup {None} /\ None \notin Threads
      /\ pool \in MaybeConn
      /\ \A t \in Threads : pc[t] \in {"open", "run", "join", "enter"} => use[t] # None
  BY Placeholder DEF PoolInv, TypeOK, Labels
<1>2. \A t \in Threads : (pc[t] = "use" => seen[t] # None) /\ (block[t] = "in" => local[t] # None)
  BY DEF PoolInv, Reads
<1>3. taking # None => pc[taking] \in {"take", "retake"} /\ seen[taking] # None
  BY DEF PoolInv, Reads
<1> DEFINE Held == taking' # None => pc'[taking'] \in {"take", "retake"} /\ seen'[taking'] # None
           Have == \A t \in Threads : /\ pc'[t] = "use" => seen'[t] # None
                                      /\ block'[t] = "in" => local'[t] # None
<1>4. Held /\ Have => Reads' BY DEF Reads
<1> USE <1>1, <1>2, <1>3 DEF connVars, useVars, timerVars, sessVars, threadVars, Set, Goto
<1>5. ASSUME NEW t \in Threads, CallStep(t) PROVE Held /\ Have
  <2>1. CASE Begin(t) \/ ReadHeld(t) \/ EndBorrowed(t) BY <2>1 DEF Begin, ReadHeld, EndBorrowed
  <2>2. CASE UseSession(t) BY <2>2 DEF UseSession
  <2>3. CASE CheckKept(t) BY <2>3 DEF CheckKept, KeptUsable
  <2>4. CASE TakeKept(t) BY <2>4, TakenLeadsTo DEF TakeKept, Took
  <2>5. CASE NoneKept(t) BY <2>5 DEF NoneKept
  <2>6. CASE Connect(t) BY <2>6, TakenLeadsTo DEF Connect
  <2>7. CASE LockConnect(t) \/ ConnectFails(t) \/ OpenChannel(t) \/ Refused(t)
    BY <2>7 DEF LockConnect, ConnectFails, OpenChannel, Refused
  <2>8. CASE OpenOwn(t) \/ OpenFails(t) BY <2>8 DEF OpenOwn, OpenFails
  <2>9. CASE Drop(t) \/ CheckSession(t) BY <2>9 DEF Drop, CheckSession
  <2>10. CASE Unlist(t) \/ Join(t) \/ Done(t) BY <2>10 DEF Unlist, Join, Done
  <2> QED BY <1>5, <2>1, <2>2, <2>3, <2>4, <2>5, <2>6, <2>7, <2>8, <2>9, <2>10 DEF CallStep
<1>6. ASSUME NEW t \in Threads, SessionStep(t) PROVE Held /\ Have
  <2>1. CASE Enter(t) \/ EnterNested(t) BY <2>1 DEF Enter, EnterNested
  <2>2. CASE EnterSession(t) BY <2>2 DEF EnterSession
  <2>3. CASE Leave(t) \/ LeaveNested(t) BY <2>3 DEF Leave, LeaveNested
  <2> QED BY <1>6, <2>1, <2>2, <2>3 DEF SessionStep
<1>7. ASSUME NEW e \in Conns, TimerStep(e) \/ Die(e) PROVE Held /\ Have
  BY <1>7 DEF TimerStep, Die, Age, Fire, Expire, ExpireClose
<1>8. ASSUME ReleaseSsh \/ ClosePoolList \/ ClosePool PROVE Held /\ Have
  BY <1>8 DEF ReleaseSsh, ClosePoolList, ClosePool
<1> QED BY <1>4, <1>5, <1>6, <1>7, <1>8 DEF Next

(* Only the holder of the connect lock connects, and only it fills the     *)
(* pool.                                                                   *)
LEMMA ConnectingStep == PoolInv /\ Next => Connecting' /\ (pool # None
                                                           /\ pool' # None => pool' = pool)
<1> SUFFICES ASSUME PoolInv, Next PROVE Connecting' /\ (pool # None /\ pool' # None => pool' = pool)
  OBVIOUS
<1>1. pc \in [Threads -> Labels] /\ None \notin Threads
  BY Placeholder DEF PoolInv, TypeOK, Labels
<1>2. \A t \in Threads : /\ pc[t] \in {"retake", "connect"} => connecting = t
                         /\ pc[t] = "connect" => pool = None
  BY DEF PoolInv, Connecting
<1>3. taking # None => pc[taking] \in {"take", "retake"}
  BY DEF PoolInv, Reads
<1> DEFINE Alone == \A t \in Threads : /\ pc'[t] \in {"retake", "connect"} => connecting' = t
                                       /\ pc'[t] = "connect" => pool' = None
           Stays == pool # None /\ pool' # None => pool' = pool
<1>4. Alone => Connecting' BY DEF Connecting
<1> USE <1>1, <1>2, <1>3 DEF connVars, useVars, timerVars, sessVars, threadVars, Set, Goto
<1>5. ASSUME NEW t \in Threads, CallStep(t) PROVE Alone /\ Stays
  <2>1. CASE Begin(t) \/ ReadHeld(t) \/ EndBorrowed(t) \/ UseSession(t)
    BY <2>1 DEF Begin, ReadHeld, EndBorrowed, UseSession
  <2>3. CASE CheckKept(t) BY <2>3 DEF CheckKept
  <2>4. CASE TakeKept(t) BY <2>4, TakenLeadsTo DEF TakeKept, Took
  <2>5. CASE NoneKept(t) BY <2>5 DEF NoneKept
  <2>6. CASE Connect(t)
    <3>1. \A s \in Threads \ {t} : pc'[s] = pc[s] /\ pc[s] \notin {"retake", "connect"}
      BY <2>6 DEF Connect
    <3>2. pc'[t] \in {"enter", "join", "open"} BY <2>6, TakenLeadsTo DEF Connect
    <3>3. pool = None BY <2>6 DEF Connect
    <3> QED BY <3>1, <3>2, <3>3
  <2>7. CASE LockConnect(t) \/ ConnectFails(t) BY <2>7 DEF LockConnect, ConnectFails
  <2>8. CASE OpenChannel(t) \/ Refused(t) \/ OpenOwn(t) \/ OpenFails(t)
    BY <2>8 DEF OpenChannel, Refused, OpenOwn, OpenFails
  <2>9. CASE Drop(t) \/ CheckSession(t) BY <2>9 DEF Drop, CheckSession
  <2>10. CASE Unlist(t) \/ Join(t) \/ Done(t) BY <2>10 DEF Unlist, Join, Done
  <2> QED BY <1>5, <2>1, <2>3, <2>4, <2>5, <2>6, <2>7, <2>8, <2>9, <2>10 DEF CallStep
<1>6. ASSUME NEW t \in Threads, SessionStep(t) PROVE Alone /\ Stays
  <2>1. CASE Enter(t) \/ EnterNested(t) \/ EnterSession(t)
    BY <2>1 DEF Enter, EnterNested, EnterSession
  <2>3. CASE Leave(t) \/ LeaveNested(t) BY <2>3 DEF Leave, LeaveNested
  <2> QED BY <1>6, <2>1, <2>3 DEF SessionStep
<1>7. ASSUME NEW e \in Conns, TimerStep(e) \/ Die(e) PROVE Alone /\ Stays
  BY <1>7 DEF TimerStep, Die, Age, Fire, Expire, ExpireClose
<1>8. ASSUME ReleaseSsh \/ ClosePoolList \/ ClosePool PROVE Alone /\ Stays
  BY <1>8 DEF ReleaseSsh, ClosePoolList, ClosePool
<1> QED BY <1>4, <1>5, <1>6, <1>7, <1>8 DEF Next

-----------------------------------------------------------------------------
(* The timers.  An entry that is acquired has a user, one that is released *)
(* by its last user is armed, and one that is closed needs no timer.       *)
Timers == <<conn, kind, users, idle, armed, fired, expiring>>
LEMMA AcquireWatched ==
  ASSUME TypeOK, NEW d \in Conns, NEW e \in Conns, Watched(e), Acquire(d),
         UNCHANGED <<conn, kind, fired, expiring>>
  PROVE  Watched(e)'
BY DEF TypeOK, Acquire, Watched
LEMMA ReleaseWatched ==
  ASSUME TypeOK, NEW d \in Conns, NEW e \in Conns, Watched(e), Release(d),
         UNCHANGED <<conn, kind, fired, expiring>>
  PROVE  Watched(e)'
BY DEF TypeOK, Release, Watched
LEMMA CloseWatched ==
  ASSUME TypeOK, NEW d, NEW e \in Conns, Watched(e), Close(d),
         UNCHANGED <<kind, users, idle, fired>>, expiring \ {d} \subseteq expiring'
  PROVE  Watched(e)'
BY DEF TypeOK, Close, Shut, Watched
LEMMA OpenWatched ==
  ASSUME TypeOK, NEW d \in Conns, NEW e \in Conns, NEW as, Watched(e), NewConnection(d, as),
         UNCHANGED <<idle, armed, fired, expiring>>, users' = Set(users, d, 1) \/ users' = users,
         as = "kept" => users' = Set(users, d, 1)
  PROVE  Watched(e)'
<1> USE DEF TypeOK, NewConnection, Set
<1>1. CASE e = d /\ as = "kept"
  <2>1. users'[e] = 1 BY <1>1
  <2> QED BY <2>1 DEF Watched
<1>2. CASE e = d /\ as # "kept"
  <2>1. kind'[e] # "kept" BY <1>2
  <2> QED BY <2>1 DEF Watched
<1>3. CASE e # d
  <2>1. conn'[e] = conn[e] /\ kind'[e] = kind[e] /\ users'[e] = users[e] BY <1>3
  <2> QED BY <2>1 DEF Watched
<1> QED BY <1>1, <1>2, <1>3

LEMMA WatchedStep == PoolInv /\ Next => \A e \in Conns : Watched(e)'
<1> SUFFICES ASSUME PoolInv, Next, NEW e \in Conns PROVE Watched(e)'
  OBVIOUS
<1>0. TypeOK /\ Watched(e)
  BY DEF PoolInv
<1>1. CASE UNCHANGED Timers
  BY <1>0, <1>1 DEF Timers, Watched
<1> USE <1>0 DEF connVars, useVars, timerVars
<1>2. ASSUME NEW t \in Threads, CallStep(t) PROVE Watched(e)'
  <2>0. /\ pc[t] = "use" => seen[t] \in Conns
        /\ taking = t => seen[t] \in Conns
        /\ pc[t] \in {"open", "run", "join"} => use[t] \in Conns
    BY Placeholder DEF PoolInv, Reads, TypeOK, MaybeConn
  <2>1. CASE \/ Begin(t) \/ ReadHeld(t) \/ EndBorrowed(t) \/ CheckKept(t) \/ LockConnect(t)
             \/ ConnectFails(t) \/ OpenChannel(t) \/ CheckSession(t) \/ Unlist(t)
    BY <1>1, <2>1 DEF Begin, ReadHeld, EndBorrowed, CheckKept, LockConnect, ConnectFails,
                      OpenChannel, CheckSession, Unlist, Timers
  <2>2. CASE UseSession(t) BY <2>0, <2>2, AcquireWatched DEF UseSession
  <2>3. CASE TakeKept(t) BY <2>0, <2>3, AcquireWatched DEF TakeKept
  <2>4. CASE NoneKept(t)
    <3>1. CASE pool = None BY <1>1, <2>4, <3>1 DEF NoneKept, Timers
    <3>2. CASE pool # None BY <2>4, <3>2, CloseWatched DEF NoneKept
    <3> QED BY <3>1, <3>2
  <2>5. CASE Connect(t) BY <2>5, OpenWatched, FreshIsUnused DEF Connect
  <2>6. CASE Refused(t) BY <2>0, <2>6, ReleaseWatched DEF Refused
  <2>7. CASE OpenOwn(t)
    <3>1. CASE UNCHANGED <<connVars, users, use>> BY <1>1, <2>7, <3>1 DEF OpenOwn, Timers
    <3>2. ASSUME NEW d \in Fresh, NewConnection(d, "own"), users' = Set(users, d, 1)
          PROVE  Watched(e)'
      BY <2>7, <3>2, OpenWatched, FreshIsUnused DEF OpenOwn
    <3> QED BY <2>7, <3>1, <3>2 DEF OpenOwn
  <2>8. CASE OpenFails(t) BY <2>0, <2>8, ReleaseWatched DEF OpenFails
  <2>9. CASE Drop(t)
    <3>1. CASE pool = seen[t] BY <2>9, <3>1, CloseWatched DEF Drop
    <3>2. CASE pool # seen[t] BY <1>1, <2>9, <3>2 DEF Drop, Timers
    <3> QED BY <3>1, <3>2
  <2>10. CASE Join(t) BY <2>0, <2>10, AcquireWatched DEF Join
  <2>11. CASE Done(t)
    <3>1. CASE kind[use[t]] = "own"
      <4>1. CASE e = use[t] BY <2>0, <2>11, <3>1, <4>1 DEF Done, Shut, TypeOK, Watched
      <4>2. CASE e # use[t] BY <2>0, <2>11, <3>1, <4>2 DEF Done, Shut, TypeOK, Watched
      <4> QED BY <4>1, <4>2
    <3>2. CASE kind[use[t]] # "own"
      BY <2>0, <2>11, <3>2, ReleaseWatched DEF Done, Release
    <3> QED BY <3>1, <3>2
  <2> QED BY <1>2, <2>1, <2>2, <2>3, <2>4, <2>5, <2>6, <2>7, <2>8, <2>9, <2>10, <2>11 DEF CallStep
<1>3. ASSUME NEW t \in Threads, SessionStep(t) PROVE Watched(e)'
  <2>1. CASE Enter(t) \/ EnterSession(t) BY <1>1, <2>1 DEF Enter, EnterSession, Timers
  <2>2. CASE EnterNested(t)
    <3>1. CASE UNCHANGED <<connVars, sessClient, local>> BY <1>1, <2>2, <3>1 DEF EnterNested, Timers
    <3>2. ASSUME NEW d \in Fresh, NewConnection(d, "private") PROVE Watched(e)'
      BY <2>2, <3>2, OpenWatched, FreshIsUnused DEF EnterNested
    <3>3. CASE UNCHANGED connVars BY <1>1, <2>2, <3>3 DEF EnterNested, Timers
    <3> QED BY <2>2, <3>1, <3>2, <3>3 DEF EnterNested
  <2>3. CASE Leave(t)
    <3>1. (IF sessEntry = None THEN local[t] ELSE sessEntry) \in Conns
      BY <2>3, Placeholder DEF Leave, PoolInv, Reads, TypeOK, MaybeConn
    <3> QED BY <2>3, <3>1, ReleaseWatched DEF Leave
  <2>4. CASE LeaveNested(t) BY <2>4 DEF LeaveNested, Shut, Watched, TypeOK
  <2> QED BY <1>3, <2>1, <2>2, <2>3, <2>4 DEF SessionStep
<1>4. ASSUME NEW d \in Conns, TimerStep(d) \/ Die(d) PROVE Watched(e)'
  <2>1. CASE Age(d) BY <2>1 DEF Age, Watched
  <2>2. CASE Fire(d) BY <2>2 DEF Fire, Watched
  <2>3. CASE Expire(d) BY <2>3 DEF Expire, Watched
  <2>4. CASE ExpireClose(d) BY <2>4, CloseWatched DEF ExpireClose
  <2>5. CASE Die(d) BY <2>5 DEF Die, Set, Watched, TypeOK
  <2> QED BY <1>4, <2>1, <2>2, <2>3, <2>4, <2>5 DEF TimerStep
<1>5. CASE ReleaseSsh BY <1>5, CloseWatched DEF ReleaseSsh
<1>6. CASE ClosePoolList BY <1>1, <1>6 DEF ClosePoolList, Timers
<1>7. CASE ClosePool BY <1>7, CloseWatched DEF ClosePool
<1> QED BY <1>2, <1>3, <1>4, <1>5, <1>6, <1>7 DEF Next

LEMMA PoolStays == PoolInv /\ UNCHANGED vars => PoolInv'
<1> SUFFICES ASSUME PoolInv, UNCHANGED vars PROVE PoolInv'
  OBVIOUS
<1>1. TypeOK' BY DEF PoolInv, TypeOK, vars, connVars, useVars, timerVars, sessVars, threadVars
<1>2. References' /\ Reads' /\ Connecting'
  BY DEF PoolInv, References, Reads, Connecting, MaybeOpened, Opened, vars, connVars, useVars,
         timerVars, sessVars, threadVars
<1>3. \A e \in Conns : Watched(e)'
  BY DEF PoolInv, Watched, vars, connVars, useVars, timerVars
<1> QED BY <1>1, <1>2, <1>3 DEF PoolInv

LEMMA PoolInvariant == Spec => []PoolInv
<1>1. PoolInv /\ Next => PoolInv'
  BY TypeStep, ReferencesStep, ReadsStep, ConnectingStep, WatchedStep DEF PoolInv
<1> QED BY <1>1, PoolStays, PoolInit, PTL DEF Spec

(* Every reachable state of the kept connections is well typed, and a call *)
(* that runs has a connection to run on (_ssh_reuse.py, client.py).        *)
THEOREM PoolTypes == Spec => []TypeOK
<1>1. PoolInv => TypeOK BY DEF PoolInv
<1> QED BY <1>1, PoolInvariant, PTL

(* An open connection without users has a timer that will close it         *)
(* (PooledConnection.release, _expire).                                    *)
THEOREM IdleStaysWatched == Spec => []IdleIsWatched
<1>1. PoolInv => IdleIsWatched BY DEF PoolInv, Watched, IdleIsWatched
<1> QED BY <1>1, PoolInvariant, PTL

(* Calls that start together connect once: a kept connection is never      *)
(* replaced by another (_pooled_connection).                               *)
THEOREM KeptStays == Spec => KeptIsNotReplaced
<1>1. PoolInv /\ [Next]_vars => [pool # None /\ pool' # None => pool' = pool]_vars
  BY ConnectingStep
<1> QED BY <1>1, PoolInvariant, PTL DEF Spec, KeptIsNotReplaced

-----------------------------------------------------------------------------
(* The uses of an entry.  A step of a thread changes what that thread runs *)
(* on, and no other does.                                                  *)
Moves(t) == \A s \in Threads \ {t} : pc'[s] = pc[s] /\ use'[s] = use[s]
LEMMA RunsMove ==
  ASSUME NEW t \in Threads, NEW e \in Conns, Moves(t), IsFiniteSet(RunsOn(e))
  PROVE  /\ IsFiniteSet(RunsOn(e)') /\ Cardinality(RunsOn(e)) \in Nat
         /\ Cardinality(RunsOn(e)') \in Nat
         /\ Cardinality(RunsOn(e)') + One(t \in RunsOn(e))
              = Cardinality(RunsOn(e)) + One(t \in RunsOn(e)')
<1> DEFINE A == RunsOn(e)
           B == RunsOn(e)'
<1>1. A \ {t} = B \ {t}
  BY DEF Moves, RunsOn
<1>2. IsFiniteSet(A \ {t}) /\ Cardinality(A \ {t}) = Cardinality(A) - One(t \in A)
      /\ Cardinality(A) \in Nat /\ Cardinality(A \ {t}) \in Nat
  BY FS_RemoveElement, FS_CardinalityType DEF One
<1>3. B = IF t \in B THEN (B \ {t}) \cup {t} ELSE B \ {t}
  OBVIOUS
<1> HIDE DEF A, B
<1>4. IsFiniteSet(B) /\ Cardinality(B) = Cardinality(A \ {t}) + One(t \in B)
  <2>1. CASE t \in B
    <3>1. IsFiniteSet((A \ {t}) \cup {t})
          /\ Cardinality((A \ {t}) \cup {t}) = Cardinality(A \ {t}) + 1
      BY <1>2, FS_AddElement
    <3> QED BY <1>1, <1>3, <2>1, <3>1 DEF One
  <2>2. CASE t \notin B
    <3>1. B = A \ {t} /\ One(t \in B) = 0 BY <1>1, <1>3, <2>2 DEF One
    <3> QED BY <1>2, <3>1
  <2> QED BY <2>1, <2>2
<1>5. One(t \in A) \in {0, 1} /\ One(t \in B) \in {0, 1}
  BY DEF One
<1> QED BY <1>2, <1>4, <1>5 DEF A, B

(* What an entry is used for, as far as thread t is concerned.             *)
Load(t, e) == One(t \in RunsOn(e)) + One(sessEntry = e) + One(LeftBehind(e))

LEMMA CountStep ==
  ASSUME NEW t \in Threads, NEW e \in Conns, Moves(t), Counted(e),
         users[e] \in Nat, users'[e] \in Nat,
         users'[e] + Load(t, e) >= users[e] + Load(t, e)'
  PROVE  Counted(e)'
<1>1. /\ IsFiniteSet(RunsOn(e)') /\ Cardinality(RunsOn(e)) \in Nat
      /\ Cardinality(RunsOn(e)') \in Nat
      /\ Cardinality(RunsOn(e)') + One(t \in RunsOn(e))
           = Cardinality(RunsOn(e)) + One(t \in RunsOn(e)')
  BY RunsMove DEF Counted
<1>2. /\ One(t \in RunsOn(e)) \in {0, 1} /\ One(sessEntry = e) \in {0, 1}
      /\ One(LeftBehind(e)) \in {0, 1} /\ One(t \in RunsOn(e)') \in {0, 1}
      /\ One(sessEntry' = e) \in {0, 1} /\ One(LeftBehind(e)') \in {0, 1}
  BY DEF One
<1>3. users[e] >= Cardinality(RunsOn(e)) + One(sessEntry = e) + One(LeftBehind(e))
  BY DEF Counted
<1>4. users'[e] + One(t \in RunsOn(e)) + One(sessEntry = e) + One(LeftBehind(e)) >=
        users[e] + One(t \in RunsOn(e)') + One(sessEntry' = e) + One(LeftBehind(e)')
  BY <1>2 DEF Load
<1>5. users'[e] >= Cardinality(RunsOn(e)') + One(sessEntry' = e) + One(LeftBehind(e)')
  BY <1>1, <1>2, <1>3, <1>4
<1> QED BY <1>1, <1>5 DEF Counted

(* An entry in use has users.                                              *)
LEMMA UsedHasUsers ==
  ASSUME NEW e \in Conns, Counted(e), users[e] \in Nat, users[e] = 0
  PROVE  RunsOn(e) = {} /\ sessEntry # e /\ ~LeftBehind(e)
<1>1. Cardinality(RunsOn(e)) \in Nat
  BY FS_CardinalityType DEF Counted
<1>2. Cardinality(RunsOn(e)) = 0 /\ One(sessEntry = e) = 0 /\ One(LeftBehind(e)) = 0
  BY <1>1 DEF Counted, One
<1> QED BY <1>2, FS_EmptySet DEF Counted, One

(* A connection that was just opened for a call is used by that call only. *)
LEMMA OpenCounted ==
  ASSUME PoolInv, NEW t \in Threads, NEW e \in Conns, conn[e] = "unused", Moves(t), users'[e] = 1,
         UNCHANGED <<sessEntry, block, local>>
  PROVE  Counted(e)'
<1>1. e \notin MaybeOpened
  BY Placeholder DEF MaybeOpened, Opened
<1>2. RunsOn(e) = {} /\ sessEntry # e /\ ~LeftBehind(e)
  BY <1>1 DEF PoolInv, References, RunsOn, LeftBehind
<1>3. IsFiniteSet(RunsOn(e)) /\ Cardinality(RunsOn(e)) = 0
  BY <1>2, FS_EmptySet
<1>4. IsFiniteSet(RunsOn(e)') /\ Cardinality(RunsOn(e)') \in Nat
      /\ Cardinality(RunsOn(e)') + One(t \in RunsOn(e))
           = Cardinality(RunsOn(e)) + One(t \in RunsOn(e)')
  BY <1>3, RunsMove
<1>5. Cardinality(RunsOn(e)') <= 1
  BY <1>3, <1>4 DEF One
<1>6. sessEntry' # e /\ ~LeftBehind(e)'
  BY <1>2 DEF LeftBehind
<1> QED BY <1>4, <1>5, <1>6 DEF Counted, One

(* A step that neither changes who runs on what nor counts a use.          *)
LEMMA SameCount ==
  ASSUME NEW e \in Conns, Counted(e), RunsOn(e)' = RunsOn(e),
         users'[e] = users[e], users[e] \in Nat,
         sessEntry' = sessEntry, LeftBehind(e)' => LeftBehind(e)
  PROVE  Counted(e)'
<1>1. One(LeftBehind(e)') <= One(LeftBehind(e)) /\ One(LeftBehind(e)') \in {0, 1}
      /\ One(LeftBehind(e)) \in {0, 1} /\ One(sessEntry = e) \in {0, 1}
  BY DEF One
<1>2. Cardinality(RunsOn(e)) \in Nat BY FS_CardinalityType DEF Counted
<1>3. users[e] >= Cardinality(RunsOn(e)) + One(sessEntry = e) + One(LeftBehind(e)')
  BY <1>1, <1>2 DEF Counted
<1> QED BY <1>3 DEF Counted

OneOwner == \A s, t \in Owners : s = t

LEMMA CountedStep == CountInv /\ OneOwner /\ Next => \A e \in Conns : Counted(e)'
<1> SUFFICES ASSUME CountInv, OneOwner, Next, NEW e \in Conns PROVE Counted(e)'
  OBVIOUS
<1>1. PoolInv /\ TypeOK /\ TypeOK' /\ Counted(e) /\ users[e] \in Nat /\ users'[e] \in Nat
      /\ None \notin Conns
  BY TypeStep, Placeholder DEF CountInv, PoolInv, TypeOK
<1>2. /\ pc \in [Threads -> Labels] /\ use \in [Threads -> MaybeConn] /\ users \in [Conns -> Nat]
      /\ seen \in [Threads -> MaybeConn] /\ local \in [Threads -> MaybeConn]
      /\ block \in [Threads -> {"none", "in", "nested"}]
  BY <1>1 DEF TypeOK, Labels
<1> USE <1>2 DEF connVars, useVars, timerVars, sessVars, threadVars, Set, Goto
<1>3. ASSUME NEW t \in Threads, CallStep(t) PROVE Counted(e)'
  <2>0. /\ pc[t] = "use" => seen[t] \in Conns
        /\ taking = t => seen[t] \in Conns /\ pc[t] \in {"take", "retake"}
        /\ pc[t] \in {"open", "run", "join", "enter"} => use[t] \in Conns
    BY <1>1, Placeholder DEF PoolInv, Reads, TypeOK, MaybeConn
  <2>a. ASSUME NEW d \in Conns, UNCHANGED <<sessEntry, block, local>>, Moves(t), Acquire(d),
               ~(t \in RunsOn(e)) \/ d # e, t \in RunsOn(e)' => d = e \/ t \in RunsOn(e)
        PROVE  Counted(e)'
    <3>1. LeftBehind(e)' = LeftBehind(e) BY <2>a DEF LeftBehind
    <3>2. users'[e] = users[e] + One(d = e) BY <2>a DEF Acquire, One
    <3>3. One(t \in RunsOn(e)') <= One(t \in RunsOn(e)) + One(d = e)
      BY <2>a DEF One
    <3>4. /\ One(t \in RunsOn(e)) \in {0, 1} /\ One(sessEntry = e) \in {0, 1}
          /\ One(d = e) \in {0, 1}
          /\ One(LeftBehind(e)) \in {0, 1} /\ One(t \in RunsOn(e)') \in {0, 1}
      BY DEF One
    <3>5. Load(t, e)' = One(t \in RunsOn(e)') + One(sessEntry = e) + One(LeftBehind(e))
      BY <2>a, <3>1 DEF Load
    <3>6. users'[e] + Load(t, e) >= users[e] + Load(t, e)'
      BY <1>1, <3>2, <3>3, <3>4, <3>5 DEF Load
    <3> QED BY <1>1, <2>a, <3>6, CountStep
  <2>b. ASSUME NEW d \in Conns, UNCHANGED <<sessEntry, block, local>>, Moves(t),
               users' = [users EXCEPT ![d] = IF @ = 0 THEN 0 ELSE @ - 1],
               t \in RunsOn(d), t \notin RunsOn(e)', d # e => t \notin RunsOn(e)
        PROVE  Counted(e)'
    <3>1. LeftBehind(e)' = LeftBehind(e) BY <2>b DEF LeftBehind
    <3>2. d = e => users[e] # 0 BY <1>1, <2>b, UsedHasUsers
    <3>3. users'[e] + One(d = e) = users[e] BY <1>1, <2>b, <3>2 DEF One
    <3>4. One(t \in RunsOn(e)') = 0 /\ One(t \in RunsOn(e)) = One(d = e)
      BY <2>b DEF One
    <3>5. One(sessEntry = e) \in {0, 1} /\ One(d = e) \in {0, 1} /\ One(LeftBehind(e)) \in {0, 1}
      BY DEF One
    <3>6. Load(t, e)' = One(t \in RunsOn(e)') + One(sessEntry = e) + One(LeftBehind(e))
      BY <2>b, <3>1 DEF Load
    <3>7. users'[e] + Load(t, e) >= users[e] + Load(t, e)'
      BY <1>1, <3>3, <3>4, <3>5, <3>6 DEF Load
    <3> QED BY <1>1, <2>b, <3>7, CountStep
  <2>c. ASSUME UNCHANGED <<users, use, sessEntry, block, local>>,
               \A s \in Threads : pc'[s] \in {"open", "run", "join", "enter"} <=>
                                  pc[s] \in {"open", "run", "join", "enter"}
        PROVE  Counted(e)'
    <3>1. RunsOn(e)' = RunsOn(e) /\ LeftBehind(e)' = LeftBehind(e) BY <2>c DEF RunsOn, LeftBehind
    <3> QED BY <1>1, <2>c, <3>1, SameCount
  <2>1. CASE \/ Begin(t) \/ ReadHeld(t) \/ EndBorrowed(t) \/ CheckKept(t) \/ NoneKept(t)
    BY <2>c, <2>1 DEF Begin, ReadHeld, EndBorrowed, CheckKept, NoneKept
  <2>2. CASE LockConnect(t) \/ ConnectFails(t) \/ OpenChannel(t) \/ Drop(t) \/ CheckSession(t)
    BY <2>c, <2>2 DEF LockConnect, ConnectFails, OpenChannel, Drop, CheckSession
  <2>3. CASE UseSession(t)
    <3>1. Moves(t) /\ t \notin RunsOn(e) /\ (t \in RunsOn(e)' => seen[t] = e)
      BY <2>3 DEF UseSession, Moves, RunsOn
    <3> QED BY <2>0, <2>a, <2>3, <3>1 DEF UseSession
  <2>4. CASE TakeKept(t)
    <3>1. Moves(t) /\ t \notin RunsOn(e) /\ (t \in RunsOn(e)' => seen[t] = e)
      BY <2>0, <2>4 DEF TakeKept, Took, Moves, RunsOn
    <3> QED BY <2>0, <2>a, <2>4, <3>1 DEF TakeKept
  <2>d. ASSUME NEW d \in Conns, conn[d] = "unused",
               users' = Set(users, d, 1), use' = Set(use, t, d),
               pc[t] \notin {"open", "run", "join", "enter"}, Moves(t),
               UNCHANGED <<sessEntry, block, local>>
        PROVE  Counted(e)'
    <3>1. CASE d = e
      BY <1>1, <2>d, <3>1, OpenCounted
    <3>2. CASE d # e
      <4>1. RunsOn(e)' = RunsOn(e)
        BY <2>d, <3>2 DEF Moves, RunsOn
      <4>2. LeftBehind(e)' => LeftBehind(e) BY <2>d DEF LeftBehind
      <4> QED BY <1>1, <2>d, <3>2, <4>1, <4>2, SameCount
    <3> QED BY <3>1, <3>2
  <2>5. CASE Connect(t)
    <3>1. Moves(t) BY <2>5 DEF Connect, Moves
    <3> QED BY <2>5, <2>d, <3>1, FreshIsUnused DEF Connect
  <2>6. CASE OpenOwn(t)
    <3>1. CASE UNCHANGED <<connVars, users, use>> /\ Goto(t, "base")
      BY <2>6, <2>c, <3>1 DEF OpenOwn
    <3>2. ASSUME NEW d \in Conns, conn[d] = "unused",
                 users' = Set(users, d, 1), use' = Set(use, t, d),
                 Goto(t, "run")
          PROVE  Counted(e)'
      <4>1. Moves(t) BY <2>6, <3>2 DEF OpenOwn, Moves
      <4> QED BY <2>6, <2>d, <3>2, <4>1 DEF OpenOwn
    <3> QED BY <2>6, <3>1, <3>2, FreshIsUnused DEF OpenOwn
  <2>7. CASE Refused(t)
    <3>1. Moves(t) /\ t \in RunsOn(use[t]) /\ t \notin RunsOn(e)'
          /\ (use[t] # e => t \notin RunsOn(e))
      BY <2>7 DEF Refused, Moves, RunsOn
    <3> QED BY <2>0, <2>7, <2>b, <3>1 DEF Refused, Release
  <2>8. CASE OpenFails(t)
    <3>1. Moves(t) /\ t \in RunsOn(use[t]) /\ t \notin RunsOn(e)'
          /\ (use[t] # e => t \notin RunsOn(e))
      BY <2>8 DEF OpenFails, Moves, RunsOn
    <3> QED BY <2>0, <2>8, <2>b, <3>1 DEF OpenFails, Release
  <2>9. CASE Done(t)
    <3>1. Moves(t) /\ t \in RunsOn(use[t]) /\ t \notin RunsOn(e)'
          /\ (use[t] # e => t \notin RunsOn(e))
      BY <2>9 DEF Done, Moves, RunsOn
    <3> QED BY <2>0, <2>9, <2>b, <3>1 DEF Done
  <2>10. CASE Unlist(t)
    <3>1. RunsOn(e)' = RunsOn(e) /\ users' = users /\ sessEntry' = None /\ Moves(t)
      BY <2>10 DEF Unlist, RunsOn, Moves
    <3>2. LeftBehind(e)' => LeftBehind(e) \/ sessEntry = e
      BY <2>10 DEF Unlist, LeftBehind
    <3>3. One(sessEntry' = e) + One(LeftBehind(e)') <= One(sessEntry = e) + One(LeftBehind(e))
      BY <1>1, <3>1, <3>2 DEF One
    <3>4. users'[e] + Load(t, e) >= users[e] + Load(t, e)'
      BY <1>1, <3>1, <3>3 DEF Load, One
    <3> QED BY <1>1, <3>1, <3>4, CountStep
  <2>11. CASE Join(t)
    <3>1. /\ Moves(t) /\ sessEntry' = use[t] /\ RunsOn(e)' = RunsOn(e)
          /\ users'[e] = users[e] + One(use[t] = e)
      BY <2>11 DEF Join, Acquire, Moves, RunsOn, One
    <3>2. LeftBehind(e)' => use[t] # e /\ (LeftBehind(e) \/ sessEntry = e)
      BY <2>11 DEF Join, LeftBehind
    <3>3. One(sessEntry' = e) + One(LeftBehind(e)') <=
            One(sessEntry = e) + One(LeftBehind(e)) + One(use[t] = e)
      BY <3>1, <3>2 DEF One
    <3>4. users'[e] + Load(t, e) >= users[e] + Load(t, e)'
      BY <1>1, <3>1, <3>3 DEF Load, One
    <3> QED BY <1>1, <3>1, <3>4, CountStep
  <2> QED BY <1>3, <2>1, <2>2, <2>3, <2>4, <2>5, <2>6, <2>7, <2>8, <2>9, <2>10, <2>11 DEF CallStep
<1>4. ASSUME NEW t \in Threads, SessionStep(t) PROVE Counted(e)'
  <2>1. CASE Enter(t) \/ EnterNested(t) \/ LeaveNested(t)
    <3>1. RunsOn(e)' = RunsOn(e)
      BY <2>1 DEF Enter, EnterNested, LeaveNested, RunsOn
    <3>2. LeftBehind(e)' => LeftBehind(e)
      BY <2>1 DEF Enter, EnterNested, LeaveNested, LeftBehind
    <3>3. users' = users /\ sessEntry' = sessEntry BY <2>1 DEF Enter, EnterNested, LeaveNested
    <3> QED BY <1>1, <3>1, <3>2, <3>3, SameCount
  <2>2. CASE EnterSession(t)
    <3>1. /\ Moves(t) /\ users' = users /\ sessEntry' = use[t]
          /\ t \notin RunsOn(e)' /\ (t \in RunsOn(e) <=> use[t] = e)
      BY <2>2 DEF EnterSession, Moves, RunsOn
    <3>2. LeftBehind(e)' => use[t] # e /\ (LeftBehind(e) \/ sessEntry = e)
      BY <2>2 DEF EnterSession, LeftBehind
    <3>3. One(t \in RunsOn(e)') + One(sessEntry' = e) + One(LeftBehind(e)') <=
            One(t \in RunsOn(e)) + One(sessEntry = e) + One(LeftBehind(e))
      BY <3>1, <3>2 DEF One
    <3>4. users'[e] + Load(t, e) >= users[e] + Load(t, e)'
      BY <1>1, <3>1, <3>3 DEF Load, One
    <3> QED BY <1>1, <3>1, <3>4, CountStep
  <2>3. CASE Leave(t)
    <3> DEFINE d == IF sessEntry = None THEN local[t] ELSE sessEntry
    <3>1. t \in Owners /\ local[t] # None /\ pc[t] = "base" /\ block[t] = "in"
      BY <1>1, <2>3 DEF Leave, CountInv, OwnersOpen, PoolInv, Reads
    <3>2. d \in Conns
      BY <1>1, <3>1 DEF TypeOK, MaybeConn
    <3>3. sessEntry = d \/ LeftBehind(d)
      BY <1>1, <3>1, <3>2 DEF LeftBehind
    <3>4. d = e => users[e] # 0
      BY <1>1, <3>3, UsedHasUsers
    <3>5. users' = [users EXCEPT ![d] = IF @ = 0 THEN 0 ELSE @ - 1] /\ sessEntry' = None
      BY <2>3 DEF Leave, Release
    <3>6. ~LeftBehind(e)'
      <4>1. \A s \in Threads : block[s] = "in" => s = t
        BY <3>1 DEF OneOwner, CountInv, OwnersOpen
      <4> QED BY <2>3, <4>1 DEF Leave, LeftBehind
    <3>7. Moves(t) /\ t \notin RunsOn(e) /\ t \notin RunsOn(e)'
      BY <2>3, <3>1 DEF Leave, Moves, RunsOn
    <3> HIDE DEF d
    <3>8. users'[e] + One(d = e) = users[e]
      BY <1>1, <3>2, <3>4, <3>5 DEF One
    <3>9. One(d = e) <= One(sessEntry = e) + One(LeftBehind(e))
      BY <3>3 DEF One
    <3>10. users'[e] + Load(t, e) >= users[e] + Load(t, e)'
      BY <1>1, <3>5, <3>6, <3>7, <3>8, <3>9 DEF Load, One
    <3> QED BY <1>1, <3>7, <3>10, CountStep
  <2> QED BY <1>4, <2>1, <2>2, <2>3 DEF SessionStep
<1>5. ASSUME UNCHANGED <<users, sessEntry, pc, use, block, local>> PROVE Counted(e)'
  <2>1. RunsOn(e)' = RunsOn(e) /\ LeftBehind(e)' = LeftBehind(e) BY <1>5 DEF RunsOn, LeftBehind
  <2> QED BY <1>1, <1>5, <2>1, SameCount
<1>6. ASSUME NEW d \in Conns, TimerStep(d) \/ Die(d) PROVE Counted(e)'
  BY <1>5, <1>6 DEF TimerStep, Age, Fire, Expire, ExpireClose, Die
<1>7. CASE ReleaseSsh \/ ClosePoolList \/ ClosePool
  BY <1>5, <1>7 DEF ReleaseSsh, ClosePoolList, ClosePool
<1> QED BY <1>3, <1>4, <1>6, <1>7 DEF Next

(* Only owners open blocks.                                                *)
LEMMA OwnersStep == PoolInv /\ OwnersOpen /\ Next => OwnersOpen'
<1> SUFFICES ASSUME PoolInv, OwnersOpen, Next PROVE OwnersOpen'
  OBVIOUS
<1>1. /\ pc \in [Threads -> Labels] /\ wants \in [Threads -> {"call", "session"}]
      /\ block \in [Threads -> {"none", "in", "nested"}]
  BY DEF PoolInv, TypeOK, Labels
<1> USE <1>1 DEF OwnersOpen, threadVars, Set, Goto
<1>2. ASSUME NEW t \in Threads, CallStep(t) PROVE OwnersOpen'
  <2>1. CASE Begin(t) \/ ReadHeld(t) \/ EndBorrowed(t) BY <2>1 DEF Begin, ReadHeld, EndBorrowed
  <2>2. CASE UseSession(t) \/ CheckKept(t) BY <2>2 DEF UseSession, CheckKept
  <2>3. CASE TakeKept(t) BY <2>3, TakenLeadsTo DEF TakeKept, Took
  <2>4. CASE NoneKept(t) \/ LockConnect(t) BY <2>4 DEF NoneKept, LockConnect
  <2>5. CASE Connect(t) BY <2>5, TakenLeadsTo DEF Connect
  <2>6. CASE ConnectFails(t) \/ OpenChannel(t) \/ Refused(t)
    BY <2>6 DEF ConnectFails, OpenChannel, Refused
  <2>7. CASE OpenOwn(t) \/ OpenFails(t) \/ Drop(t) BY <2>7 DEF OpenOwn, OpenFails, Drop
  <2>8. CASE CheckSession(t) \/ Unlist(t) BY <2>8 DEF CheckSession, Unlist
  <2>9. CASE Join(t) \/ Done(t) BY <2>9 DEF Join, Done
  <2> QED BY <1>2, <2>1, <2>2, <2>3, <2>4, <2>5, <2>6, <2>7, <2>8, <2>9 DEF CallStep
<1>3. ASSUME NEW t \in Threads, SessionStep(t) PROVE OwnersOpen'
  <2>1. CASE Enter(t) BY <2>1 DEF Enter
  <2>2. CASE EnterSession(t) BY <2>2 DEF EnterSession
  <2>3. CASE EnterNested(t) BY <2>3 DEF EnterNested
  <2>4. CASE Leave(t) \/ LeaveNested(t) BY <2>4 DEF Leave, LeaveNested
  <2> QED BY <1>3, <2>1, <2>2, <2>3, <2>4 DEF SessionStep
<1>4. ASSUME NEW d \in Conns, TimerStep(d) \/ Die(d) PROVE OwnersOpen'
  BY <1>4 DEF TimerStep, Age, Fire, Expire, ExpireClose, Die
<1>5. CASE ReleaseSsh \/ ClosePoolList \/ ClosePool
  BY <1>5 DEF ReleaseSsh, ClosePoolList, ClosePool
<1> QED BY <1>2, <1>3, <1>4, <1>5 DEF Next

(* What is about to be closed as idle stays unused, and nobody takes it.   *)
ExpiredStay == \A e \in expiring : users[e] = 0 /\ e \in idle
NoneStale ==
  \A t \in Threads : pc[t] \in {"held", "use"} /\ seen[t] \in idle => users[seen[t]] > 0
TakenStays == taking # None => seen[taking] \notin expiring

(* What a step does to the uses: it gives one back, of an entry that has   *)
(* one, or takes one, of an entry that is not about to be closed.          *)
UsesStep ==
  /\ \A e \in Conns : e \in idle' => e \in idle /\ (users[e] > 0 => users'[e] > 0)
  /\ \A e \in expiring : e \in idle' /\ users'[e] = 0
LEMMA UsesKept ==
  ASSUME CountInv, NEW t \in Threads, CallStep(t) \/ SessionStep(t)
  PROVE  UsesStep
<1>1. PoolInv /\ TypeOK /\ OwnersOpen /\ expiring \subseteq Conns /\ idle \subseteq Opened
      /\ None \notin Threads /\ None \notin Conns /\ users \in [Conns -> Nat]
      /\ (\A e \in expiring : users[e] = 0 /\ e \in idle)
      /\ (taking # None => seen[taking] \notin expiring)
  BY Placeholder DEF CountInv, PoolInv, TypeOK, References, Expired
<1>2. \A e \in Conns : users[e] = 0 => RunsOn(e) = {} /\ sessEntry # e /\ ~LeftBehind(e)
  BY <1>1, UsedHasUsers DEF CountInv
<1>3. /\ pc[t] = "use" => seen[t] \in Conns /\ seen[t] \notin expiring
      /\ taking = t => seen[t] \in Conns /\ seen[t] \notin expiring
      /\ pc[t] \in {"open", "run", "join", "enter"} => use[t] \in Conns /\ users[use[t]] > 0
  <2>1. pc[t] = "use" => seen[t] \in Conns
    BY <1>1 DEF PoolInv, Reads, TypeOK, MaybeConn
  <2>2. pc[t] = "use" => seen[t] \notin expiring
    BY <1>1 DEF CountInv, Expired
  <2>3. taking = t => seen[t] \in Conns /\ seen[t] \notin expiring
    BY <1>1 DEF PoolInv, Reads, TypeOK, MaybeConn
  <2>4. pc[t] \in {"open", "run", "join", "enter"} => use[t] \in Conns
    BY <1>1 DEF TypeOK, MaybeConn
  <2>5. pc[t] \in {"open", "run", "join", "enter"} => t \in RunsOn(use[t])
    BY DEF RunsOn
  <2> QED BY <1>1, <1>2, <2>1, <2>2, <2>3, <2>4, <2>5
<1>a. ASSUME NEW d \in Conns, Acquire(d), d \notin expiring PROVE UsesStep
  BY <1>1, <1>a DEF Acquire, UsesStep
<1>b. ASSUME NEW d \in Conns, users[d] > 0, idle' = idle \ {d},
             users' = [users EXCEPT ![d] = IF @ = 0 THEN 0 ELSE @ - 1]
      PROVE  UsesStep
  BY <1>1, <1>b DEF UsesStep
<1>c. ASSUME NEW d \in Conns, conn[d] = "unused", users' = Set(users, d, 1), idle' = idle
      PROVE  UsesStep
  BY <1>1, <1>c DEF UsesStep, Opened, Set
<1>d. CASE users' = users /\ idle' = idle
  BY <1>1, <1>d DEF UsesStep
<1> USE DEF useVars
<1>4. CASE CallStep(t)
  <2>1. CASE \/ Begin(t) \/ ReadHeld(t) \/ EndBorrowed(t) \/ CheckKept(t) \/ NoneKept(t)
             \/ LockConnect(t) \/ ConnectFails(t) \/ OpenChannel(t) \/ Drop(t) \/ CheckSession(t)
             \/ Unlist(t)
    BY <1>d, <2>1 DEF Begin, ReadHeld, EndBorrowed, CheckKept, NoneKept, LockConnect, ConnectFails,
                      OpenChannel, Drop, CheckSession, Unlist
  <2>2. CASE UseSession(t) BY <1>3, <1>a, <2>2 DEF UseSession
  <2>3. CASE TakeKept(t) BY <1>3, <1>a, <2>3 DEF TakeKept
  <2>4. CASE Connect(t) BY <1>c, <2>4, FreshIsUnused DEF Connect
  <2>5. CASE OpenOwn(t) BY <1>c, <1>d, <2>5, FreshIsUnused DEF OpenOwn
  <2>6. CASE Refused(t) BY <1>3, <1>b, <2>6 DEF Refused, Release
  <2>7. CASE OpenFails(t) BY <1>3, <1>b, <2>7 DEF OpenFails, Release
  <2>8. CASE Done(t) BY <1>3, <1>b, <2>8 DEF Done
  <2>9. CASE Join(t)
    <3>1. use[t] \notin expiring BY <1>1, <1>3, <2>9 DEF Join
    <3> QED BY <1>3, <1>a, <2>9, <3>1 DEF Join
  <2> QED BY <1>4, <2>1, <2>2, <2>3, <2>4, <2>5, <2>6, <2>7, <2>8, <2>9 DEF CallStep
<1>5. CASE SessionStep(t)
  <2>1. CASE Enter(t) \/ EnterSession(t) \/ EnterNested(t) \/ LeaveNested(t)
    BY <1>d, <2>1 DEF Enter, EnterSession, EnterNested, LeaveNested
  <2>2. CASE Leave(t)
    <3> DEFINE d == IF sessEntry = None THEN local[t] ELSE sessEntry
    <3>1. local[t] # None BY <1>1, <2>2 DEF Leave, PoolInv, Reads
    <3>2. d \in Conns BY <1>1, <3>1 DEF TypeOK, MaybeConn
    <3>3. sessEntry = d \/ LeftBehind(d) BY <1>1, <2>2, <3>1, <3>2 DEF Leave, LeftBehind
    <3>4. users[d] > 0 BY <1>1, <1>2, <3>2, <3>3
    <3> QED BY <1>b, <2>2, <3>2, <3>4 DEF Leave, Release
  <2> QED BY <1>5, <2>1, <2>2 DEF SessionStep
<1> QED BY <1>4, <1>5

LEMMA ExpiredStep == CountInv /\ Next => Expired'
<1> SUFFICES ASSUME CountInv, Next PROVE Expired'
  OBVIOUS
<1>1. ExpiredStay' /\ NoneStale' /\ TakenStays' => Expired'
  BY DEF Expired, ExpiredStay, NoneStale, TakenStays
<1>2. /\ ExpiredStay /\ NoneStale /\ TakenStays /\ None \notin Threads /\ None \notin Conns
      /\ idle \subseteq Conns
      /\ pc \in [Threads -> Labels] /\ seen \in [Threads -> MaybeConn]
      /\ pool \in MaybeConn /\ taking \in Threads \cup {None} /\ sessEntry \in MaybeConn
      /\ users \in [Conns -> Nat]
  BY Placeholder
     DEF CountInv, PoolInv, TypeOK, Labels, Expired, ExpiredStay, NoneStale, TakenStays
<1>a. idle' \subseteq Conns BY TypeStep DEF CountInv, TypeOK
<1>3. sessEntry \in Conns => users[sessEntry] > 0
  BY <1>2, UsedHasUsers DEF CountInv
<1> USE <1>2 DEF connVars, useVars, timerVars, sessVars, threadVars, Set, Goto
<1>4. ASSUME NEW t \in Threads, CallStep(t) PROVE Expired'
  <2>1. UsesStep BY <1>4, UsesKept
  <2>2. expiring' = expiring
    BY <1>4 DEF CallStep, Begin, ReadHeld, EndBorrowed, UseSession, CheckKept, TakeKept, NoneKept,
        LockConnect, Connect, ConnectFails, OpenChannel, Refused, OpenOwn, OpenFails, Drop,
        CheckSession, Unlist, Join, Done
  <2>3. ExpiredStay' BY <2>1, <2>2 DEF UsesStep, ExpiredStay
  <2>4. \A s \in Threads \ {t} : pc'[s] = pc[s] /\ seen'[s] = seen[s]
    BY <1>4 DEF CallStep, Begin, ReadHeld, EndBorrowed, UseSession, CheckKept, TakeKept, Took,
         NoneKept,
        LockConnect, Connect, ConnectFails, OpenChannel, Refused, OpenOwn, OpenFails, Drop,
        CheckSession, Unlist, Join, Done
  <2>5. pc'[t] \in {"held", "use"} /\ seen'[t] \in idle' => users'[seen'[t]] > 0
    <3>1. CASE Begin(t) BY <1>3, <3>1 DEF Begin
    <3>2. CASE ReadHeld(t) BY <3>2 DEF ReadHeld, NoneStale
    <3>3. CASE ~Begin(t) /\ ~ReadHeld(t)
      <4>1. AfterTake(t) \notin {"held", "use"} BY TakenLeadsTo
      <4>2. pc'[t] \notin {"held", "use"}
        BY <1>4, <3>3, <4>1
             DEF CallStep, EndBorrowed, UseSession, CheckKept, TakeKept, Took, NoneKept,
           LockConnect, Connect, ConnectFails, OpenChannel, Refused, OpenOwn, OpenFails, Drop,
           CheckSession, Unlist, Join, Done
      <4> QED BY <4>2
    <3> QED BY <3>1, <3>2, <3>3
  <2>6. NoneStale' BY <1>a, <2>1, <2>4, <2>5 DEF UsesStep, NoneStale
  <2>7. TakenStays'
    <3>1. CASE CheckKept(t)
      <4>1. pool \in Conns /\ (users[pool] > 0 \/ pool \notin idle)
        BY <3>1 DEF CheckKept, KeptUsable, Usable, MaybeConn
      <4>2. pool \notin expiring BY <4>1 DEF ExpiredStay
      <4> QED BY <2>2, <3>1, <4>2 DEF CheckKept, TakenStays
    <3>2. CASE TakeKept(t) BY <3>2 DEF TakeKept, Took, TakenStays
    <3>3. CASE ~CheckKept(t) /\ ~TakeKept(t)
      <4>1. taking' = taking /\ (taking = t => pc[t] \in {"take", "retake"})
        BY <1>4, <3>3 DEF CallStep, Begin, ReadHeld, EndBorrowed, UseSession, NoneKept,
           LockConnect, Connect, ConnectFails, OpenChannel, Refused, OpenOwn, OpenFails, Drop,
           CheckSession, Unlist, Join, Done, CountInv, PoolInv, Reads
      <4>2. pc[t] \in {"take", "retake"} => taking = None
        BY <1>4, <3>3 DEF CallStep, Begin, ReadHeld, EndBorrowed, UseSession, NoneKept,
           LockConnect, Connect, ConnectFails, OpenChannel, Refused, OpenOwn, OpenFails, Drop,
           CheckSession, Unlist, Join, Done
      <4> QED BY <2>2, <2>4, <4>1, <4>2 DEF TakenStays
    <3> QED BY <3>1, <3>2, <3>3
  <2> QED BY <1>1, <2>3, <2>6, <2>7
<1>5. ASSUME NEW t \in Threads, SessionStep(t) PROVE Expired'
  <2>1. UsesStep BY <1>5, UsesKept
  <2>2. UNCHANGED <<expiring, seen, taking>> /\ pc'[t] \notin {"held", "use"}
        /\ \A s \in Threads \ {t} : pc'[s] = pc[s]
    BY <1>5 DEF SessionStep, Enter, EnterSession, EnterNested, Leave, LeaveNested
  <2>3. ExpiredStay' BY <2>1, <2>2 DEF UsesStep, ExpiredStay
  <2>4. NoneStale' BY <1>a, <2>1, <2>2 DEF UsesStep, NoneStale
  <2>5. TakenStays' BY <2>2 DEF TakenStays
  <2> QED BY <1>1, <2>3, <2>4, <2>5
<1>6. ASSUME NEW d \in Conns, TimerStep(d) \/ Die(d) PROVE Expired'
  <2>1. CASE Age(d)
    BY <1>1, <2>1 DEF Age, ExpiredStay, NoneStale, TakenStays
  <2>2. CASE Expire(d)
    BY <1>1, <2>2 DEF Expire, ExpiredStay, NoneStale, TakenStays
  <2>3. CASE Fire(d) \/ ExpireClose(d) \/ Die(d)
    BY <1>1, <2>3 DEF Fire, ExpireClose, Die, ExpiredStay, NoneStale, TakenStays
  <2> QED BY <1>6, <2>1, <2>2, <2>3 DEF TimerStep
<1>7. CASE ReleaseSsh \/ ClosePoolList \/ ClosePool
  BY <1>1, <1>7 DEF ReleaseSsh, ClosePoolList, ClosePool, ExpiredStay, NoneStale, TakenStays
<1> QED BY <1>4, <1>5, <1>6, <1>7 DEF Next

LEMMA CountInit == Init => CountInv
<1> SUFFICES ASSUME Init PROVE CountInv
  OBVIOUS
<1>1. PoolInv /\ OwnersOpen /\ Expired
  BY PoolInit DEF Init, OwnersOpen, Expired
<1>2. ASSUME NEW e \in Conns PROVE Counted(e)
  <2>1. RunsOn(e) = {} /\ ~LeftBehind(e) /\ sessEntry # e /\ users[e] = 0
    BY Placeholder DEF Init, RunsOn, LeftBehind
  <2> QED BY <2>1, FS_EmptySet DEF Counted, One
<1> QED BY <1>1, <1>2 DEF CountInv

LEMMA CountInvariant == ASSUME OneOwner PROVE Spec => []CountInv
<1>1. CountInv /\ [Next]_vars => CountInv'
  <2>1. ASSUME CountInv, Next PROVE CountInv'
    BY <2>1, TypeStep, ReferencesStep, ReadsStep, ConnectingStep, WatchedStep, OwnersStep,
       ExpiredStep, CountedStep DEF CountInv, PoolInv
  <2>2. ASSUME CountInv, UNCHANGED vars PROVE CountInv'
    <3>1. PoolInv' BY <2>2, PoolStays DEF CountInv
    <3>2. OwnersOpen' /\ Expired'
      BY <2>2 DEF CountInv, OwnersOpen, Expired, vars, useVars, timerVars, threadVars
    <3>3. \A e \in Conns : Counted(e)'
      BY <2>2 DEF CountInv, Counted, RunsOn, LeftBehind, vars, useVars, sessVars, threadVars
    <3> QED BY <3>1, <3>2, <3>3 DEF CountInv
  <2> QED BY <2>1, <2>2
<1> QED BY <1>1, CountInit, PTL DEF Spec

(* As long as one thread opens ssh_session() blocks, no connection is      *)
(* closed as idle under a running call: every call and block is counted,   *)
(* through reconnects and blocks that move, and the expiry goes by the     *)
(* count (PooledConnection, _pooled_connection, _on_kept_connection).      *)
THEOREM CallsStaySafe == ASSUME OneOwner PROVE Spec => []RunningCallsAreSafe
<1>1. CountInv => RunningCallsAreSafe
  <2> SUFFICES ASSUME CountInv PROVE RunningCallsAreSafe
    OBVIOUS
  <2>1. users \in [Conns -> Nat] /\ expiring \subseteq Conns
    BY DEF CountInv, PoolInv, TypeOK
  <2>2. ASSUME NEW e \in Conns
        PROVE users[e] >= Cardinality(RunsOn(e)) + (IF sessEntry = e THEN 1 ELSE 0)
    <3>1. Cardinality(RunsOn(e)) \in Nat BY FS_CardinalityType DEF CountInv, Counted
    <3> QED BY <2>1, <3>1 DEF CountInv, Counted, One
  <2>3. ExpirySparesUsers
    BY <2>1, UsedHasUsers DEF CountInv, Expired, ExpirySparesUsers
  <2> QED BY <2>2, <2>3 DEF RunningCallsAreSafe, CallsAreCounted
<1> QED BY <1>1, CountInvariant, PTL

================================================================================
