------------------------------ MODULE McpRentals ------------------------------
(***************************************************************************)
(* The rental ledger of the MCP server (src/lium/cli/mcp/tools.py): every  *)
(* `lium mcp` process of a machine keeps lists of the rentals its host has *)
(* not acknowledged, shares one directory of journals with the others and  *)
(* refuses a new rent beside an unsettled one.                             *)
(*                                                                         *)
(* A rental is one rent_pod call, with its own Idempotency-Key.  What the  *)
(* API did with it is `api`: the SDK's up(confirmed_only) and _replay_rent *)
(* answer as the module RentContract promises.  Everything a process keeps *)
(* in memory is lost by Crash; journals stay and their locks are dropped.  *)
(* Steps that the code runs under one lock are one action.                 *)
(***************************************************************************)
EXTENDS Naturals, FiniteSets

CONSTANTS
  Servers,     \* lium mcp processes of one account on one machine
  Rentals,     \* rent_pod calls
  Listings,    \* list_pods calls
  MaxCrashes,  \* bound: processes that stop, over the whole behaviour
  Nobody       \* no process, or no call

ASSUME McpAssumption ==
  /\ MaxCrashes \in Nat
  /\ Nobody \notin Servers \cup Rentals \cup Listings
  /\ Rentals \cap Listings = {} /\ Servers \cap (Rentals \cup Listings) = {}

VARIABLES
  api,      \* what the rent made so far: open, refused, a live pod, a pod gone
  acked,    \* the host showed that it knows the pod
  crashes,  \* processes that have stopped so far
  disk,     \* disk[r]: r's journal
  holder,   \* holder[r]: the process that locked the journal
  door,     \* the call that holds the account's admission lock
  server,   \* server[c]: the process call c runs in, or that adopted rental c
  pc,       \* where the call's worker thread is
  known,    \* known[r]: the rentals whose pods the host passed as known_pod_ids
  mem,      \* mem[r]: the _Rental object, without its locks and reports
  lists,    \* lists[r]: the lists of its process the rental is in
  handed,   \* handed[c]: rental.handed
  saving,   \* saving[r]: the event loop still has to save r, and on whose behalf
  adopter,  \* adopter[s]: who is inside _adopt, a rent_pod call or another thread
  passing,  \* passing[s]: a reconcile pass is under way (_reconciling)
  todo,     \* todo[s]: rentals of its snapshot it has not looked at yet
  verdict,  \* verdict[r]: how far the pass found r settled
  running   \* running[s]: the reconciler thread; "starting" until its first _adopt

worldVars == <<api, acked, crashes>>
diskVars == <<disk, holder>>
callVars == <<server, pc, known>>
memVars == <<mem, lists, handed, saving>>
keeperVars == <<adopter, passing, todo, verdict, running>>
vars == <<worldVars, diskVars, door, callVars, memVars, keeperVars>>

Calls == Rentals \cup Listings

(* "loading": taken by _RentalStore.load, not yet added to _unresolved.    *)
Lists == {"inFlight", "unresolved", "recovered", "handing", "delivered", "loading"}

Objects == [outcome : {"unsent", "none", "created", "rejected", "unknown"},
            named : BOOLEAN, request : BOOLEAN, cancelled : BOOLEAN,
            reported : BOOLEAN, delivered : BOOLEAN]
NewObject == [outcome |-> "unsent", named |-> FALSE, request |-> FALSE,
              cancelled |-> FALSE, reported |-> FALSE, delivered |-> FALSE]

Journals == [on : BOOLEAN, named : BOOLEAN, cancelled : BOOLEAN, delivered : BOOLEAN]
NoJournal == [on |-> FALSE, named |-> FALSE, cancelled |-> FALSE, delivered |-> FALSE]

(* Faulty variants, named ...Faulty, precede the definition they vary; no  *)
(* action uses them.  Here: the journal does not keep the cancellation.    *)
StateFaulty(m) == [on |-> TRUE, named |-> m.named, cancelled |-> FALSE, delivered |-> m.delivered]

(* _Rental.state and _Rental.from_state.                                   *)
State(m) == [on |-> TRUE, named |-> m.named, cancelled |-> m.cancelled, delivered |-> m.delivered]
FromState(j) == [outcome |-> IF j.named THEN "created" ELSE "unknown", named |-> j.named,
                 request |-> TRUE, cancelled |-> j.cancelled, reported |-> FALSE,
                 delivered |-> j.delivered]

Made(r) == api[r] \in {"live", "gone"}
In(s, list) == {r \in Rentals : server[r] = s /\ list \in lists[r]}
LoopBusy(s) == \E r \in Rentals : server[r] = s /\ saving[r] # "no"

TypeOK ==
  /\ api \in [Rentals -> {"unsent", "open", "refused", "live", "gone"}]
  /\ acked \in [Rentals -> BOOLEAN]
  /\ crashes \in 0..MaxCrashes
  /\ disk \in [Rentals -> Journals]
  /\ holder \in [Rentals -> Servers \cup {Nobody}]
  /\ door \in Rentals \cup {Nobody}
  /\ server \in [Calls -> Servers \cup {Nobody}]
  /\ pc \in [Calls -> {"idle", "enter", "adopting", "adopted", "admit", "check", "ready",
                       "submit", "send", "posted", "forget", "named", "track", "save",
                       "waiting", "returned", "done", "dead"}]
  /\ known \in [Rentals -> SUBSET Rentals]
  /\ mem \in [Rentals -> Objects]
  /\ lists \in [Rentals -> SUBSET Lists]
  /\ handed \in [Calls -> SUBSET Rentals]
  /\ saving \in [Rentals -> {"no", "deliver", "mark", "cancel"}]
  /\ adopter \in [Servers -> Rentals \cup Servers \cup {Nobody}]
  /\ passing \in [Servers -> BOOLEAN]
  /\ todo \in [Servers -> SUBSET Rentals]
  /\ verdict \in [Rentals -> {"none", "pending", "keep", "done"}]
  /\ running \in [Servers -> {"off", "starting", "on"}]
  /\ door # Nobody => pc[door] \in {"check", "ready", "submit", "forget"}

Init ==
  /\ api = [r \in Rentals |-> "unsent"]
  /\ acked = [r \in Rentals |-> FALSE]
  /\ crashes = 0
  /\ disk = [r \in Rentals |-> NoJournal]
  /\ holder = [r \in Rentals |-> Nobody]
  /\ door = Nobody
  /\ server = [c \in Calls |-> Nobody]
  /\ pc = [c \in Calls |-> "idle"]
  /\ known = [r \in Rentals |-> {}]
  /\ mem = [r \in Rentals |-> NewObject]
  /\ lists = [r \in Rentals |-> {}]
  /\ handed = [c \in Calls |-> {}]
  /\ saving = [r \in Rentals |-> "no"]
  /\ adopter = [s \in Servers |-> Nobody]
  /\ passing = [s \in Servers |-> FALSE]
  /\ todo = [s \in Servers |-> {}]
  /\ verdict = [r \in Rentals |-> "none"]
  /\ running = [s \in Servers |-> "off"]

Goto(c, label) == pc' = [pc EXCEPT ![c] = label]
Leave(rs, from) == lists' = [r \in Rentals |-> IF r \in rs THEN lists[r] \ from ELSE lists[r]]

(* _RentalStore.save, after the step's change of `mem`: the whole record,  *)
(* read under the store's lock, and the journal's lock with it.            *)
Save(r) ==
  IF mem'[r].request
    THEN /\ disk' = [disk EXCEPT ![r] = State(mem'[r])]
         /\ holder' = [holder EXCEPT ![r] = server[r]]
    ELSE UNCHANGED diskVars

(* _RentalStore.forget: the journal is unlinked, then its lock released.   *)
Forget(rs) ==
  /\ disk' = [r \in Rentals |-> IF r \in rs THEN NoJournal ELSE disk[r]]
  /\ holder' = [r \in Rentals |-> IF r \in rs THEN Nobody ELSE holder[r]]

(* _start_reconciler: at most one thread per process.                      *)
StartReconciler(s) ==
  running' = [running EXCEPT ![s] = IF @ = "off" THEN "starting" ELSE @]

(***************************************************************************)
(* The API and other clients of the account.                               *)
(***************************************************************************)

(* A rent that was sent runs: it makes its pod or is refused.              *)
ApiDecides(r) ==
  /\ api[r] = "open"
  /\ \E what \in {"live", "refused"} : api' = [api EXCEPT ![r] = what]
  /\ UNCHANGED <<acked, crashes, diskVars, door, callVars, memVars, keeperVars>>

(* The pod ends or is removed by another client.                           *)
PodEnds(r) ==
  /\ api[r] = "live"
  /\ api' = [api EXCEPT ![r] = "gone"]
  /\ UNCHANGED <<acked, crashes, diskVars, door, callVars, memVars, keeperVars>>

(***************************************************************************)
(* Adoption of journals no live process holds (_adopt).  load() claims     *)
(* them; they reach _unresolved in a second step, under _cleanup.          *)
(***************************************************************************)

Orphans == {r \in Rentals : disk[r].on /\ holder[r] = Nobody}

Load(s, who) ==
  /\ adopter[s] = Nobody /\ Orphans # {}
  /\ adopter' = [adopter EXCEPT ![s] = who]
  /\ holder' = [r \in Rentals |-> IF r \in Orphans THEN s ELSE holder[r]]
  /\ server' = [c \in Calls |-> IF c \in Orphans THEN s ELSE server[c]]
  /\ mem' = [r \in Rentals |-> IF r \in Orphans THEN FromState(disk[r]) ELSE mem[r]]
  /\ lists' = [r \in Rentals |-> IF r \in Orphans THEN {"loading"} ELSE lists[r]]
  /\ UNCHANGED <<worldVars, disk, door, known, handed, saving, passing, todo, verdict, running>>

(* The reconciler thread, or the reconcile of another tool call.           *)
LoadInBackground(s) == Load(s, s) /\ UNCHANGED pc

FindNoOrphan(s) ==
  /\ running[s] = "starting" /\ adopter[s] = Nobody /\ Orphans = {}
  /\ running' = [running EXCEPT ![s] = "on"]
  /\ UNCHANGED <<worldVars, diskVars, door, callVars, memVars, adopter, passing, todo, verdict>>

Enlist(s) ==
  /\ adopter[s] # Nobody
  /\ lists' = [r \in Rentals |-> IF r \in In(s, "loading") THEN {"unresolved"} ELSE lists[r]]
  /\ IF adopter[s] = s /\ running[s] = "starting"
       THEN running' = [running EXCEPT ![s] = "on"] ELSE StartReconciler(s)
  /\ adopter' = [adopter EXCEPT ![s] = Nobody]
  /\ IF adopter[s] \in Rentals THEN Goto(adopter[s], "adopted") ELSE UNCHANGED pc
  /\ UNCHANGED <<worldVars, diskVars, door, server, known, mem, handed, saving,
                 passing, todo, verdict>>

(***************************************************************************)
(* rent_pod, in a worker thread.                                           *)
(***************************************************************************)

(* The host passes the pods it holds; it can name any pod a list shows.    *)
Enter(r, s) ==
  /\ pc[r] = "idle" /\ ~LoopBusy(s)
  /\ server' = [server EXCEPT ![r] = s]
  /\ \E pods \in SUBSET {q \in Rentals : api[q] = "live"} : known' = [known EXCEPT ![r] = pods]
  /\ Goto(r, "enter")
  /\ UNCHANGED <<worldVars, diskVars, door, memVars, keeperVars>>

(* Its _reconcile: adopt first.  The pass that follows is BeginPass to     *)
(* FinishPass, or changes nothing when the listing fails.                  *)
AdoptFirst(r) ==
  /\ pc[r] = "enter" /\ adopter[server[r]] = Nobody
  /\ \/ Orphans = {} /\ Goto(r, "adopted")
        /\ UNCHANGED <<worldVars, diskVars, door, server, known, memVars, keeperVars>>
     \/ Load(server[r], r) /\ Goto(r, "adopting")

(* _forget_delivered with known_pod_ids.                                   *)
AckKnown(r) ==
  /\ pc[r] = "adopted"
  /\ LET done == {q \in In(server[r], "delivered") \cap known[r] : mem[q].named}
     IN  /\ acked' = [q \in Rentals |-> acked[q] \/ q \in done]
         /\ Leave(done, {"delivered"})
         /\ Forget(done)
  /\ Goto(r, "admit")
  /\ UNCHANGED <<api, crashes, door, server, known, mem, handed, saving, keeperVars>>

(* lock_admission, or its timeout: nothing is rented.                      *)
LockAdmission(r) ==
  /\ pc[r] = "admit"
  /\ \/ door = Nobody /\ door' = r /\ Goto(r, "check")
     \/ door # Nobody /\ Goto(r, "returned") /\ UNCHANGED door
  /\ UNCHANGED <<worldVars, diskVars, server, known, memVars, keeperVars>>

(* _hand_off_recovered: reserve the recovered rentals for this call.       *)
Recovered(c) ==
  IF c \in Rentals /\ mem[c].cancelled THEN {}
  ELSE {q \in In(server[c], "recovered") : ~mem[q].cancelled}
HandOff(c) ==
  /\ lists' = [q \in Rentals |-> IF q \in Recovered(c)
                  THEN (lists[q] \ {"recovered"}) \cup {"handing"} ELSE lists[q]]
  /\ handed' = [handed EXCEPT ![c] = @ \cup Recovered(c)]

(* _journals_elsewhere, read during the check.                             *)
Elsewhere(r) ==
  {q \in Rentals : disk[q].on /\ holder[q] # server[r] /\ ~(disk[q].named /\ q \in known[r])}
BlockersFaulty(r) ==  \* faulty: a delivered pod is taken for a known one
  LET s == server[r]
  IN  In(s, "recovered") \cup In(s, "unresolved") \cup (In(s, "inFlight") \ {r}) \cup Elsewhere(r)
Blockers(r) ==
  LET s == server[r]
  IN  In(s, "recovered") \cup In(s, "handing") \cup In(s, "delivered")
        \cup In(s, "unresolved") \cup (In(s, "inFlight") \ {r}) \cup Elsewhere(r)

Admit(r) ==
  /\ pc[r] = "check" /\ Blockers(r) = {} /\ ~mem[r].cancelled
  /\ lists' = [lists EXCEPT ![r] = @ \cup {"inFlight"}]
  /\ Goto(r, "ready")
  /\ UNCHANGED <<worldVars, diskVars, door, server, known, mem, handed, saving, keeperVars>>

(* Not admitted: the recovered pods are the answer; a cancelled call ends; *)
(* else it waits for another round, or gives up.                           *)
TurnedAway(r) ==
  /\ pc[r] = "check" /\ (Blockers(r) # {} \/ mem[r].cancelled)
  /\ HandOff(r)
  /\ door' = Nobody
  /\ \/ Goto(r, "returned")
     \/ /\ ~mem[r].cancelled
        /\ Recovered(r) \cup In(server[r], "handing") \cup In(server[r], "delivered") = {}
        /\ Goto(r, "enter")
  /\ UNCHANGED <<worldVars, diskVars, server, known, mem, saving, keeperVars>>

(* Faulty: the admission lock is not given back.                           *)
NotSentFaulty(r) ==
  /\ pc[r] = "ready"
  /\ Goto(r, "returned")
  /\ Leave({r}, {"inFlight"})
  /\ UNCHANGED <<worldVars, diskVars, door, server, known, mem, handed, saving, keeperVars>>

(* ps() failed, or the call was cancelled before it was submitted.         *)
NotSent(r) ==
  /\ pc[r] = "ready"
  /\ Goto(r, "returned") /\ door' = Nobody
  /\ Leave({r}, {"inFlight"})
  /\ UNCHANGED <<worldVars, diskVars, server, known, mem, handed, saving, keeperVars>>

Submit(r) ==
  /\ pc[r] = "ready" /\ ~mem[r].cancelled
  /\ mem' = [mem EXCEPT ![r].outcome = "none"]
  /\ Goto(r, "submit")
  /\ UNCHANGED <<worldVars, diskVars, door, server, known, lists, handed, saving, keeperVars>>

(* Faulty: the request leaves although nothing was journaled.              *)
JournalFaulty(r) ==
  /\ pc[r] = "submit"
  /\ mem' = [mem EXCEPT ![r].request = TRUE]
  /\ UNCHANGED diskVars /\ door' = Nobody
  /\ Goto(r, "send")
  /\ UNCHANGED <<worldVars, server, known, lists, handed, saving, keeperVars>>

(* before_send: the journal is written, then the admission lock released.  *)
Journal(r) ==
  /\ pc[r] = "submit"
  /\ mem' = [mem EXCEPT ![r].request = TRUE]
  /\ Save(r) /\ door' = Nobody
  /\ Goto(r, "send")
  /\ UNCHANGED <<worldVars, server, known, lists, handed, saving, keeperVars>>

(* A check before the request or the journal write failed: up() raises and *)
(* nothing is sent.                                                        *)
FailBeforeSend(r) ==
  /\ pc[r] = "submit"
  /\ \E prepared \in BOOLEAN :
        mem' = [mem EXCEPT ![r].request = prepared, ![r].outcome = "rejected"]
  /\ Goto(r, "forget")
  /\ UNCHANGED <<worldVars, diskVars, door, server, known, lists, handed, saving, keeperVars>>

Send(r) ==
  /\ pc[r] = "send"
  /\ api' = [api EXCEPT ![r] = "open"]
  /\ Goto(r, "posted")
  /\ UNCHANGED <<acked, crashes, diskVars, door, server, known, memVars, keeperVars>>

(* up() returns: the pod, a refusal that rented nothing, or neither.       *)
Answered(r) ==
  /\ pc[r] = "posted"
  /\ \/ /\ Made(r)
        /\ mem' = [mem EXCEPT ![r].outcome = "created", ![r].named = TRUE]
        /\ Goto(r, "named")
     \/ /\ api[r] = "refused"
        /\ mem' = [mem EXCEPT ![r].outcome = "rejected"]
        /\ Goto(r, "forget")
     \/ /\ mem' = [mem EXCEPT ![r].outcome = "unknown"]
        /\ Goto(r, "track")
  /\ UNCHANGED <<worldVars, diskVars, door, server, known, lists, handed, saving, keeperVars>>

ForgetRejected(r) ==
  /\ pc[r] = "forget"
  /\ Forget({r}) /\ Leave({r}, {"inFlight"})
  /\ door' = IF door = r THEN Nobody ELSE door
  /\ Goto(r, "returned")
  /\ UNCHANGED <<worldVars, server, known, mem, handed, saving, keeperVars>>

(* Faulty: it leaves its lists and enters none.                            *)
TrackInMemoryFaulty(r) ==
  lists' = [lists EXCEPT ![r] = @ \ {"recovered", "handing", "inFlight"}]

(* _track: in memory first, then on disk, then the reconciler.             *)
TrackInMemory(r) ==
  lists' = [lists EXCEPT ![r] = (@ \ {"recovered", "handing", "inFlight"}) \cup {"unresolved"}]

Track(r) ==
  /\ pc[r] = "track"
  /\ TrackInMemory(r) /\ Goto(r, "save")
  /\ UNCHANGED <<worldVars, diskVars, door, server, known, mem, handed, saving, keeperVars>>

SaveTracked(r) ==
  /\ pc[r] = "save"
  /\ UNCHANGED mem /\ Save(r)
  /\ StartReconciler(server[r])
  /\ Goto(r, "returned")
  /\ UNCHANGED <<worldVars, door, server, known, lists, handed, saving,
                 adopter, passing, todo, verdict>>

(* The pod is known: journal it, or track it when the call was cancelled   *)
(* meanwhile.  From here on every result names the pod.                    *)
Named(r) ==
  /\ pc[r] = "named"
  /\ mem' = [mem EXCEPT ![r].reported = TRUE]
  /\ IF mem[r].cancelled
       THEN TrackInMemory(r) /\ Goto(r, "save") /\ UNCHANGED diskVars
       ELSE Save(r) /\ Goto(r, "waiting") /\ UNCHANGED lists
  /\ UNCHANGED <<worldVars, door, server, known, handed, saving, keeperVars>>

(* wait_ready returns, fails, times out or sees the cancellation.          *)
WaitEnds(r) ==
  /\ pc[r] = "waiting" /\ Goto(r, "returned")
  /\ UNCHANGED <<worldVars, diskVars, door, server, known, memVars, keeperVars>>

(* list_pods: what it hands over.  Its reconcile is as for AdoptFirst.     *)
ListPods(l, s) ==
  /\ pc[l] = "idle" /\ ~LoopBusy(s)
  /\ server' = [server EXCEPT ![l] = s]
  /\ Goto(l, "enter")
  /\ UNCHANGED <<worldVars, diskVars, door, known, memVars, keeperVars>>

ListPodsEnds(l) ==
  /\ l \in Listings /\ pc[l] = "enter"
  /\ HandOff(l) /\ Goto(l, "returned")
  /\ UNCHANGED <<worldVars, diskVars, door, server, known, mem, saving, keeperVars>>

(***************************************************************************)
(* The event loop: the result reaches the transport, or the host cancels.  *)
(* Both change the lists under _cleanup and save afterwards, without it;   *)
(* no other step of the loop comes in between (LoopBusy).                  *)
(***************************************************************************)

Deliver(c) ==
  /\ pc[c] = "returned" /\ ~LoopBusy(server[c])
  /\ c \in Rentals => ~mem[c].cancelled
  /\ LET own == {r \in {c} \cap Rentals : mem[r].reported /\ "inFlight" \in lists[r]}
         reached == {r \in handed[c] : "handing" \in lists[r]} \cup own
     IN  /\ mem' = [r \in Rentals |-> IF r \in reached
                       THEN [mem[r] EXCEPT !.delivered = TRUE] ELSE mem[r]]
         /\ lists' = [r \in Rentals |->
                        IF r \in reached
                          THEN (lists[r] \ {"handing", "inFlight"}) \cup {"delivered"}
                        ELSE IF r = c THEN lists[r] \ {"inFlight"} ELSE lists[r]]
         /\ saving' = [r \in Rentals |-> IF r \in reached THEN "deliver" ELSE saving[r]]
  /\ handed' = [handed EXCEPT ![c] = {}]
  /\ Goto(c, "done")
  /\ UNCHANGED <<worldVars, diskVars, door, server, known, keeperVars>>

RequeueFaulty(c) == {}  \* faulty: what the cancelled call reserved stays reserved
Requeue(c) == {r \in handed[c] : "handing" \in lists[r]}

(* cancel_rental: the call is marked first; its worker and the pass go on. *)
(* What it would have handed over waits for another call, and a rental     *)
(* already submitted is tracked until its pod is removed.                  *)
Cancel(r) ==
  /\ r \in Rentals /\ pc[r] \notin {"idle", "done", "dead"} /\ ~LoopBusy(server[r])
  /\ ~mem[r].cancelled
  /\ mem' = [mem EXCEPT ![r].cancelled = TRUE]
  /\ saving' = [saving EXCEPT ![r] = "mark"]
  /\ UNCHANGED <<worldVars, diskVars, door, callVars, lists, handed, keeperVars>>

CancelTracks(r) ==
  /\ saving[r] = "mark"
  /\ LET submitted == {q \in {r} : mem[q].outcome # "unsent"}
     IN  /\ lists' = [q \in Rentals |->
              IF q \in submitted
                THEN (lists[q] \ {"recovered", "handing", "inFlight"}) \cup {"unresolved"}
              ELSE IF q \in Requeue(r) THEN (lists[q] \ {"handing"}) \cup {"recovered"}
              ELSE lists[q]]
         /\ saving' = [saving EXCEPT ![r] = IF r \in submitted THEN "cancel" ELSE "no"]
  /\ handed' = [handed EXCEPT ![r] = {}]
  /\ IF pc[r] = "returned" THEN Goto(r, "done") ELSE UNCHANGED pc
  /\ UNCHANGED <<worldVars, diskVars, door, server, known, mem, keeperVars>>

CancelListing(l) ==
  /\ l \in Listings /\ pc[l] \notin {"idle", "done", "dead"} /\ ~LoopBusy(server[l])
  /\ lists' = [r \in Rentals |-> IF r \in Requeue(l)
                  THEN (lists[r] \ {"handing"}) \cup {"recovered"} ELSE lists[r]]
  /\ handed' = [handed EXCEPT ![l] = {}]
  /\ Goto(l, "done")
  /\ UNCHANGED <<worldVars, diskVars, door, server, known, mem, saving, keeperVars>>

LoopSave(r) ==
  /\ saving[r] \in {"deliver", "cancel"}
  /\ UNCHANGED mem /\ Save(r)
  /\ saving' = [saving EXCEPT ![r] = "no"]
  /\ IF saving[r] = "cancel" THEN StartReconciler(server[r]) ELSE UNCHANGED running
  /\ UNCHANGED <<worldVars, door, callVars, lists, handed, adopter, passing, todo, verdict>>

(***************************************************************************)
(* Other tool calls of the host.                                           *)
(***************************************************************************)

(* run_command names a delivered pod (_find_pod, _acknowledged).           *)
Acknowledge(r) ==
  /\ "delivered" \in lists[r] /\ mem[r].named /\ api[r] = "live"
  /\ acked' = [acked EXCEPT ![r] = TRUE]
  /\ Leave({r}, {"delivered"}) /\ Forget({r})
  /\ UNCHANGED <<api, crashes, door, callVars, mem, handed, saving, keeperVars>>

(* list_pods found a delivered pod gone (_forget_gone): after the delivery *)
(* one listing showed it and a later one did not.                          *)
ForgetGone(r) ==
  /\ "delivered" \in lists[r] /\ mem[r].named /\ api[r] = "gone"
  /\ Leave({r}, {"delivered"}) /\ Forget({r})
  /\ UNCHANGED <<worldVars, door, callVars, mem, handed, saving, keeperVars>>

(* remove_pod in process s names the pod too; the removal settles an       *)
(* unresolved rental's pod.  The reconcile that ends it is BeginPass.      *)
RemovePod(r, s) ==
  /\ api[r] = "live"
  /\ api' = [api EXCEPT ![r] = "gone"]
  /\ LET shown == {q \in {r} \cap In(s, "delivered") : mem[q].named}
     IN  /\ acked' = [q \in Rentals |-> acked[q] \/ q \in shown]
         /\ Leave(shown, {"delivered"}) /\ Forget(shown)
  /\ mem' = IF r \in In(s, "unresolved") THEN [mem EXCEPT ![r].named = FALSE] ELSE mem
  /\ UNCHANGED <<crashes, door, callVars, handed, saving, keeperVars>>

(***************************************************************************)
(* A reconcile pass over the unresolved rentals: one rental after another  *)
(* is settled without a lock on the lists, then all results are applied.   *)
(***************************************************************************)

BeginPass(s) ==
  /\ ~passing[s] /\ In(s, "unresolved") # {}
  /\ passing' = [passing EXCEPT ![s] = TRUE]
  /\ todo' = [todo EXCEPT ![s] = In(s, "unresolved")]
  /\ UNCHANGED <<worldVars, diskVars, door, callVars, memVars, adopter, verdict, running>>

Found(s, r, what) ==
  /\ todo' = [todo EXCEPT ![s] = @ \ {r}]
  /\ verdict' = [verdict EXCEPT ![r] = what]
  /\ UNCHANGED <<acked, crashes, door, callVars, lists, handed, saving, adopter, passing, running>>

(* up() has not returned, or no replay answers: not allowed (too late, no  *)
(* feature), or it went unanswered.  It may have been the first request.   *)
StaysPending(s, r) ==
  /\ r \in todo[s] /\ UNCHANGED mem
  /\ \/ mem[r].outcome = "none" /\ UNCHANGED <<api, diskVars>>
     \/ /\ mem[r].outcome = "unknown"
        /\ IF disk[r].on THEN UNCHANGED diskVars ELSE Save(r)
        /\ api' \in {api, [api EXCEPT ![r] = IF @ = "unsent" THEN "open" ELSE @]}
  /\ Found(s, r, "pending")

(* Nothing was rented: up() said so, or the replay did.                    *)
RentedNothing(s, r) ==
  /\ r \in todo[s]
  /\ mem[r].outcome = "rejected" \/ (mem[r].outcome = "unknown" /\ api[r] = "refused")
  /\ mem' = [mem EXCEPT ![r].outcome = "rejected"]
  /\ IF disk[r].on \/ mem[r].outcome = "rejected" THEN UNCHANGED diskVars ELSE Save(r)
  /\ UNCHANGED api
  /\ Found(s, r, "done")

(* The pod is known by now: named before, or by the replay.                *)
PodKnown(r) == mem[r].outcome = "created" \/ (mem[r].outcome = "unknown" /\ Made(r))
WithPod(r) == [mem EXCEPT ![r].outcome = "created",
                          ![r].named = @ \/ mem[r].outcome = "unknown"]

Keep(s, r) ==
  /\ r \in todo[s] /\ PodKnown(r) /\ ~mem[r].cancelled
  /\ mem' = WithPod(r) /\ Save(r)
  /\ UNCHANGED api
  /\ Found(s, r, "keep")

(* The pod of a cancelled rental is removed by its id, or not yet.         *)
RemoveUnwanted(s, r) ==
  /\ r \in todo[s] /\ PodKnown(r) /\ mem[r].cancelled
  /\ \/ /\ mem' = [WithPod(r) EXCEPT ![r].named = FALSE]
        /\ api' = IF WithPod(r)[r].named THEN [api EXCEPT ![r] = "gone"] ELSE api
        /\ Found(s, r, "done")
     \/ /\ WithPod(r)[r].named
        /\ mem' = WithPod(r)
        /\ api' \in {api, [api EXCEPT ![r] = "gone"]}
        /\ Found(s, r, "pending")
  /\ IF disk[r].on THEN UNCHANGED diskVars ELSE Save(r)

(* Applied under _cleanup; a rental cancelled meanwhile is not kept.       *)
FinishPass(s) ==
  /\ passing[s] /\ todo[s] = {}
  /\ LET looked == {r \in In(s, "unresolved") : verdict[r] # "none"}
         kept == {r \in looked : verdict[r] = "keep" /\ ~mem[r].cancelled}
         done == {r \in looked : verdict[r] = "done"}
     IN  /\ lists' = [r \in Rentals |->
               IF r \in kept THEN (lists[r] \ {"unresolved"}) \cup {"recovered"}
               ELSE IF r \in done THEN lists[r] \ {"unresolved"} ELSE lists[r]]
         /\ Forget(done)
         /\ verdict' = [r \in Rentals |-> IF r \in looked THEN "none" ELSE verdict[r]]
  /\ passing' = [passing EXCEPT ![s] = FALSE]
  /\ UNCHANGED <<worldVars, door, callVars, mem, handed, saving, adopter, todo, running>>

(* Faulty: it ends although a rental was tracked meanwhile.                *)
StopReconcilerFaulty(s) ==
  /\ running[s] = "on"
  /\ running' = [running EXCEPT ![s] = "off"]
  /\ UNCHANGED <<worldVars, diskVars, door, callVars, memVars, adopter, passing, todo, verdict>>

(* _reconcile_in_background ends once nothing is unresolved.               *)
StopReconciler(s) ==
  /\ running[s] = "on" /\ In(s, "unresolved") = {}
  /\ running' = [running EXCEPT ![s] = "off"]
  /\ UNCHANGED <<worldVars, diskVars, door, callVars, memVars, adopter, passing, todo, verdict>>

(* The process stops: its memory and its locks are gone.  It is started    *)
(* again, and starts the reconciler if there is any journal.               *)
Crash(s) ==
  /\ crashes < MaxCrashes /\ crashes' = crashes + 1
  /\ LET lost == {c \in Calls : server[c] = s}
     IN  /\ pc' = [c \in Calls |-> IF c \in lost THEN "dead" ELSE pc[c]]
         /\ server' = [c \in Calls |-> IF c \in lost THEN Nobody ELSE server[c]]
         /\ mem' = [r \in Rentals |-> IF r \in lost THEN NewObject ELSE mem[r]]
         /\ lists' = [r \in Rentals |-> IF r \in lost THEN {} ELSE lists[r]]
         /\ handed' = [c \in Calls |-> IF c \in lost THEN {} ELSE handed[c]]
         /\ saving' = [r \in Rentals |-> IF r \in lost THEN "no" ELSE saving[r]]
         /\ verdict' = [r \in Rentals |-> IF r \in lost THEN "none" ELSE verdict[r]]
         /\ door' = IF door \in lost THEN Nobody ELSE door
  /\ holder' = [r \in Rentals |-> IF holder[r] = s THEN Nobody ELSE holder[r]]
  /\ adopter' = [adopter EXCEPT ![s] = Nobody]
  /\ passing' = [passing EXCEPT ![s] = FALSE]
  /\ todo' = [todo EXCEPT ![s] = {}]
  /\ running' = [running EXCEPT ![s] = IF \E r \in Rentals : disk[r].on THEN "starting" ELSE "off"]
  /\ UNCHANGED <<api, acked, disk, known>>

RentNext(r) ==
  \/ \E s \in Servers : Enter(r, s) \/ RemovePod(r, s)
  \/ AdoptFirst(r) \/ AckKnown(r) \/ LockAdmission(r) \/ Admit(r) \/ TurnedAway(r)
  \/ NotSent(r) \/ Submit(r) \/ Journal(r) \/ FailBeforeSend(r) \/ Send(r)
  \/ Answered(r) \/ ForgetRejected(r) \/ Track(r) \/ SaveTracked(r) \/ Named(r) \/ WaitEnds(r)
  \/ ApiDecides(r) \/ PodEnds(r)
  \/ Cancel(r) \/ CancelTracks(r) \/ LoopSave(r) \/ Acknowledge(r) \/ ForgetGone(r)

PassNext(s, r) ==
  StaysPending(s, r) \/ RentedNothing(s, r) \/ Keep(s, r) \/ RemoveUnwanted(s, r)

ServerNext(s) ==
  \/ LoadInBackground(s) \/ FindNoOrphan(s) \/ Enlist(s)
  \/ BeginPass(s) \/ FinishPass(s) \/ StopReconciler(s) \/ Crash(s)
  \/ \E r \in Rentals : PassNext(s, r)

Next ==
  \/ \E r \in Rentals : RentNext(r)
  \/ \E c \in Calls : Deliver(c)
  \/ \E l \in Listings, s \in Servers : ListPods(l, s)
  \/ \E l \in Listings : ListPodsEnds(l) \/ CancelListing(l)
  \/ \E s \in Servers : ServerNext(s)

Spec == Init /\ [][Next]_vars

(* Threads go on, and so does the API; a replay or a removal that is asked *)
(* for again and again is answered one day.  The reconciler thread works   *)
(* for as long as it runs; no tool call is ever obliged to.                *)
Settles(s, r) == (Keep(s, r) \/ RentedNothing(s, r) \/ RemoveUnwanted(s, r)) /\ verdict'[r] # "pending"

Fairness ==
  /\ \A r \in Rentals : WF_vars(ApiDecides(r)) /\ WF_vars(CancelTracks(r)) /\ WF_vars(LoopSave(r))
  /\ \A r \in Rentals : WF_vars(Answered(r)) /\ WF_vars(Named(r)) /\ WF_vars(Track(r))
                        /\ WF_vars(SaveTracked(r)) /\ WF_vars(ForgetRejected(r))
  /\ \A s \in Servers : WF_vars(Enlist(s)) /\ WF_vars(FinishPass(s))
  /\ \A s \in Servers : WF_vars(running[s] = "starting" /\ (LoadInBackground(s) \/ FindNoOrphan(s)))
  /\ \A s \in Servers : WF_vars(running[s] = "on" /\ BeginPass(s))
  /\ \A s \in Servers, r \in Rentals : WF_vars(PassNext(s, r)) /\ SF_vars(Settles(s, r))

FairSpec == Spec /\ Fairness

(***************************************************************************)
(* What the host relies on.                                                *)
(***************************************************************************)

Unsettled(r) == api[r] \in {"open", "live"} /\ ~acked[r]

(* No rent is sent beside one that may bill unnoticed: whenever a request  *)
(* leaves, every other rent, of any process, has been settled, or the host *)
(* has shown that it knows the pod.                                        *)
NoRentBesideUnsettled ==
  [][\A r, q \in Rentals : Send(r) /\ q # r => ~Unsettled(q) \/ q \in known[r]]_vars

(* A crash at any point forgets no pod: what may bill without the host's   *)
(* knowledge has a journal, written before the request, whatever cleanup,  *)
(* hand-over or repeated save ran since.                                   *)
UnheardIsJournaled ==
  \A r \in Rentals : Unsettled(r) => disk[r].on

(* A rental whose journal this process holds is in one of its lists, or    *)
(* about to be: nobody else may settle it, so a dropped one would block    *)
(* every session for good.                                                 *)
HeldRentalIsTracked ==
  \A r \in Rentals : Unsettled(r) /\ holder[r] # Nobody => lists[r] # {}

(* A recovered rental reserved for a call is reported, returned to the     *)
(* queue or cancelled: exactly one unfinished call accounts for it.        *)
ReservationHasReceiver ==
  \A r \in Rentals : "handing" \in lists[r] =>
    \E c \in Calls : /\ r \in handed[c] /\ pc[c] = "returned"
                    /\ \A d \in Calls : r \in handed[d] => d = c

(* The worker and a cancellation both save: whichever comes last, the      *)
(* record on disk ends cancelled, so a restart removes the pod.            *)
CancellationReachesDisk ==
  \A r \in Rentals :
    mem[r].cancelled /\ disk[r].on /\ saving[r] = "no" => disk[r].cancelled

(* The pod of a rental journaled as cancelled is removed in the end, across*)
(* a crash too, unless the host named it after all.                        *)
CancelledPodGoes ==
  \A r \in Rentals :
    Unsettled(r) /\ disk[r].cancelled ~> ~Unsettled(r)

(* The store's docstring (tools.py:205) says that a journal is kept for    *)
(* "Rentals whose outcome the host has not received, on disk":    *)
(* none is left of a rental whose pod the host has named.                  *)
OnlyUnheardJournaled ==
  \A r \in Rentals : acked[r] => ~disk[r].on

(* "recovered: the pod of a rental the host still wants is known [...] and *)
(* waits to be handed to a tool call": it has a pod to name.               *)
RecoveredPodIsKnown ==
  \A r \in Rentals : lists[r] \cap {"recovered", "handing", "delivered"} # {} => mem[r].named
===============================================================================
