------------------------------ MODULE McpProofs ------------------------------
(***************************************************************************)
(* Proofs about the rental ledger of the MCP servers (McpRentals), for any *)
(* number of processes, calls and crashes; the last one is about           *)
(* processes that do not stop.                                             *)
(***************************************************************************)
EXTENDS McpRentals, TLAPS

(* The inductive invariant, in groups.  What a process has in memory is of *)
(* calls and rentals that are its own.                                     *)
CallOwned(c) ==
  /\ server[c] = Nobody => pc[c] \in {"idle", "dead"} /\ handed[c] = {}
  /\ pc[c] = "idle" => server[c] = Nobody
Owned(r) == server[r] = Nobody => lists[r] = {} /\ saving[r] = "no" /\ verdict[r] = "none"
Looked(s) == \A r \in todo[s] : server[r] = s /\ "unresolved" \in lists[r]
Adopting(s) ==
  adopter[s] \in Rentals => server[adopter[s]] = s /\ pc[adopter[s]] = "adopting"
OwnersInv ==
  /\ \A c \in Calls : CallOwned(c)
  /\ \A s \in Servers : Looked(s) /\ Adopting(s)

(* A journal is locked by the process that has its rental, an orphan's by  *)
(* none; what is in memory of it can be written again.                     *)
Journaled(r) ==
  /\ disk[r].on => holder[r] = server[r]
  /\ holder[r] # Nobody => disk[r].on
  /\ disk[r].on /\ server[r] # Nobody => mem[r].request /\ mem[r].outcome # "unsent"
  /\ mem[r].outcome = "unknown" => mem[r].request
  /\ mem[r].request => mem[r].outcome # "unsent"
  /\ ~disk[r].on => disk[r] = NoJournal

(* What a call has done where it is.                                       *)
Early == {"idle", "enter", "adopting", "adopted", "admit", "check"}
Before(r) ==
  /\ pc[r] \in Early => lists[r] = {}
  /\ pc[r] = "ready" => lists[r] = {"inFlight"}
  /\ pc[r] \in Early \cup {"ready"} => mem[r].outcome = "unsent"
  /\ pc[r] \in Early \cup {"ready", "submit"} => ~mem[r].request /\ ~disk[r].on
  /\ pc[r] \in Early \cup {"ready", "submit", "send"} => api[r] = "unsent"
Under(r) ==
  /\ pc[r] \in {"submit", "send", "posted"} =>
       mem[r].outcome = "none" /\ lists[r] \in {{"inFlight"}, {"unresolved"}}
  /\ pc[r] \in {"send", "posted"} => disk[r].on
  /\ pc[r] \in {"submit", "send", "posted", "forget", "track", "named"}
        /\ "unresolved" \in lists[r] => mem[r].cancelled
After(r) ==
  /\ pc[r] = "forget" => mem[r].outcome = "rejected"
  /\ pc[r] = "named" => mem[r].outcome = "created"
  /\ pc[r] \in {"forget", "track", "named"} => lists[r] \in {{}, {"inFlight"}, {"unresolved"}}
  /\ pc[r] \in {"track", "save"} => mem[r].outcome # "unsent"
  /\ pc[r] = "save" => "inFlight" \notin lists[r]
  /\ pc[r] = "waiting" => mem[r].reported
  /\ pc[r] = "returned" /\ "inFlight" \in lists[r] => mem[r].reported
  /\ mem[r].reported => mem[r].outcome # "unsent"
  /\ server[r] # Nobody /\ mem[r].outcome = "unsent" => lists[r] \subseteq {"inFlight"}
  /\ "loading" \in lists[r] => pc[r] = "dead"

(* What is known of a rental is what the API did.                          *)
Honest(r) ==
  /\ mem[r].named \/ mem[r].outcome = "created" \/ disk[r].named => Made(r)
  /\ mem[r].outcome = "created" /\ ~mem[r].named => api[r] = "gone"
  /\ mem[r].outcome = "rejected" => api[r] \in {"unsent", "refused"}
  /\ verdict[r] = "keep" => mem[r].outcome = "created"
  /\ verdict[r] = "done" =>
       mem[r].outcome \in {"rejected", "created"} /\ api[r] \in {"unsent", "refused", "gone"}

(* Nothing that may bill unnoticed is off the disk, or in no list of the   *)
(* process that has it.                                                    *)
Heard(r) == Unsettled(r) => disk[r].on /\ (server[r] # Nobody => lists[r] # {})

Cancelled(r) ==
  /\ mem[r].cancelled /\ disk[r].on /\ saving[r] = "no" => disk[r].cancelled
  /\ saving[r] \in {"mark", "cancel"} => mem[r].cancelled
  /\ saving[r] = "mark" => pc[r] # "dead"

(* A rental has one place but for "delivered".                             *)
OnePlace(r) == \A k, l \in lists[r] \ {"delivered"} : k = l

OneRental(r) ==
  /\ Journaled(r) /\ Before(r) /\ Under(r) /\ After(r) /\ Honest(r) /\ Heard(r) /\ Cancelled(r)
  /\ Owned(r) /\ OnePlace(r)

(* A reserved rental has one receiver.                                     *)
Receives(c) ==
  /\ handed[c] # {} => pc[c] = "returned"
  /\ \A r \in handed[c] : server[r] = server[c]
  /\ \A r \in handed[c] : "handing" \in lists[r] \/ mem[r].cancelled
OneReceiver(r) ==
  /\ \A c, d \in Calls : r \in handed[c] /\ r \in handed[d] => c = d
  /\ "handing" \in lists[r] => \E c \in Calls : r \in handed[c]
ReceiversInv ==
  /\ \A r \in Rentals : OneReceiver(r)
  /\ \A c \in Calls : Receives(c)

McpInv ==
  TypeOK /\ OwnersInv /\ (\A r \in Rentals : OneRental(r)) /\ ReceiversInv

(* While no process stops: nothing is ever an orphan, whoever is being     *)
(* admitted holds the door, and whoever may send a rent has looked at all  *)
(* the others.                                                             *)
Served(r) ==
  /\ server[r] = Nobody => ~disk[r].on
  /\ "loading" \notin lists[r]
  /\ pc[r] = "posted" \/ mem[r].outcome = "unknown" => api[r] # "unsent"
  /\ pc[r] \in {"check", "ready", "submit"} => door = r
  /\ \A q \in known[r] : Made(q)
MaySendNow == {"ready", "submit", "send"}
NoRival(r, q) ==
  pc[r] \in MaySendNow /\ q # r => pc[q] \notin MaySendNow /\ (~Unsettled(q) \/ q \in known[r])
AdmissionInv ==
  /\ crashes = 0
  /\ \A r \in Rentals : Served(r)
  /\ \A r, q \in Rentals : NoRival(r, q)

(* The type invariant in groups: the objects and the journals, which save, *)
(* load and the outcomes change, and the rest.                             *)
MemType == mem \in [Rentals -> Objects]
DiskType == disk \in [Rentals -> Journals] /\ holder \in [Rentals -> Servers \cup {Nobody}]
FlagType == acked \in [Rentals -> BOOLEAN] /\ passing \in [Servers -> BOOLEAN]
DoorType ==
  /\ door \in Rentals \cup {Nobody}
  /\ door # Nobody => pc[door] \in {"check", "ready", "submit", "forget"}
CallType ==
  /\ server \in [Calls -> Servers \cup {Nobody}]
  /\ pc \in [Calls -> {"idle", "enter", "adopting", "adopted", "admit", "check", "ready",
                       "submit", "send", "posted", "forget", "named", "track", "save",
                       "waiting", "returned", "done", "dead"}]
ListType ==
  /\ lists \in [Rentals -> SUBSET Lists]
  /\ handed \in [Calls -> SUBSET Rentals]
RestType ==
  /\ api \in [Rentals -> {"unsent", "open", "refused", "live", "gone"}]
  /\ crashes \in 0..MaxCrashes
  /\ known \in [Rentals -> SUBSET Rentals]
  /\ saving \in [Rentals -> {"no", "deliver", "mark", "cancel"}]
  /\ adopter \in [Servers -> Rentals \cup Servers \cup {Nobody}]
  /\ todo \in [Servers -> SUBSET Rentals]
  /\ verdict \in [Rentals -> {"none", "pending", "keep", "done"}]
  /\ running \in [Servers -> {"off", "starting", "on"}]
PlainType == FlagType /\ DoorType /\ CallType /\ ListType /\ RestType

(* An object stays one when one of its fields changes.                     *)
LEMMA Fields ==
  ASSUME NEW o \in Objects, NEW b \in BOOLEAN,
         NEW x \in {"unsent", "none", "created", "rejected", "unknown"}
  PROVE  /\ [o EXCEPT !.outcome = x] \in Objects /\ [o EXCEPT !.named = b] \in Objects
         /\ [o EXCEPT !.request = b] \in Objects /\ [o EXCEPT !.cancelled = b] \in Objects
         /\ [o EXCEPT !.reported = b] \in Objects /\ [o EXCEPT !.delivered = b] \in Objects
BY DEF Objects

(* Every step keeps the objects well typed.                                *)
LEMMA MemKept ==
  ASSUME TypeOK
  PROVE  Next => MemType'
<1> USE DEF TypeOK
<1>4. ASSUME NEW r \in Rentals, Submit(r) PROVE MemType'
  <2>1. [mem[r] EXCEPT !.outcome = "none"] \in Objects BY Fields
  <2> QED BY <1>4, <2>1 DEF Submit, MemType
<1>5. ASSUME NEW r \in Rentals, Journal(r) PROVE MemType'
  <2>1. [mem[r] EXCEPT !.request = TRUE] \in Objects BY Fields
  <2> QED BY <1>5, <2>1 DEF Journal, MemType
<1>6. ASSUME NEW r \in Rentals, FailBeforeSend(r) PROVE MemType'
  <2>1. PICK p \in BOOLEAN : mem' = [mem EXCEPT ![r].request = p, ![r].outcome = "rejected"]
    BY <1>6 DEF FailBeforeSend
  <2>2. [[mem[r] EXCEPT !.request = p] EXCEPT !.outcome = "rejected"] \in Objects
    <3>1. [mem[r] EXCEPT !.request = p] \in Objects BY Fields
    <3> QED BY <3>1, Fields
  <2> QED BY <2>1, <2>2 DEF MemType
<1>7. ASSUME NEW r \in Rentals, Answered(r) PROVE MemType'
  <2>1. CASE mem' = [mem EXCEPT ![r].outcome = "created", ![r].named = TRUE]
    <3>1. [mem[r] EXCEPT !.outcome = "created"] \in Objects BY Fields
    <3>2. [[mem[r] EXCEPT !.outcome = "created"] EXCEPT !.named = TRUE] \in Objects BY <3>1, Fields
    <3> QED BY <2>1, <3>2 DEF MemType
  <2>2. CASE mem' = [mem EXCEPT ![r].outcome = "rejected"]
    <3>1. [mem[r] EXCEPT !.outcome = "rejected"] \in Objects BY Fields
    <3> QED BY <2>2, <3>1 DEF MemType
  <2>3. CASE mem' = [mem EXCEPT ![r].outcome = "unknown"]
    <3>1. [mem[r] EXCEPT !.outcome = "unknown"] \in Objects BY Fields
    <3> QED BY <2>3, <3>1 DEF MemType
  <2> QED BY <1>7, <2>1, <2>2, <2>3 DEF Answered
<1>8. ASSUME NEW r \in Rentals, Named(r) PROVE MemType'
  <2>1. [mem[r] EXCEPT !.reported = TRUE] \in Objects BY Fields
  <2> QED BY <1>8, <2>1 DEF Named, MemType
<1>9. ASSUME NEW r \in Rentals, Cancel(r) PROVE MemType'
  <2>1. [mem[r] EXCEPT !.cancelled = TRUE] \in Objects BY Fields
  <2> QED BY <1>9, <2>1 DEF Cancel, MemType
<1>10. ASSUME NEW r \in Rentals, NEW s \in Servers, RemovePod(r, s) PROVE MemType'
  <2>1. [mem[r] EXCEPT !.named = FALSE] \in Objects BY Fields
  <2> QED BY <1>10, <2>1 DEF RemovePod, MemType
<1>11. ASSUME NEW c \in Calls, Deliver(c) PROVE MemType'
  <2>1. \A r \in Rentals : [mem[r] EXCEPT !.delivered = TRUE] \in Objects BY Fields
  <2> QED BY <1>11, <2>1 DEF Deliver, MemType
<1>12. ASSUME NEW r \in Rentals, NEW s \in Servers, RentedNothing(s, r) PROVE MemType'
  <2>1. [mem[r] EXCEPT !.outcome = "rejected"] \in Objects BY Fields
  <2> QED BY <1>12, <2>1 DEF RentedNothing, MemType
<1>13. ASSUME NEW r \in Rentals PROVE WithPod(r) \in [Rentals -> Objects]
  <2> DEFINE b == mem[r].named \/ mem[r].outcome = "unknown"
  <2>1. b \in BOOLEAN OBVIOUS
  <2>2. [mem[r] EXCEPT !.outcome = "created"] \in Objects BY Fields
  <2>3. [[mem[r] EXCEPT !.outcome = "created"] EXCEPT !.named = b] \in Objects BY <2>1, <2>2, Fields
  <2> QED BY <2>3 DEF WithPod
<1>14. ASSUME NEW r \in Rentals, NEW s \in Servers, Keep(s, r) PROVE MemType'
  BY <1>13, <1>14 DEF Keep, MemType
<1>15. ASSUME NEW r \in Rentals, NEW s \in Servers, RemoveUnwanted(s, r) PROVE MemType'
  <2>1. [WithPod(r)[r] EXCEPT !.named = FALSE] \in Objects BY <1>13, Fields
  <2>2. mem' = WithPod(r) \/ mem' = [WithPod(r) EXCEPT ![r].named = FALSE]
    BY <1>15 DEF RemoveUnwanted
  <2> QED BY <1>13, <2>1, <2>2 DEF MemType
<1>16. ASSUME NEW s, NEW who, Load(s, who) PROVE MemType'
  <2>1. \A r \in Rentals : FromState(disk[r]) \in Objects BY DEF FromState, Journals, Objects
  <2> QED BY <1>16, <2>1 DEF Load, MemType
<1>17. ASSUME NEW s \in Servers, Crash(s) PROVE MemType'
  <2>1. NewObject \in Objects BY DEF NewObject, Objects
  <2> QED BY <1>17, <2>1 DEF Crash, MemType
<1>18. ASSUME UNCHANGED mem PROVE MemType' BY <1>18 DEF MemType
<1>19. ASSUME NEW r \in Rentals, AdoptFirst(r) PROVE MemType'
  BY <1>16, <1>18, <1>19 DEF AdoptFirst, memVars
<1>20. ASSUME NEW r \in Rentals,
              AckKnown(r) \/ LockAdmission(r) \/ Admit(r) \/ TurnedAway(r) \/ NotSent(r) \/ Send(r)
                \/ ForgetRejected(r) \/ Track(r) \/ SaveTracked(r) \/ WaitEnds(r) \/ ApiDecides(r)
                \/ PodEnds(r) \/ CancelTracks(r) \/ LoopSave(r) \/ Acknowledge(r) \/ ForgetGone(r)
       PROVE  UNCHANGED mem
  BY <1>20 DEF AckKnown, LockAdmission, Admit, TurnedAway, NotSent, Send, ForgetRejected, Track,
       SaveTracked,
     WaitEnds, ApiDecides, PodEnds, CancelTracks, LoopSave, Acknowledge, ForgetGone, memVars
<1>21. ASSUME NEW r \in Rentals, NEW s \in Servers, Enter(r, s) \/ StaysPending(s, r)
       PROVE  UNCHANGED mem
  BY <1>21 DEF Enter, StaysPending, memVars
<1>22. ASSUME NEW l \in Listings,
              (\E s \in Servers : ListPods(l, s)) \/ ListPodsEnds(l) \/ CancelListing(l)
       PROVE  UNCHANGED mem
  BY <1>22 DEF ListPods, ListPodsEnds, CancelListing, memVars
<1>23. ASSUME NEW s \in Servers,
              FindNoOrphan(s) \/ Enlist(s) \/ BeginPass(s) \/ FinishPass(s) \/ StopReconciler(s)
       PROVE  UNCHANGED mem
  BY <1>23 DEF FindNoOrphan, Enlist, BeginPass, FinishPass, StopReconciler, memVars
<1>24. ASSUME NEW r \in Rentals, RentNext(r) PROVE MemType'
  BY <1>4, <1>5, <1>6, <1>7, <1>8, <1>9, <1>10, <1>18, <1>19, <1>20, <1>21, <1>24 DEF RentNext
<1>25. ASSUME NEW s \in Servers, ServerNext(s) PROVE MemType'
  BY <1>12, <1>14, <1>15, <1>16, <1>17, <1>18, <1>21, <1>23, <1>25
     DEF ServerNext, PassNext, LoadInBackground
<1> QED BY <1>11, <1>18, <1>22, <1>24, <1>25 DEF Next

(* Every step keeps the disk well typed: it saves, forgets or loads.       *)
LEMMA DiskKept ==
  ASSUME TypeOK, MemType'
  PROVE  Next => DiskType'
<1> USE DEF TypeOK, MemType, DiskType, diskVars
<1>1. ASSUME NEW r \in Rentals, Save(r) PROVE DiskType'
  <2>1. State(mem'[r]) \in Journals BY DEF State, Objects, Journals
  <2>2. CASE mem'[r].request
    <3>1. disk' \in [Rentals -> Journals] BY <1>1, <2>1, <2>2 DEF Save
    <3>2. holder' = [holder EXCEPT ![r] = server[r]] BY <1>1, <2>2 DEF Save
    <3>3. holder' \in [Rentals -> Servers \cup {Nobody}] BY <3>2 DEF Calls
    <3> QED BY <3>1, <3>3
  <2>3. CASE ~mem'[r].request BY <1>1, <2>3 DEF Save
  <2> QED BY <2>2, <2>3
<1>2. ASSUME NEW rs, Forget(rs) PROVE DiskType'
  <2>1. NoJournal \in Journals BY DEF NoJournal, Journals
  <2> QED BY <1>2, <2>1 DEF Forget
<1>3. ASSUME UNCHANGED diskVars PROVE DiskType' BY <1>3
<1>4. ASSUME NEW s \in Servers, NEW who, Load(s, who) PROVE DiskType' BY <1>4 DEF Load
<1>5. ASSUME NEW s \in Servers, Crash(s) PROVE DiskType' BY <1>5 DEF Crash
<1>6. ASSUME NEW r \in Rentals, AdoptFirst(r), server[r] \in Servers PROVE DiskType'
  BY <1>3, <1>4, <1>6 DEF AdoptFirst
<1>7. ASSUME NEW r \in Rentals,
             \/ (\E s \in Servers : Enter(r, s)) \/ LockAdmission(r) \/ Admit(r) \/ TurnedAway(r)
             \/ NotSent(r) \/ Submit(r) \/ FailBeforeSend(r) \/ Send(r) \/ Answered(r) \/ Track(r)
             \/ WaitEnds(r) \/ ApiDecides(r) \/ PodEnds(r) \/ Cancel(r) \/ CancelTracks(r)
      PROVE  UNCHANGED diskVars
  BY <1>7 DEF Enter, LockAdmission, Admit, TurnedAway, NotSent, Submit, FailBeforeSend, Send,
     Answered, Track, WaitEnds, ApiDecides, PodEnds, Cancel, CancelTracks
<1>8. ASSUME NEW r \in Rentals,
             \/ AckKnown(r) \/ ForgetRejected(r) \/ Acknowledge(r) \/ ForgetGone(r)
             \/ \E s \in Servers : RemovePod(r, s)
      PROVE  \E rs : Forget(rs)
  BY <1>8 DEF AckKnown, ForgetRejected, Acknowledge, ForgetGone, RemovePod
<1>9. ASSUME NEW r \in Rentals, Journal(r) \/ SaveTracked(r) \/ Named(r) \/ LoopSave(r)
      PROVE  UNCHANGED diskVars \/ Save(r)
  BY <1>9 DEF Journal, SaveTracked, Named, LoopSave
<1>10. ASSUME NEW r \in Rentals, RentNext(r) PROVE DiskType'
  <2>1. CASE AdoptFirst(r)
    <3>1. CASE server[r] \in Servers BY <1>6, <2>1, <3>1
    <3>2. CASE server[r] \notin Servers
      BY <1>3, <2>1, <3>2 DEF AdoptFirst, Load, Calls
    <3> QED BY <3>1, <3>2
  <2> QED BY <1>1, <1>2, <1>3, <1>7, <1>8, <1>9, <1>10, <2>1 DEF RentNext
<1>11. ASSUME NEW s \in Servers, NEW r \in Rentals, PassNext(s, r)
       PROVE  UNCHANGED diskVars \/ Save(r)
  BY <1>11 DEF PassNext, StaysPending, RentedNothing, Keep, RemoveUnwanted
<1>12. ASSUME NEW s \in Servers,
              FindNoOrphan(s) \/ Enlist(s) \/ BeginPass(s) \/ StopReconciler(s)
       PROVE  UNCHANGED diskVars
  BY <1>12 DEF FindNoOrphan, Enlist, BeginPass, StopReconciler
<1>13. ASSUME NEW s \in Servers, FinishPass(s) PROVE \E rs : Forget(rs)
  BY <1>13 DEF FinishPass
<1>14. ASSUME NEW s \in Servers, ServerNext(s) PROVE DiskType'
  BY <1>1, <1>2, <1>3, <1>4, <1>5, <1>11, <1>12, <1>13, <1>14 DEF ServerNext, LoadInBackground
<1>15. ASSUME NEW l \in Listings,
              (\E s \in Servers : ListPods(l, s)) \/ ListPodsEnds(l) \/ CancelListing(l)
       PROVE  UNCHANGED diskVars
  BY <1>15 DEF ListPods, ListPodsEnds, CancelListing
<1>16. ASSUME NEW c \in Calls, Deliver(c) PROVE UNCHANGED diskVars BY <1>16 DEF Deliver
<1> QED BY <1>3, <1>10, <1>14, <1>15, <1>16 DEF Next

(* The other variables keep their types.                                   *)
LEMMA PlainKept ==
  ASSUME TypeOK, \A t \in Servers : Adopting(t)
  PROVE  Next => PlainType'
<1> USE McpAssumption DEF TypeOK, PlainType, FlagType, DoorType, CallType, ListType, RestType,
     Calls, Lists, Goto, worldVars, diskVars, callVars, memVars, keeperVars
<1>1. ASSUME NEW r \in Rentals, AdoptFirst(r) PROVE PlainType'
  <2>1. CASE Orphans = {} /\ Goto(r, "adopted")
        /\ UNCHANGED <<worldVars, diskVars, door, server, known, memVars, keeperVars>>
    BY <1>1, <2>1 DEF AdoptFirst
  <2>2. CASE Load(server[r], r) /\ Goto(r, "adopting")
    <3>1. FlagType' /\ DoorType' /\ CallType' BY <1>1, <2>2 DEF AdoptFirst, Load
    <3>2. ListType' /\ RestType' BY <2>2 DEF Load
    <3> QED BY <3>1, <3>2
  <2> QED BY <1>1, <2>1, <2>2 DEF AdoptFirst
<1>2. ASSUME NEW r \in Rentals, AckKnown(r) PROVE PlainType'
  BY <1>2 DEF AckKnown, Forget, In, Leave
<1>3. ASSUME NEW r \in Rentals, LockAdmission(r) PROVE PlainType'
  <2>1. CASE door = Nobody /\ door' = r /\ Goto(r, "check") BY <1>3, <2>1 DEF LockAdmission
  <2>2. CASE door # Nobody /\ Goto(r, "returned") /\ UNCHANGED door
    BY <1>3, <2>2 DEF LockAdmission
  <2> QED BY <1>3, <2>1, <2>2 DEF LockAdmission
<1>4. ASSUME NEW r \in Rentals, Admit(r) PROVE PlainType'
  BY <1>4 DEF Admit, Blockers, Elsewhere, In
<1>5. ASSUME NEW r \in Rentals, TurnedAway(r) PROVE PlainType'
  BY <1>5 DEF Blockers, Elsewhere, HandOff, In, Recovered, TurnedAway
<1>6. ASSUME NEW r \in Rentals, NotSent(r) PROVE PlainType'
  BY <1>6 DEF Leave, NotSent
<1>7. ASSUME NEW r \in Rentals, Submit(r) PROVE PlainType'
  BY <1>7 DEF Submit
<1>8. ASSUME NEW r \in Rentals, Journal(r) PROVE PlainType'
  BY <1>8 DEF Journal
<1>9. ASSUME NEW r \in Rentals, FailBeforeSend(r) PROVE PlainType'
  BY <1>9 DEF FailBeforeSend
<1>10. ASSUME NEW r \in Rentals, Send(r) PROVE PlainType'
  BY <1>10 DEF Send
<1>11. ASSUME NEW r \in Rentals, Answered(r) PROVE PlainType'
  <2>1. \E label \in {"named", "forget", "track"} : pc' = [pc EXCEPT ![r] = label]
    BY <1>11 DEF Answered
  <2>2. pc[r] = "posted"
        /\ UNCHANGED <<worldVars, diskVars, door, server, known, lists, handed, saving, keeperVars>>
    BY <1>11 DEF Answered
  <2> QED BY <2>1, <2>2
<1>12. ASSUME NEW r \in Rentals, ForgetRejected(r) PROVE PlainType'
  BY <1>12 DEF Forget, ForgetRejected, Leave
<1>13. ASSUME NEW r \in Rentals, Track(r) PROVE PlainType'
  BY <1>13 DEF Track, TrackInMemory
<1>14. ASSUME NEW r \in Rentals, SaveTracked(r) PROVE PlainType'
  BY <1>14 DEF SaveTracked, StartReconciler
<1>15. ASSUME NEW r \in Rentals, Named(r) PROVE PlainType'
  <2>1. \E label \in {"save", "waiting"} : pc' = [pc EXCEPT ![r] = label] BY <1>15 DEF Named
  <2>2. pc[r] = "named" /\ UNCHANGED <<worldVars, door, server, known, handed, saving, keeperVars>>
    BY <1>15 DEF Named
  <2>3. lists' \in [Rentals -> SUBSET Lists] BY <1>15 DEF Named, TrackInMemory
  <2> QED BY <2>1, <2>2, <2>3
<1>16. ASSUME NEW r \in Rentals, WaitEnds(r) PROVE PlainType'
  BY <1>16 DEF WaitEnds
<1>17. ASSUME NEW r \in Rentals, ApiDecides(r) PROVE PlainType'
  BY <1>17 DEF ApiDecides
<1>18. ASSUME NEW r \in Rentals, PodEnds(r) PROVE PlainType'
  BY <1>18 DEF PodEnds
<1>19. ASSUME NEW r \in Rentals, Cancel(r) PROVE PlainType'
  BY <1>19 DEF Cancel, LoopBusy
<1>20. ASSUME NEW r \in Rentals, CancelTracks(r) PROVE PlainType'
  BY <1>20 DEF CancelTracks, Requeue
<1>21. ASSUME NEW r \in Rentals, LoopSave(r) PROVE PlainType'
  BY <1>21 DEF LoopSave, StartReconciler
<1>22. ASSUME NEW r \in Rentals, Acknowledge(r) PROVE PlainType'
  BY <1>22 DEF Acknowledge, Forget, Leave
<1>23. ASSUME NEW r \in Rentals, ForgetGone(r) PROVE PlainType'
  BY <1>23 DEF Forget, ForgetGone, Leave
<1>24. ASSUME NEW r \in Rentals, NEW s \in Servers, Enter(r, s) PROVE PlainType'
  BY <1>24 DEF Enter, LoopBusy
<1>25. ASSUME NEW r \in Rentals, NEW s \in Servers, RemovePod(r, s) PROVE PlainType'
  BY <1>25 DEF Forget, In, Leave, RemovePod
<1>26. ASSUME NEW c \in Calls, Deliver(c) PROVE PlainType'
  BY <1>26 DEF Deliver, LoopBusy
<1>27. ASSUME NEW l \in Listings, NEW s \in Servers, ListPods(l, s) PROVE PlainType'
  BY <1>27 DEF ListPods, LoopBusy
<1>28. ASSUME NEW l \in Listings, ListPodsEnds(l) PROVE PlainType'
  BY <1>28 DEF HandOff, In, ListPodsEnds, Recovered
<1>29. ASSUME NEW l \in Listings, CancelListing(l) PROVE PlainType'
  BY <1>29 DEF CancelListing, LoopBusy, Requeue
<1>30. ASSUME NEW s \in Servers, LoadInBackground(s) PROVE PlainType'
  BY <1>30 DEF Load, LoadInBackground, Orphans
<1>31. ASSUME NEW s \in Servers, FindNoOrphan(s) PROVE PlainType'
  BY <1>31 DEF FindNoOrphan, Orphans
<1>32. ASSUME NEW s \in Servers, Enlist(s) PROVE PlainType'
  <2>1. DoorType' /\ CallType'
    <3>1. pc' = pc \/ \E r \in Rentals : pc[r] = "adopting" /\ pc' = [pc EXCEPT ![r] = "adopted"]
      BY <1>32 DEF Enlist, Adopting
    <3>2. UNCHANGED <<door, server>> BY <1>32 DEF Enlist
    <3>3. CASE pc' = pc BY <3>2, <3>3
    <3>4. ASSUME NEW r \in Rentals, pc[r] = "adopting", pc' = [pc EXCEPT ![r] = "adopted"]
          PROVE  DoorType' /\ CallType'
      BY <3>2, <3>4
    <3> QED BY <3>1, <3>3, <3>4
  <2>2. running' \in [Servers -> {"off", "starting", "on"}]
    BY <1>32, SMTT(20) DEF Enlist, StartReconciler
  <2>3. FlagType' /\ ListType' BY <1>32 DEF Enlist
  <2>4. RestType' BY <1>32, <2>2 DEF Enlist
  <2> QED BY <2>1, <2>3, <2>4
<1>33. ASSUME NEW s \in Servers, BeginPass(s) PROVE PlainType'
  BY <1>33 DEF BeginPass, In
<1>34. ASSUME NEW s \in Servers, FinishPass(s) PROVE PlainType'
  BY <1>34 DEF FinishPass, Forget, In
<1>35. ASSUME NEW s \in Servers, StopReconciler(s) PROVE PlainType'
  BY <1>35 DEF In, StopReconciler
<1>36. ASSUME NEW s \in Servers, Crash(s) PROVE PlainType'
  BY <1>36 DEF Crash, NewObject
<1>37. ASSUME NEW r \in Rentals, NEW s \in Servers, StaysPending(s, r) PROVE PlainType'
  <2>1. api' \in [Rentals -> {"unsent", "open", "refused", "live", "gone"}]
    <3>1. \/ api' = api \/ api' = [api EXCEPT ![r] = "gone"]
          \/ api' = [api EXCEPT ![r] = IF api[r] = "unsent" THEN "open" ELSE api[r]]
      BY <1>37 DEF StaysPending
    <3> QED BY <3>1
  <2>2. todo' \in [Servers -> SUBSET Rentals]
        /\ verdict' \in [Rentals -> {"none", "pending", "keep", "done"}]
    <3>1. /\ todo' = [todo EXCEPT ![s] = todo[s] \ {r}]
          /\ \E v \in {"pending", "done"} : verdict' = [verdict EXCEPT ![r] = v]
      BY <1>37 DEF StaysPending, Found
    <3> QED BY <3>1
  <2>3. UNCHANGED <<acked, crashes, door, callVars, lists, handed, saving, adopter, passing, running>>
    BY <1>37 DEF StaysPending, Found
  <2> QED BY <2>1, <2>2, <2>3
<1>38. ASSUME NEW r \in Rentals, NEW s \in Servers, RentedNothing(s, r) PROVE PlainType'
  BY <1>38 DEF Found, RentedNothing
<1>39. ASSUME NEW r \in Rentals, NEW s \in Servers, Keep(s, r) PROVE PlainType'
  BY <1>39 DEF Found, Keep, Made, PodKnown, WithPod
<1>40. ASSUME NEW r \in Rentals, NEW s \in Servers, RemoveUnwanted(s, r) PROVE PlainType'
  <2>1. api' \in [Rentals -> {"unsent", "open", "refused", "live", "gone"}]
    <3>1. \/ api' = api \/ api' = [api EXCEPT ![r] = "gone"]
          \/ api' = [api EXCEPT ![r] = IF api[r] = "unsent" THEN "open" ELSE api[r]]
      BY <1>40 DEF RemoveUnwanted
    <3> QED BY <3>1
  <2>2. todo' \in [Servers -> SUBSET Rentals]
        /\ verdict' \in [Rentals -> {"none", "pending", "keep", "done"}]
    <3>1. /\ todo' = [todo EXCEPT ![s] = todo[s] \ {r}]
          /\ \E v \in {"pending", "done"} : verdict' = [verdict EXCEPT ![r] = v]
      BY <1>40 DEF RemoveUnwanted, Found
    <3> QED BY <3>1
  <2>3. UNCHANGED <<acked, crashes, door, callVars, lists, handed, saving, adopter, passing, running>>
    BY <1>40 DEF RemoveUnwanted, Found
  <2> QED BY <2>1, <2>2, <2>3
<1>41. ASSUME NEW r \in Rentals, RentNext(r) PROVE PlainType'
  BY <1>1, <1>2, <1>3, <1>4, <1>5, <1>6, <1>7, <1>8, <1>9, <1>10, <1>11, <1>12, <1>13, <1>14,
     <1>15, <1>16, <1>17, <1>18, <1>19, <1>20, <1>21, <1>22, <1>23, <1>24, <1>25, <1>41
     DEF RentNext
<1>42. ASSUME NEW s \in Servers, ServerNext(s) PROVE PlainType'
  BY <1>30, <1>31, <1>32, <1>33, <1>34, <1>35, <1>36, <1>37, <1>38, <1>39, <1>40, <1>42
     DEF ServerNext, PassNext
<1> QED BY <1>26, <1>27, <1>28, <1>29, <1>41, <1>42 DEF Next

(* Save writes the whole record of its rental, and of no other.            *)
LEMMA Saved ==
  ASSUME TypeOK, NEW r \in Rentals, Save(r), NEW q \in Rentals
  PROVE  IF q = r /\ mem'[r].request
           THEN disk'[q] = State(mem'[r]) /\ holder'[q] = server[q]
           ELSE disk'[q] = disk[q] /\ holder'[q] = holder[q]
BY DEF TypeOK, Save, diskVars

(* A claimed journal makes its rental the claiming process's own.          *)
LEMMA Loaded ==
  ASSUME TypeOK, NEW s \in Servers, NEW who, Load(s, who), NEW q \in Rentals, OneRental(q), CallOwned(q),
         pc'[q] = pc[q] \/ (pc[q] = "enter" /\ pc'[q] = "adopting")
  PROVE  OneRental(q)'
<1>1. /\ UNCHANGED <<api, acked, disk, saving, verdict>>
      /\ IF disk[q].on /\ holder[q] = Nobody
           THEN /\ holder'[q] = s /\ server'[q] = s /\ mem'[q] = FromState(disk[q])
                /\ lists'[q] = {"loading"}
           ELSE /\ holder'[q] = holder[q] /\ server'[q] = server[q] /\ mem'[q] = mem[q]
                /\ lists'[q] = lists[q]
  BY DEF Load, Orphans, worldVars, TypeOK, Calls
<1>2. disk[q].on /\ holder[q] = Nobody =>
        server[q] = Nobody /\ pc[q] = "dead" /\ pc'[q] = "dead" /\ saving[q] = "no"
        /\ verdict[q] = "none"
  BY DEF OneRental, Journaled, Before, Early, CallOwned, Owned
<1>3. FromState(disk[q]).request /\ FromState(disk[q]).outcome \in {"created", "unknown"}
      /\ FromState(disk[q]).named = disk[q].named
      /\ FromState(disk[q]).cancelled = disk[q].cancelled
      /\ ~FromState(disk[q]).reported
      /\ (FromState(disk[q]).outcome = "created" <=> disk[q].named)
  BY DEF FromState
<1>4. Journaled(q)' BY <1>1, <1>2, <1>3, McpAssumption DEF OneRental, Journaled
<1>5. Before(q)' BY <1>1, <1>2, <1>3, McpAssumption DEF OneRental, Before, Early
<1>6. Under(q)' BY <1>1, <1>2, <1>3, McpAssumption DEF OneRental, Under
<1>7. After(q)' BY <1>1, <1>2, <1>3, McpAssumption DEF OneRental, After
<1>8. Honest(q)' BY <1>1, <1>2, <1>3, McpAssumption DEF OneRental, Honest, Made
<1>9. Heard(q)' BY <1>1, <1>2, <1>3, McpAssumption DEF OneRental, Heard, Unsettled
<1>10. Cancelled(q)' BY <1>1, <1>2, <1>3, McpAssumption DEF OneRental, Cancelled
<1>11. Owned(q)' BY <1>1, <1>2, <1>3, McpAssumption DEF OneRental, Owned
<1>12. OnePlace(q)' BY <1>1, <1>2, <1>3, McpAssumption DEF OneRental, OnePlace
<1> QED BY <1>4, <1>5, <1>6, <1>7, <1>8, <1>9, <1>10, <1>11, <1>12 DEF OneRental

(* The request leaves with its journal on disk.                            *)
LEMMA SendKeeps ==
  ASSUME NEW q \in Rentals, OneRental(q), TypeOK, \A c \in Calls : CallOwned(c),
         \A t \in Servers : Looked(t) /\ Adopting(t),
         NEW r \in Rentals, Send(r)
  PROVE  OneRental(q)'
<1>1. /\ pc[r] = "send" /\ pc'[r] = "posted" /\ api'[r] = "open"
      /\ q # r => pc'[q] = pc[q] /\ api'[q] = api[q]
      /\ UNCHANGED <<acked, disk, holder, server, mem, lists, saving, verdict>>
  BY DEF Send, diskVars, memVars, keeperVars, Goto, Calls, TypeOK
<1>2. q = r => api[q] = "unsent" /\ mem[q].outcome = "none" /\ disk[q].on /\ lists[q] # {}
  BY <1>1 DEF OneRental, Before, Under
<1>3. Journaled(q)' BY <1>1, <1>2 DEF OneRental, Journaled, NoJournal
<1>4. Before(q)' BY <1>1, <1>2 DEF OneRental, Before, Early
<1>5. Under(q)' BY <1>1, <1>2 DEF OneRental, Under
<1>6. After(q)' BY <1>1, <1>2 DEF OneRental, After
<1>7. Honest(q)' BY <1>1, <1>2 DEF OneRental, Honest, Made
<1>8. Heard(q)' BY <1>1, <1>2 DEF OneRental, Heard, Unsettled
<1>9. Cancelled(q)' BY <1>1, <1>2 DEF OneRental, Cancelled
<1>10. Owned(q)' BY <1>1, <1>2 DEF OneRental, Owned
<1>11. OnePlace(q)' BY <1>1, <1>2 DEF OneRental, OnePlace
<1> QED BY <1>3, <1>4, <1>5, <1>6, <1>7, <1>8, <1>9, <1>10, <1>11 DEF OneRental

(* What up() says is what the API did.                                     *)
LEMMA AnsweredKeeps ==
  ASSUME NEW q \in Rentals, OneRental(q), TypeOK, \A c \in Calls : CallOwned(c),
         \A t \in Servers : Looked(t) /\ Adopting(t),
         NEW r \in Rentals, Answered(r)
  PROVE  OneRental(q)'
<1>1. /\ pc[r] = "posted" /\ (q # r => pc'[q] = pc[q] /\ mem'[q] = mem[q])
      /\ UNCHANGED <<api, acked, disk, holder, server, lists, saving, verdict>>
  BY DEF Answered, worldVars, diskVars, keeperVars, Goto, Calls, TypeOK
<1>2. /\ mem'[r].request = mem[r].request
      /\ mem'[r].cancelled = mem[r].cancelled
      /\ mem'[r].reported = mem[r].reported
  BY DEF Answered, worldVars, diskVars, keeperVars, Goto, Calls, TypeOK, Objects
<1>3. \/ Made(r) /\ mem'[r].outcome = "created" /\ mem'[r].named /\ pc'[r] = "named"
      \/ api[r] = "refused" /\ mem'[r].outcome = "rejected" /\ mem'[r].named = mem[r].named
         /\ pc'[r] = "forget"
      \/ mem'[r].outcome = "unknown" /\ mem'[r].named = mem[r].named /\ pc'[r] = "track"
  BY DEF Answered, worldVars, diskVars, keeperVars, Goto, Calls, TypeOK, Objects
<1>4. q = r => disk[q].on /\ mem[q].request /\ mem[q].outcome = "none"
  BY <1>1 DEF OneRental, Before, Under, Journaled, CallOwned, Calls
<1>5. Journaled(q)'
  BY <1>1, <1>2, <1>3, <1>4 DEF OneRental, Journaled, NoJournal
<1>6. Before(q)' BY <1>1, <1>2, <1>3, <1>4 DEF OneRental, Before, Early
<1>7. Under(q)' BY <1>1, <1>2, <1>3, <1>4 DEF OneRental, Under
<1>8. After(q)' BY <1>1, <1>2, <1>3, <1>4 DEF OneRental, After, Under
<1>9. Honest(q)'
  BY <1>1, <1>2, <1>3, <1>4 DEF OneRental, Honest, Made
<1>10. Heard(q)' BY <1>1, <1>2, <1>3, <1>4 DEF OneRental, Heard, Unsettled
<1>11. Cancelled(q)'
  BY <1>1, <1>2, <1>3, <1>4 DEF OneRental, Cancelled
<1>12. Owned(q)' BY <1>1, <1>2, <1>3, <1>4 DEF OneRental, Owned
<1>13. OnePlace(q)' BY <1>1, <1>2, <1>3, <1>4 DEF OneRental, OnePlace
<1> QED BY <1>5, <1>6, <1>7, <1>8, <1>9, <1>10, <1>11, <1>12, <1>13 DEF OneRental

(* A tracked rental is unresolved and in no other list.                    *)
LEMMA TrackKeeps ==
  ASSUME NEW q \in Rentals, OneRental(q), TypeOK, \A c \in Calls : CallOwned(c),
         \A t \in Servers : Looked(t) /\ Adopting(t),
         NEW r \in Rentals, Track(r)
  PROVE  OneRental(q)'
<1>1. /\ pc[r] = "track" /\ pc'[r] = "save"
      /\ q # r => pc'[q] = pc[q] /\ lists'[q] = lists[q]
      /\ lists'[r] = (lists[r] \ {"recovered", "handing", "inFlight"}) \cup {"unresolved"}
      /\ UNCHANGED <<api, acked, disk, holder, server, mem, saving, verdict>>
  BY DEF Track, worldVars, diskVars, keeperVars, Goto, Calls, TypeOK, TrackInMemory
<1>2. q = r => lists'[q] = {"unresolved"} BY <1>1 DEF OneRental, After
<1>3. q = r => server[q] # Nobody BY <1>1 DEF CallOwned, Calls
<1>4. Journaled(q)' BY <1>1, <1>2, <1>3 DEF OneRental, Journaled, NoJournal
<1>5. Before(q)' BY <1>1, <1>2, <1>3 DEF OneRental, Before, Early
<1>6. Under(q)' BY <1>1, <1>2, <1>3 DEF OneRental, Under
<1>7. After(q)' BY <1>1, <1>2, <1>3 DEF OneRental, After
<1>8. Honest(q)' BY <1>1, <1>2, <1>3 DEF OneRental, Honest, Made
<1>9. Heard(q)' BY <1>1, <1>2, <1>3 DEF OneRental, Heard, Unsettled
<1>10. Cancelled(q)' BY <1>1, <1>2, <1>3 DEF OneRental, Cancelled
<1>11. Owned(q)' BY <1>1, <1>2, <1>3 DEF OneRental, Owned
<1>12. OnePlace(q)' BY <1>1, <1>2, <1>3 DEF OneRental, OnePlace
<1> QED BY <1>4, <1>5, <1>6, <1>7, <1>8, <1>9, <1>10, <1>11, <1>12 DEF OneRental

(* A named pod is journaled, or tracked when its call was cancelled.       *)
LEMMA NamedKeeps ==
  ASSUME NEW q \in Rentals, OneRental(q), TypeOK, \A c \in Calls : CallOwned(c),
         \A t \in Servers : Looked(t) /\ Adopting(t),
         NEW r \in Rentals, Named(r)
  PROVE  OneRental(q)'
<1>1. /\ pc[r] = "named" /\ (q # r => pc'[q] = pc[q] /\ mem'[q] = mem[q] /\ lists'[q] = lists[q])
      /\ UNCHANGED <<api, acked, server, saving, verdict>>
  BY DEF Named, worldVars, diskVars, keeperVars, Goto, Calls, TypeOK, TrackInMemory
<1>2. /\ mem'[r].request = mem[r].request /\ mem'[r].outcome = mem[r].outcome
      /\ mem'[r].cancelled = mem[r].cancelled /\ mem'[r].named = mem[r].named /\ mem'[r].reported
  BY DEF Named, worldVars, diskVars, keeperVars, Goto, Calls, TypeOK, Objects
<1>3. q = r => lists[q] \in {{}, {"inFlight"}, {"unresolved"}} BY <1>1 DEF OneRental, After
<1>4. \/ /\ mem[r].cancelled /\ pc'[r] = "save" /\ disk' = disk /\ holder' = holder
         /\ q = r => lists'[q] = {"unresolved"}
      \/ ~mem[r].cancelled /\ pc'[r] = "waiting" /\ Save(r) /\ lists' = lists
  BY <1>3 DEF Named, TrackInMemory, worldVars, diskVars, keeperVars, Goto, Calls, TypeOK
<1>5. \/ /\ mem[r].cancelled /\ pc'[r] = "save" /\ disk' = disk /\ holder' = holder
         /\ q = r => lists'[q] = {"unresolved"}
      \/ /\ ~mem[r].cancelled /\ pc'[r] = "waiting" /\ lists' = lists
         /\ IF q = r /\ mem[r].request
              THEN disk'[q] = State(mem'[r]) /\ holder'[q] = server[q]
              ELSE disk'[q] = disk[q] /\ holder'[q] = holder[q]
  BY <1>2, <1>4, Saved
<1>6. q = r => mem[q].outcome = "created" /\ server[q] # Nobody
  BY <1>1 DEF OneRental, After, CallOwned, Calls
<1>7. Journaled(q)'
  BY <1>1, <1>2, <1>3, <1>4, <1>5, <1>6 DEF OneRental, Journaled, State, NoJournal
<1>8. Before(q)' BY <1>1, <1>2, <1>3, <1>4, <1>5, <1>6 DEF OneRental, Before, Early
<1>9. Under(q)'
  BY <1>1, <1>2, <1>3, <1>4, <1>5, <1>6 DEF OneRental, Under, State
<1>10. After(q)' BY <1>1, <1>2, <1>3, <1>4, <1>5, <1>6 DEF OneRental, After
<1>11. Honest(q)'
  BY <1>1, <1>2, <1>3, <1>4, <1>5, <1>6 DEF OneRental, Honest, State, Made
<1>12. Heard(q)'
  BY <1>1, <1>2, <1>3, <1>4, <1>5, <1>6 DEF OneRental, Heard, Unsettled, State
<1>13. Cancelled(q)'
  BY <1>1, <1>2, <1>3, <1>4, <1>5, <1>6 DEF OneRental, Cancelled, State
<1>14. Owned(q)' BY <1>1, <1>2, <1>3, <1>4, <1>5, <1>6 DEF OneRental, Owned
<1>15. OnePlace(q)' BY <1>1, <1>2, <1>3, <1>4, <1>5, <1>6 DEF OneRental, OnePlace
<1> QED BY <1>7, <1>8, <1>9, <1>10, <1>11, <1>12, <1>13, <1>14, <1>15 DEF OneRental

(* Only a delivered rental the host named is forgotten here.               *)
LEMMA AckKnownKeeps ==
  ASSUME NEW q \in Rentals, OneRental(q), TypeOK, \A c \in Calls : CallOwned(c),
         \A t \in Servers : Looked(t) /\ Adopting(t),
         NEW r \in Rentals, AckKnown(r)
  PROVE  OneRental(q)'
<1>1. /\ pc[r] = "adopted" /\ pc'[r] = "admit" /\ (q # r => pc'[q] = pc[q])
      /\ UNCHANGED <<api, server, mem, saving, verdict>>
  BY DEF AckKnown, keeperVars, Goto, Calls, TypeOK
<1>2. \/ /\ lists'[q] = lists[q] /\ disk'[q] = disk[q] /\ holder'[q] = holder[q]
         /\ acked[q] => acked'[q]
      \/ /\ "delivered" \in lists[q] /\ lists'[q] = lists[q] \ {"delivered"}
         /\ disk'[q] = NoJournal /\ holder'[q] = Nobody /\ acked'[q]
  BY DEF AckKnown, keeperVars, Goto, Calls, TypeOK, Forget, Leave, In
<1>3. Journaled(q)' BY <1>1, <1>2 DEF OneRental, Journaled, NoJournal
<1>4. Before(q)' BY <1>1, <1>2 DEF OneRental, Before, Early, NoJournal
<1>5. Under(q)' BY <1>1, <1>2 DEF OneRental, Under, NoJournal
<1>6. After(q)' BY <1>1, <1>2 DEF OneRental, After
<1>7. Honest(q)' BY <1>1, <1>2 DEF OneRental, Honest, NoJournal, Made
<1>8. Heard(q)' BY <1>1, <1>2 DEF OneRental, Heard, Unsettled, NoJournal
<1>9. Cancelled(q)' BY <1>1, <1>2 DEF OneRental, Cancelled, NoJournal
<1>10. Owned(q)' BY <1>1, <1>2 DEF OneRental, Owned
<1>11. OnePlace(q)' BY <1>1, <1>2 DEF OneRental, OnePlace
<1> QED BY <1>3, <1>4, <1>5, <1>6, <1>7, <1>8, <1>9, <1>10, <1>11 DEF OneRental

(* What a cancellation takes from a list it puts in another.               *)
LEMMA CancelTracksKeeps ==
  ASSUME NEW q \in Rentals, OneRental(q), TypeOK, \A c \in Calls : CallOwned(c),
         \A t \in Servers : Looked(t) /\ Adopting(t),
         NEW r \in Rentals, CancelTracks(r)
  PROVE  OneRental(q)'
<1>1. /\ saving[r] = "mark" /\ (q # r => pc'[q] = pc[q] /\ saving'[q] = saving[q])
      /\ UNCHANGED <<api, acked, disk, holder, server, mem, verdict>>
  BY DEF CancelTracks, worldVars, diskVars, keeperVars, Goto, Calls, TypeOK
<1>2. \/ pc'[r] = pc[r] /\ pc[r] # "returned"
      \/ pc'[r] = "done" /\ pc[r] = "returned"
  BY DEF CancelTracks, worldVars, diskVars, keeperVars, Goto, Calls, TypeOK
<1>3. q = r => \/ mem[q].outcome = "unsent" /\ saving'[q] = "no"
               \/ mem[q].outcome # "unsent" /\ saving'[q] = "cancel"
  BY DEF CancelTracks, worldVars, diskVars, keeperVars, Goto, Calls, TypeOK
<1>4. \/ lists'[q] = lists[q] /\ (q = r => mem[q].outcome = "unsent")
      \/ /\ q = r /\ mem[q].outcome # "unsent"
         /\ lists'[q] = (lists[q] \ {"recovered", "handing", "inFlight"}) \cup {"unresolved"}
      \/ /\ "handing" \in lists[q] /\ lists'[q] = (lists[q] \ {"handing"}) \cup {"recovered"}
         /\ q = r => mem[q].outcome = "unsent"
  BY DEF CancelTracks, worldVars, diskVars, keeperVars, Goto, Calls, TypeOK, Requeue
<1>5. q = r => mem[q].cancelled /\ server[q] # Nobody BY <1>1 DEF OneRental, Cancelled, Owned
<1>6. q = r => "loading" \notin lists[q] BY <1>1 DEF OneRental, Cancelled, After
<1>7. q = r => lists[q] \subseteq {"recovered", "handing", "inFlight", "unresolved", "delivered"}
  BY <1>6 DEF TypeOK, Lists
<1>8. "handing" \in lists[q] => lists[q] \subseteq {"handing", "delivered"}
  BY DEF OneRental, OnePlace
<1>9. Journaled(q)'
  BY <1>1, <1>2, <1>3, <1>4, <1>5, <1>6, <1>7, <1>8 DEF OneRental, Journaled, NoJournal
<1>10. Before(q)' BY <1>1, <1>2, <1>3, <1>4, <1>5, <1>6, <1>7, <1>8 DEF OneRental, Before, Early
<1>11. Under(q)'
  BY <1>1, <1>2, <1>3, <1>4, <1>5, <1>6, <1>7, <1>8 DEF OneRental, Under
<1>12. After(q)'
  BY <1>1, <1>2, <1>3, <1>4, <1>5, <1>6, <1>7, <1>8 DEF OneRental, After
<1>13. Honest(q)'
  BY <1>1, <1>2, <1>3, <1>4, <1>5, <1>6, <1>7, <1>8 DEF OneRental, Honest, Made
<1>14. Heard(q)'
  BY <1>1, <1>2, <1>3, <1>4, <1>5, <1>6, <1>7, <1>8 DEF OneRental, Heard, Unsettled
<1>15. Cancelled(q)'
  BY <1>1, <1>2, <1>3, <1>4, <1>5, <1>6, <1>7, <1>8 DEF OneRental, Cancelled, NoJournal,
     Journaled
<1>16. Owned(q)' BY <1>1, <1>2, <1>3, <1>4, <1>5, <1>6, <1>7, <1>8 DEF OneRental, Owned
<1>17. OnePlace(q)' BY <1>1, <1>2, <1>3, <1>4, <1>5, <1>6, <1>7, <1>8 DEF OneRental, OnePlace
<1> QED BY <1>9, <1>10, <1>11, <1>12, <1>13, <1>14, <1>15, <1>16, <1>17 DEF OneRental

(* A removed pod is settled; one still listed keeps its journal.           *)
LEMMA RemovePodKeeps ==
  ASSUME NEW q \in Rentals, OneRental(q), TypeOK, \A c \in Calls : CallOwned(c),
         \A t \in Servers : Looked(t) /\ Adopting(t),
         NEW r \in Rentals, NEW s \in Servers, RemovePod(r, s)
  PROVE  OneRental(q)'
<1>1. /\ api[r] = "live" /\ api'[r] = "gone" /\ (q # r => api'[q] = api[q])
      /\ UNCHANGED <<pc, server, saving, verdict>>
  BY DEF RemovePod, callVars, keeperVars, Calls, TypeOK
<1>2. \/ /\ lists'[q] = lists[q] /\ disk'[q] = disk[q] /\ holder'[q] = holder[q]
         /\ acked[q] => acked'[q]
      \/ /\ q = r /\ "delivered" \in lists[q] /\ lists'[q] = lists[q] \ {"delivered"}
         /\ disk'[q] = NoJournal /\ holder'[q] = Nobody
  BY DEF RemovePod, callVars, keeperVars, Calls, TypeOK, Forget, Leave, In
<1>3. /\ mem'[q].outcome = mem[q].outcome /\ mem'[q].request = mem[q].request
      /\ mem'[q].cancelled = mem[q].cancelled /\ mem'[q].reported = mem[q].reported
  BY DEF RemovePod, callVars, keeperVars, Calls, TypeOK, Objects
<1>4. mem' = mem \/ mem' = [mem EXCEPT ![r].named = FALSE]
  BY DEF RemovePod, callVars, keeperVars, Calls, TypeOK, Objects
<1>5. mem'[q].named = mem[q].named \/ (q = r /\ ~mem'[q].named)
  BY <1>4 DEF TypeOK, Objects
<1>6. Journaled(q)'
  BY <1>1, <1>2, <1>3, <1>4, <1>5 DEF OneRental, Journaled, NoJournal
<1>7. Before(q)' BY <1>1, <1>2, <1>3, <1>4, <1>5 DEF OneRental, Before, Early
<1>8. Under(q)'
  BY <1>1, <1>2, <1>3, <1>4, <1>5 DEF OneRental, Under, NoJournal
<1>9. After(q)' BY <1>1, <1>2, <1>3, <1>4, <1>5 DEF OneRental, After
<1>10. Honest(q)'
  BY <1>1, <1>2, <1>3, <1>4, <1>5 DEF OneRental, Honest, NoJournal, Made
<1>11. Heard(q)'
  BY <1>1, <1>2, <1>3, <1>4, <1>5 DEF OneRental, Heard, Unsettled, NoJournal
<1>12. Cancelled(q)'
  BY <1>1, <1>2, <1>3, <1>4, <1>5 DEF OneRental, Cancelled, NoJournal
<1>13. Owned(q)' BY <1>1, <1>2, <1>3, <1>4, <1>5 DEF OneRental, Owned
<1>14. OnePlace(q)' BY <1>1, <1>2, <1>3, <1>4, <1>5 DEF OneRental, OnePlace
<1> QED BY <1>6, <1>7, <1>8, <1>9, <1>10, <1>11, <1>12, <1>13, <1>14 DEF OneRental

(* A delivered rental stays listed until the host names it.                *)
LEMMA DeliverKeeps ==
  ASSUME NEW q \in Rentals, OneRental(q), TypeOK, \A c \in Calls : CallOwned(c),
         \A t \in Servers : Looked(t) /\ Adopting(t),
         NEW c \in Calls, Deliver(c)
  PROVE  OneRental(q)'
<1>1. /\ pc[c] = "returned" /\ pc'[c] = "done" /\ (q # c => pc'[q] = pc[q])
      /\ UNCHANGED <<api, acked, disk, holder, server, verdict>>
  BY DEF Deliver, worldVars, diskVars, keeperVars, Goto, Calls, TypeOK
<1>2. /\ mem'[q].outcome = mem[q].outcome /\ mem'[q].request = mem[q].request
      /\ mem'[q].named = mem[q].named
      /\ mem'[q].cancelled = mem[q].cancelled /\ mem'[q].reported = mem[q].reported
  BY DEF Deliver, worldVars, diskVars, keeperVars, Goto, Calls, TypeOK, Objects
<1>3. \/ /\ lists'[q] = (lists[q] \ {"handing", "inFlight"}) \cup {"delivered"}
         /\ saving'[q] = "deliver"
         /\ "handing" \in lists[q] \/ (q = c /\ "inFlight" \in lists[q] /\ mem[q].reported)
      \/ /\ saving'[q] = saving[q]
         /\ lists'[q] = lists[q] \/ (q = c /\ lists'[q] = lists[q] \ {"inFlight"}
                                     /\ (mem[q].reported => "inFlight" \notin lists[q]))
  BY DEF Deliver, worldVars, diskVars, keeperVars, Goto, Calls, TypeOK
<1>4. q = c => ("inFlight" \in lists[q] => mem[q].reported) BY <1>1 DEF OneRental, After
<1>5. q = c => server[q] # Nobody BY <1>1 DEF CallOwned, Calls
<1>6. Journaled(q)'
  BY <1>1, <1>2, <1>3, <1>4, <1>5 DEF OneRental, Journaled, NoJournal
<1>7. Before(q)' BY <1>1, <1>2, <1>3, <1>4, <1>5 DEF OneRental, Before, Early
<1>8. Under(q)'
  BY <1>1, <1>2, <1>3, <1>4, <1>5 DEF OneRental, Under
<1>9. After(q)' BY <1>1, <1>2, <1>3, <1>4, <1>5 DEF OneRental, After
<1>10. Honest(q)'
  BY <1>1, <1>2, <1>3, <1>4, <1>5 DEF OneRental, Honest, Made
<1>11. Heard(q)'
  BY <1>1, <1>2, <1>3, <1>4, <1>5 DEF OneRental, Heard, Unsettled
<1>12. Cancelled(q)'
  BY <1>1, <1>2, <1>3, <1>4, <1>5 DEF OneRental, Cancelled
<1>13. Owned(q)' BY <1>1, <1>2, <1>3, <1>4, <1>5 DEF OneRental, Owned
<1>14. OnePlace(q)' BY <1>1, <1>2, <1>3, <1>4, <1>5 DEF OneRental, OnePlace
<1> QED BY <1>6, <1>7, <1>8, <1>9, <1>10, <1>11, <1>12, <1>13, <1>14 DEF OneRental

(* A pass forgets only what the API refused or has removed.                *)
LEMMA FinishPassKeeps ==
  ASSUME NEW q \in Rentals, OneRental(q), TypeOK, \A c \in Calls : CallOwned(c),
         \A t \in Servers : Looked(t) /\ Adopting(t),
         NEW s \in Servers, FinishPass(s)
  PROVE  OneRental(q)'
<1>1. UNCHANGED <<api, acked, pc, server, mem, saving>>
  BY DEF FinishPass, worldVars, callVars, Calls, TypeOK
<1>2. \/ lists'[q] = lists[q] /\ disk'[q] = disk[q] /\ holder'[q] = holder[q]
         /\ verdict'[q] \in {verdict[q], "none"}
      \/ /\ "unresolved" \in lists[q] /\ verdict[q] = "keep" /\ ~mem[q].cancelled
         /\ verdict'[q] = "none"
         /\ lists'[q] = (lists[q] \ {"unresolved"}) \cup {"recovered"}
         /\ disk'[q] = disk[q] /\ holder'[q] = holder[q]
      \/ /\ "unresolved" \in lists[q] /\ verdict[q] = "done" /\ verdict'[q] = "none"
         /\ lists'[q] = lists[q] \ {"unresolved"}
         /\ disk'[q] = NoJournal /\ holder'[q] = Nobody
  BY DEF FinishPass, worldVars, callVars, Calls, TypeOK, Forget, In
<1>3. Journaled(q)' BY <1>1, <1>2 DEF OneRental, Journaled, NoJournal
<1>4. Before(q)' BY <1>1, <1>2 DEF OneRental, Before, Early, Owned, NoJournal
<1>5. Under(q)' BY <1>1, <1>2 DEF OneRental, Under, NoJournal, Honest
<1>6. After(q)' BY <1>1, <1>2 DEF OneRental, After, Under, Honest
<1>7. Honest(q)' BY <1>1, <1>2 DEF OneRental, Honest, NoJournal, Made
<1>8. Heard(q)' BY <1>1, <1>2 DEF OneRental, Heard, Unsettled, NoJournal, Honest
<1>9. Cancelled(q)' BY <1>1, <1>2 DEF OneRental, Cancelled, NoJournal
<1>10. Owned(q)' BY <1>1, <1>2 DEF OneRental, Owned
<1>11. OnePlace(q)' BY <1>1, <1>2 DEF OneRental, OnePlace
<1> QED BY <1>3, <1>4, <1>5, <1>6, <1>7, <1>8, <1>9, <1>10, <1>11 DEF OneRental

(* A process that stops takes its memory along and leaves the journals.    *)
LEMMA CrashKeeps ==
  ASSUME NEW q \in Rentals, OneRental(q), TypeOK, \A c \in Calls : CallOwned(c),
         \A t \in Servers : Looked(t) /\ Adopting(t),
         NEW s \in Servers, Crash(s)
  PROVE  OneRental(q)'
<1>1. UNCHANGED <<api, acked, disk>>
  BY DEF Crash, Calls, TypeOK
<1>2. holder'[q] = IF holder[q] = s THEN Nobody ELSE holder[q]
  BY DEF Crash, Calls, TypeOK
<1>3. IF server[q] = s
        THEN /\ pc'[q] = "dead" /\ server'[q] = Nobody /\ mem'[q] = NewObject /\ lists'[q] = {}
             /\ saving'[q] = "no" /\ verdict'[q] = "none"
        ELSE /\ pc'[q] = pc[q] /\ server'[q] = server[q] /\ mem'[q] = mem[q] /\ lists'[q] = lists[q]
             /\ saving'[q] = saving[q] /\ verdict'[q] = verdict[q]
  BY DEF Crash, Calls, TypeOK
<1>4. Journaled(q)'
  BY <1>1, <1>2, <1>3 DEF OneRental, Journaled, NoJournal, NewObject
<1>5. Before(q)' BY <1>1, <1>2, <1>3 DEF OneRental, Before, Early, NewObject
<1>6. Under(q)' BY <1>1, <1>2, <1>3 DEF OneRental, Under, NewObject
<1>7. After(q)' BY <1>1, <1>2, <1>3 DEF OneRental, After, NewObject
<1>8. Honest(q)'
  BY <1>1, <1>2, <1>3 DEF OneRental, Honest, Made, NewObject
<1>9. Heard(q)' BY <1>1, <1>2, <1>3 DEF OneRental, Heard, Unsettled, NewObject
<1>10. Cancelled(q)'
  BY <1>1, <1>2, <1>3 DEF OneRental, Cancelled, NewObject
<1>11. Owned(q)' BY <1>1, <1>2, <1>3 DEF OneRental, Owned, NewObject
<1>12. OnePlace(q)' BY <1>1, <1>2, <1>3 DEF OneRental, OnePlace, NewObject
<1> QED BY <1>4, <1>5, <1>6, <1>7, <1>8, <1>9, <1>10, <1>11, <1>12 DEF OneRental

(* A rental without an answer keeps, or gets back, its journal.            *)
LEMMA StaysPendingKeeps ==
  ASSUME NEW q \in Rentals, OneRental(q), TypeOK, \A c \in Calls : CallOwned(c),
         \A t \in Servers : Looked(t) /\ Adopting(t),
         NEW r \in Rentals, NEW s \in Servers, StaysPending(s, r)
  PROVE  OneRental(q)'
<1>1. /\ r \in todo[s] /\ verdict'[r] = "pending" /\ (q # r => verdict'[q] = verdict[q])
      /\ UNCHANGED <<acked, pc, server, mem, lists, saving>>
  BY DEF StaysPending, diskVars, callVars, Calls, TypeOK, Found
<1>2. /\ q # r => api'[q] = api[q]
      /\ api'[r] = api[r] \/ (api[r] = "unsent" /\ api'[r] = "open" /\ mem[r].outcome = "unknown")
  BY DEF StaysPending, diskVars, callVars, Calls, TypeOK, Found
<1>3. \/ (disk[r].on \/ mem[r].outcome = "none") /\ UNCHANGED diskVars
      \/ mem[r].outcome = "unknown" /\ ~disk[r].on /\ Save(r)
  BY DEF StaysPending, diskVars, callVars, Calls, TypeOK, Found, diskVars
<1>4. \/ disk'[q] = disk[q] /\ holder'[q] = holder[q]
         /\ (q = r => disk[q].on \/ mem[q].outcome = "none")
      \/ q = r /\ ~disk[q].on /\ disk'[q] = State(mem[q]) /\ holder'[q] = server[q]
         /\ mem[q].request
  BY <1>1, <1>3, Saved DEF diskVars, OneRental, Journaled
<1>5. q = r => server[q] = s /\ lists[q] # {} BY <1>1 DEF Looked
<1>6. Journaled(q)'
  BY <1>1, <1>2, <1>3, <1>4, <1>5 DEF OneRental, Journaled, State, NoJournal
<1>7. Before(q)' BY <1>1, <1>2, <1>3, <1>4, <1>5 DEF OneRental, Before, Early, Under, State
<1>8. Under(q)'
  BY <1>1, <1>2, <1>3, <1>4, <1>5 DEF OneRental, Under, State
<1>9. After(q)' BY <1>1, <1>2, <1>3, <1>4, <1>5 DEF OneRental, After
<1>10. Honest(q)'
  BY <1>1, <1>2, <1>3, <1>4, <1>5 DEF OneRental, Honest, State, Made
<1>11. Heard(q)'
  BY <1>1, <1>2, <1>3, <1>4, <1>5 DEF OneRental, Heard, Unsettled, State
<1>12. Cancelled(q)'
  BY <1>1, <1>2, <1>3, <1>4, <1>5 DEF OneRental, Cancelled, State
<1>13. Owned(q)' BY <1>1, <1>2, <1>3, <1>4, <1>5 DEF OneRental, Owned
<1>14. OnePlace(q)' BY <1>1, <1>2, <1>3, <1>4, <1>5 DEF OneRental, OnePlace
<1> QED BY <1>6, <1>7, <1>8, <1>9, <1>10, <1>11, <1>12, <1>13, <1>14 DEF OneRental

(* A rejected rental never bills.                                          *)
LEMMA RentedNothingKeeps ==
  ASSUME NEW q \in Rentals, OneRental(q), TypeOK, \A c \in Calls : CallOwned(c),
         \A t \in Servers : Looked(t) /\ Adopting(t),
         NEW r \in Rentals, NEW s \in Servers, RentedNothing(s, r)
  PROVE  OneRental(q)'
<1>1. /\ r \in todo[s] /\ verdict'[r] = "done"
      /\ q # r => verdict'[q] = verdict[q] /\ mem'[q] = mem[q]
      /\ UNCHANGED <<api, acked, pc, server, lists, saving>>
  BY DEF RentedNothing, diskVars, callVars, Calls, TypeOK, Found
<1>2. /\ mem'[r].outcome = "rejected" /\ mem'[r].request = mem[r].request
      /\ mem'[r].named = mem[r].named
      /\ mem'[r].cancelled = mem[r].cancelled /\ mem'[r].reported = mem[r].reported
  BY DEF RentedNothing, diskVars, Calls, TypeOK, Objects
<1>3. \/ /\ mem[r].outcome = "rejected" \/ (mem[r].outcome = "unknown" /\ api[r] = "refused"
                                            /\ disk[r].on)
         /\ UNCHANGED diskVars
      \/ mem[r].outcome = "unknown" /\ api[r] = "refused" /\ ~disk[r].on /\ Save(r)
  BY DEF RentedNothing, diskVars, callVars, Calls, TypeOK, Found
<1>4. \/ /\ disk'[q] = disk[q] /\ holder'[q] = holder[q]
         /\ q = r => mem[q].outcome = "rejected" \/ (mem[q].outcome = "unknown"
                                                     /\ api[q] = "refused")
      \/ /\ q = r /\ ~disk[q].on /\ disk'[q] = State(mem'[q]) /\ holder'[q] = server[q]
         /\ mem[q].request
         /\ mem[q].outcome = "unknown" /\ api[q] = "refused"
  BY <1>1, <1>2, <1>3, Saved DEF diskVars, OneRental, Journaled
<1>5. q = r => server[q] = s /\ lists[q] # {} BY <1>1 DEF Looked
<1>6. q = r => api'[q] \in {"unsent", "refused"} BY <1>1, <1>3 DEF OneRental, Honest
<1>7. Journaled(q)'
  BY <1>1, <1>2, <1>3, <1>4, <1>5, <1>6 DEF OneRental, Journaled, State, NoJournal
<1>8. Before(q)'
  BY <1>1, <1>2, <1>3, <1>4, <1>5, <1>6 DEF OneRental, Before, Early, Under, State
<1>9. Under(q)'
  BY <1>1, <1>2, <1>3, <1>4, <1>5, <1>6 DEF OneRental, Under, State, After
<1>10. After(q)' BY <1>1, <1>2, <1>3, <1>4, <1>5, <1>6 DEF OneRental, After, Under
<1>11. Honest(q)'
  BY <1>1, <1>2, <1>3, <1>4, <1>5, <1>6 DEF OneRental, Honest, State, Made
<1>12. Heard(q)'
  BY <1>1, <1>2, <1>3, <1>4, <1>5, <1>6 DEF OneRental, Heard, Unsettled, State
<1>13. Cancelled(q)'
  BY <1>1, <1>2, <1>3, <1>4, <1>5, <1>6 DEF OneRental, Cancelled, State
<1>14. Owned(q)' BY <1>1, <1>2, <1>3, <1>4, <1>5, <1>6 DEF OneRental, Owned
<1>15. OnePlace(q)' BY <1>1, <1>2, <1>3, <1>4, <1>5, <1>6 DEF OneRental, OnePlace
<1> QED BY <1>7, <1>8, <1>9, <1>10, <1>11, <1>12, <1>13, <1>14, <1>15 DEF OneRental

(* A kept rental is journaled with its pod.                                *)
LEMMA KeepKeeps ==
  ASSUME NEW q \in Rentals, OneRental(q), TypeOK, \A c \in Calls : CallOwned(c),
         \A t \in Servers : Looked(t) /\ Adopting(t),
         NEW r \in Rentals, NEW s \in Servers, Keep(s, r)
  PROVE  OneRental(q)'
<1>1. /\ r \in todo[s] /\ verdict'[r] = "keep"
      /\ q # r => verdict'[q] = verdict[q] /\ mem'[q] = mem[q]
      /\ ~mem[r].cancelled /\ Save(r)
      /\ UNCHANGED <<api, acked, pc, server, lists, saving>>
  BY DEF Keep, callVars, Calls, TypeOK, Found, WithPod
<1>2. mem'[r].outcome = "created" /\ mem'[r].request = mem[r].request
      /\ mem'[r].cancelled = mem[r].cancelled /\ mem'[r].reported = mem[r].reported
  BY DEF Keep, Calls, TypeOK, Objects, WithPod
<1>3. \/ mem[r].outcome = "created" /\ mem'[r].named = mem[r].named
      \/ mem[r].outcome = "unknown" /\ mem'[r].named /\ Made(r)
  BY DEF Keep, Calls, TypeOK, Objects, WithPod, PodKnown
<1>4. IF q = r /\ mem[q].request
        THEN disk'[q] = State(mem'[q]) /\ holder'[q] = server[q]
        ELSE disk'[q] = disk[q] /\ holder'[q] = holder[q]
  BY <1>1, <1>2, Saved
<1>5. q = r => server[q] = s /\ lists[q] # {} BY <1>1 DEF Looked
<1>6. Journaled(q)'
  BY <1>1, <1>2, <1>3, <1>4, <1>5 DEF OneRental, Journaled, State, NoJournal
<1>7. Before(q)' BY <1>1, <1>2, <1>3, <1>4, <1>5 DEF OneRental, Before, Early, Under, State
<1>8. Under(q)'
  BY <1>1, <1>2, <1>3, <1>4, <1>5 DEF OneRental, Under, State, After
<1>9. After(q)'
  BY <1>1, <1>2, <1>3, <1>4, <1>5 DEF OneRental, After, Under, Journaled
<1>10. Honest(q)'
  BY <1>1, <1>2, <1>3, <1>4, <1>5 DEF OneRental, Honest, State, Made
<1>11. Heard(q)'
  BY <1>1, <1>2, <1>3, <1>4, <1>5 DEF OneRental, Heard, Unsettled, State, NoJournal, Journaled,
     Honest, Made
<1>12. Cancelled(q)'
  BY <1>1, <1>2, <1>3, <1>4, <1>5 DEF OneRental, Cancelled, State
<1>13. Owned(q)' BY <1>1, <1>2, <1>3, <1>4, <1>5 DEF OneRental, Owned
<1>14. OnePlace(q)' BY <1>1, <1>2, <1>3, <1>4, <1>5 DEF OneRental, OnePlace
<1> QED BY <1>6, <1>7, <1>8, <1>9, <1>10, <1>11, <1>12, <1>13, <1>14 DEF OneRental

(* A cancelled rental is done with only when its pod is gone.              *)
LEMMA RemoveUnwantedKeeps ==
  ASSUME NEW q \in Rentals, OneRental(q), TypeOK, \A c \in Calls : CallOwned(c),
         \A t \in Servers : Looked(t) /\ Adopting(t),
         NEW r \in Rentals, NEW s \in Servers, RemoveUnwanted(s, r)
  PROVE  OneRental(q)'
<1>1. /\ r \in todo[s] /\ verdict'[r] \in {"done", "pending"} /\ (q # r => verdict'[q] = verdict[q])
      /\ mem[r].cancelled /\ (q # r => mem'[q] = mem[q] /\ api'[q] = api[q])
      /\ UNCHANGED <<acked, pc, server, lists, saving>>
  BY DEF RemoveUnwanted, diskVars, callVars, Calls, TypeOK, Found, WithPod
<1>2. mem' = WithPod(r) \/ mem' = [WithPod(r) EXCEPT ![r].named = FALSE]
  BY DEF RemoveUnwanted, diskVars, callVars, Calls, Found
<1>3. /\ mem'[r].outcome = "created" /\ mem'[r].request = mem[r].request
      /\ mem'[r].cancelled = mem[r].cancelled /\ mem'[r].reported = mem[r].reported
  BY <1>2 DEF TypeOK, Objects, WithPod
<1>4. mem[r].outcome = "created" \/ (mem[r].outcome = "unknown" /\ Made(r))
  BY DEF RemoveUnwanted, diskVars, Calls, TypeOK, PodKnown
<1>5. \/ /\ verdict'[r] = "done" /\ ~mem'[r].named
         /\ api'[r] = "gone" \/ (mem[r].outcome = "created" /\ ~mem[r].named /\ api'[r] = api[r])
      \/ /\ verdict'[r] = "pending" /\ mem'[r].named /\ api'[r] \in {api[r], "gone"}
  BY DEF RemoveUnwanted, diskVars, callVars, Calls, TypeOK, Objects, WithPod, PodKnown, Found
<1>6. (disk[r].on /\ UNCHANGED diskVars) \/ (~disk[r].on /\ Save(r))
  BY DEF RemoveUnwanted
<1>7. \/ /\ disk'[q] = disk[q] /\ holder'[q] = holder[q] /\ (q = r => disk[q].on \/ ~mem[q].request)
      \/ q = r /\ disk'[q] = State(mem'[q]) /\ holder'[q] = server[q] /\ mem[q].request
  BY <1>1, <1>3, <1>6, Saved DEF diskVars
<1>8. q = r => server[q] = s /\ lists[q] # {} BY <1>1 DEF Looked
<1>9. q = r => Made(q) /\ api'[q] \in {"live", "gone"} /\ (api'[q] = "gone" \/ mem'[q].named)
      /\ (verdict'[q] = "done" => api'[q] = "gone")
  BY <1>4, <1>5 DEF OneRental, Honest, Made
<1>10. Journaled(q)'
  BY <1>1, <1>2, <1>3, <1>4, <1>5, <1>6, <1>7, <1>8, <1>9 DEF OneRental, Journaled, State,
     NoJournal
<1>11. Before(q)'
  BY <1>1, <1>2, <1>3, <1>4, <1>5, <1>6, <1>7, <1>8, <1>9 DEF OneRental, Before, Early, Under,
     State
<1>12. Under(q)'
  BY <1>1, <1>2, <1>3, <1>4, <1>5, <1>6, <1>7, <1>8, <1>9 DEF OneRental, Under, State, After
<1>13. After(q)'
  BY <1>1, <1>2, <1>3, <1>4, <1>5, <1>6, <1>7, <1>8, <1>9 DEF OneRental, After, Under, Journaled
<1>14. Honest(q)'
  BY <1>1, <1>2, <1>3, <1>4, <1>5, <1>6, <1>7, <1>8, <1>9 DEF OneRental, Honest, State, Made
<1>15. Heard(q)'
  BY <1>1, <1>2, <1>3, <1>4, <1>5, <1>6, <1>7, <1>8, <1>9 DEF OneRental, Heard, Unsettled,
     State, NoJournal, Journaled, Honest, Made
<1>16. Cancelled(q)'
  <2>1. mem'[q].cancelled = mem[q].cancelled BY <1>1, <1>3
  <2>2. CASE disk'[q] = disk[q] BY <2>1, <2>2, <1>1 DEF OneRental, Cancelled
  <2>3. CASE q = r /\ disk'[q] = State(mem'[q])
    <3>1. mem'[q].cancelled BY <2>1, <2>3, <1>1
    <3>2. disk'[q].cancelled BY <3>1, <2>3 DEF State
    <3> QED BY <2>1, <3>2, <1>1 DEF OneRental, Cancelled
  <2> QED BY <2>2, <2>3, <1>7
<1>17. Owned(q)' BY <1>1, <1>2, <1>3, <1>4, <1>5, <1>6, <1>7, <1>8, <1>9 DEF OneRental, Owned
<1>18. OnePlace(q)'
  BY <1>1, <1>2, <1>3, <1>4, <1>5, <1>6, <1>7, <1>8, <1>9 DEF OneRental, OnePlace
<1> QED BY <1>10, <1>11, <1>12, <1>13, <1>14, <1>15, <1>16, <1>17, <1>18 DEF OneRental

(* What a refused call reserves it takes from the recovered.               *)
LEMMA TurnedAwayKeeps ==
  ASSUME NEW q \in Rentals, OneRental(q), TypeOK, \A c \in Calls : CallOwned(c),
         \A t \in Servers : Looked(t) /\ Adopting(t),
         NEW r \in Rentals, TurnedAway(r)
  PROVE  OneRental(q)'
<1>1. /\ pc[r] = "check" /\ pc'[r] \in {"returned", "enter"} /\ (q # r => pc'[q] = pc[q])
      /\ UNCHANGED <<api, acked, disk, holder, server, mem, saving, verdict>>
  BY DEF TurnedAway, worldVars, diskVars, keeperVars, Goto, Calls, TypeOK
<1>2. \/ lists'[q] = lists[q]
      \/ "recovered" \in lists[q] /\ lists'[q] = (lists[q] \ {"recovered"}) \cup {"handing"}
  BY DEF TurnedAway, worldVars, diskVars, keeperVars, Goto, Calls, TypeOK, HandOff, Recovered,
     In
<1>3. q = r => lists[q] = {} /\ mem[q].outcome = "unsent" /\ server[q] # Nobody
  BY <1>1 DEF OneRental, Before, Early, CallOwned, Calls
<1>4. "recovered" \in lists[q] => lists[q] \subseteq {"recovered", "delivered"}
  BY DEF OneRental, OnePlace
<1>5. Journaled(q)'
  BY <1>1, <1>2, <1>3, <1>4 DEF OneRental, Journaled, NoJournal
<1>6. Before(q)' BY <1>1, <1>2, <1>3, <1>4 DEF OneRental, Before, Early
<1>7. Under(q)' BY <1>1, <1>2, <1>3, <1>4 DEF OneRental, Under
<1>8. After(q)' BY <1>1, <1>2, <1>3, <1>4 DEF OneRental, After
<1>9. Honest(q)'
  BY <1>1, <1>2, <1>3, <1>4 DEF OneRental, Honest, Made
<1>10. Heard(q)' BY <1>1, <1>2, <1>3, <1>4 DEF OneRental, Heard, Unsettled
<1>11. Cancelled(q)'
  BY <1>1, <1>2, <1>3, <1>4 DEF OneRental, Cancelled
<1>12. Owned(q)' BY <1>1, <1>2, <1>3, <1>4 DEF OneRental, Owned
<1>13. OnePlace(q)' BY <1>1, <1>2, <1>3, <1>4 DEF OneRental, OnePlace
<1> QED BY <1>5, <1>6, <1>7, <1>8, <1>9, <1>10, <1>11, <1>12, <1>13 DEF OneRental

(* The worker saves what it tracked, cancelled or not.                     *)
LEMMA SaveTrackedKeeps ==
  ASSUME NEW q \in Rentals, OneRental(q), TypeOK, \A c \in Calls : CallOwned(c),
         \A t \in Servers : Looked(t) /\ Adopting(t),
         NEW r \in Rentals, SaveTracked(r)
  PROVE  OneRental(q)'
<1>1. /\ pc[r] = "save" /\ pc'[r] = "returned" /\ (q # r => pc'[q] = pc[q])
      /\ Save(r)
      /\ UNCHANGED <<api, acked, server, mem, lists, saving, verdict>>
  BY DEF SaveTracked, worldVars, Goto, Calls, TypeOK
<1>2. IF q = r /\ mem[q].request
        THEN disk'[q] = State(mem[q]) /\ holder'[q] = server[q]
        ELSE disk'[q] = disk[q] /\ holder'[q] = holder[q]
  BY <1>1, Saved
<1>3. q = r => server[q] # Nobody BY <1>1 DEF CallOwned, Calls
<1>4. Journaled(q)' BY <1>1, <1>2, <1>3 DEF OneRental, Journaled, State, NoJournal
<1>5. Before(q)' BY <1>1, <1>2, <1>3 DEF OneRental, Before, Early
<1>6. Under(q)' BY <1>1, <1>2, <1>3 DEF OneRental, Under, State
<1>7. After(q)' BY <1>1, <1>2, <1>3 DEF OneRental, After
<1>8. Honest(q)' BY <1>1, <1>2, <1>3 DEF OneRental, Honest, State, Made
<1>9. Heard(q)' BY <1>1, <1>2, <1>3 DEF OneRental, Heard, Unsettled, State
<1>10. Cancelled(q)' BY <1>1, <1>2, <1>3 DEF OneRental, Cancelled, State
<1>11. Owned(q)' BY <1>1, <1>2, <1>3 DEF OneRental, Owned
<1>12. OnePlace(q)' BY <1>1, <1>2, <1>3 DEF OneRental, OnePlace
<1> QED BY <1>4, <1>5, <1>6, <1>7, <1>8, <1>9, <1>10, <1>11, <1>12 DEF OneRental

(* The event loop saves what is in memory by then.                         *)
LEMMA LoopSaveKeeps ==
  ASSUME NEW q \in Rentals, OneRental(q), TypeOK, \A c \in Calls : CallOwned(c),
         \A t \in Servers : Looked(t) /\ Adopting(t),
         NEW r \in Rentals, LoopSave(r)
  PROVE  OneRental(q)'
<1>1. /\ saving[r] \in {"deliver", "cancel"} /\ saving'[r] = "no"
      /\ (q # r => saving'[q] = saving[q])
      /\ Save(r)
      /\ UNCHANGED <<api, acked, server, pc, mem, lists, verdict>>
  BY DEF LoopSave, worldVars, callVars, Calls, TypeOK
<1>2. IF q = r /\ mem[q].request
        THEN disk'[q] = State(mem[q]) /\ holder'[q] = server[q]
        ELSE disk'[q] = disk[q] /\ holder'[q] = holder[q]
  BY <1>1, Saved
<1>3. q = r => server[q] # Nobody BY <1>1 DEF OneRental, Owned
<1>4. Journaled(q)' BY <1>1, <1>2, <1>3 DEF OneRental, Journaled, State, NoJournal
<1>5. Before(q)' BY <1>1, <1>2, <1>3 DEF OneRental, Before, Early
<1>6. Under(q)' BY <1>1, <1>2, <1>3 DEF OneRental, Under, State
<1>7. After(q)' BY <1>1, <1>2, <1>3 DEF OneRental, After
<1>8. Honest(q)' BY <1>1, <1>2, <1>3 DEF OneRental, Honest, State, Made
<1>9. Heard(q)' BY <1>1, <1>2, <1>3 DEF OneRental, Heard, Unsettled, State
<1>10. Cancelled(q)'
  BY <1>1, <1>2, <1>3 DEF OneRental, Cancelled, State, NoJournal, Journaled
<1>11. Owned(q)' BY <1>1, <1>2, <1>3 DEF OneRental, Owned
<1>12. OnePlace(q)' BY <1>1, <1>2, <1>3 DEF OneRental, OnePlace
<1> QED BY <1>4, <1>5, <1>6, <1>7, <1>8, <1>9, <1>10, <1>11, <1>12 DEF OneRental

(* What a listing reserves it takes from the recovered.                    *)
LEMMA ListPodsEndsKeeps ==
  ASSUME NEW q \in Rentals, OneRental(q), TypeOK, \A c \in Calls : CallOwned(c),
         \A t \in Servers : Looked(t) /\ Adopting(t),
         NEW l \in Listings, ListPodsEnds(l)
  PROVE  OneRental(q)'
<1>1. /\ pc'[q] = pc[q]
      /\ UNCHANGED <<api, acked, disk, holder, server, mem, saving, verdict>>
  BY McpAssumption DEF ListPodsEnds, worldVars, diskVars, keeperVars, Goto, Calls, TypeOK,
     McpAssumption
<1>2. \/ lists'[q] = lists[q]
      \/ "recovered" \in lists[q] /\ lists'[q] = (lists[q] \ {"recovered"}) \cup {"handing"}
  BY DEF ListPodsEnds, worldVars, diskVars, keeperVars, Goto, Calls, TypeOK, HandOff,
     Recovered, In
<1>3. "recovered" \in lists[q] => lists[q] \subseteq {"recovered", "delivered"}
  BY DEF OneRental, OnePlace
<1>4. Journaled(q)' BY <1>1, <1>2, <1>3 DEF OneRental, Journaled, NoJournal
<1>5. Before(q)' BY <1>1, <1>2, <1>3 DEF OneRental, Before, Early
<1>6. Under(q)' BY <1>1, <1>2, <1>3 DEF OneRental, Under
<1>7. After(q)' BY <1>1, <1>2, <1>3 DEF OneRental, After
<1>8. Honest(q)' BY <1>1, <1>2, <1>3 DEF OneRental, Honest, Made
<1>9. Heard(q)' BY <1>1, <1>2, <1>3 DEF OneRental, Heard, Unsettled
<1>10. Cancelled(q)' BY <1>1, <1>2, <1>3 DEF OneRental, Cancelled
<1>11. Owned(q)' BY <1>1, <1>2, <1>3 DEF OneRental, Owned
<1>12. OnePlace(q)' BY <1>1, <1>2, <1>3 DEF OneRental, OnePlace
<1> QED BY <1>4, <1>5, <1>6, <1>7, <1>8, <1>9, <1>10, <1>11, <1>12 DEF OneRental

(* What a cancelled listing reserved is recovered again.                   *)
LEMMA CancelListingKeeps ==
  ASSUME NEW q \in Rentals, OneRental(q), TypeOK, \A c \in Calls : CallOwned(c),
         \A t \in Servers : Looked(t) /\ Adopting(t),
         NEW l \in Listings, CancelListing(l)
  PROVE  OneRental(q)'
<1>1. /\ pc'[q] = pc[q]
      /\ UNCHANGED <<api, acked, disk, holder, server, mem, saving, verdict>>
  BY McpAssumption DEF CancelListing, worldVars, diskVars, keeperVars, Goto, Calls, TypeOK,
     McpAssumption
<1>2. \/ lists'[q] = lists[q]
      \/ "handing" \in lists[q] /\ lists'[q] = (lists[q] \ {"handing"}) \cup {"recovered"}
  BY DEF CancelListing, worldVars, diskVars, keeperVars, Goto, Calls, TypeOK, Requeue
<1>3. "handing" \in lists[q] => lists[q] \subseteq {"handing", "delivered"}
  BY DEF OneRental, OnePlace
<1>4. Journaled(q)' BY <1>1, <1>2, <1>3 DEF OneRental, Journaled, NoJournal
<1>5. Before(q)' BY <1>1, <1>2, <1>3 DEF OneRental, Before, Early
<1>6. Under(q)' BY <1>1, <1>2, <1>3 DEF OneRental, Under
<1>7. After(q)' BY <1>1, <1>2, <1>3 DEF OneRental, After
<1>8. Honest(q)' BY <1>1, <1>2, <1>3 DEF OneRental, Honest, Made
<1>9. Heard(q)' BY <1>1, <1>2, <1>3 DEF OneRental, Heard, Unsettled
<1>10. Cancelled(q)' BY <1>1, <1>2, <1>3 DEF OneRental, Cancelled
<1>11. Owned(q)' BY <1>1, <1>2, <1>3 DEF OneRental, Owned
<1>12. OnePlace(q)' BY <1>1, <1>2, <1>3 DEF OneRental, OnePlace
<1> QED BY <1>4, <1>5, <1>6, <1>7, <1>8, <1>9, <1>10, <1>11, <1>12 DEF OneRental

(* A claimed rental becomes unresolved.                                    *)
LEMMA EnlistKeeps ==
  ASSUME NEW q \in Rentals, OneRental(q), TypeOK, \A c \in Calls : CallOwned(c),
         \A t \in Servers : Looked(t) /\ Adopting(t),
         NEW s \in Servers, Enlist(s)
  PROVE  OneRental(q)'
<1>1. UNCHANGED <<api, acked, disk, holder, server, mem, saving, verdict>>
  BY DEF Enlist, worldVars, diskVars, Goto, Calls, TypeOK
<1>2. pc'[q] = pc[q] \/ (pc[q] = "adopting" /\ pc'[q] = "adopted")
  BY DEF Enlist, worldVars, diskVars, Goto, Calls, TypeOK, Adopting
<1>3. \/ lists'[q] = lists[q]
      \/ "loading" \in lists[q] /\ server[q] = s /\ lists'[q] = {"unresolved"}
  BY DEF Enlist, worldVars, diskVars, Goto, Calls, TypeOK, In
<1>4. "loading" \in lists[q] => pc[q] = "dead" /\ mem[q].outcome # "unsent"
  BY DEF OneRental, After, Owned
<1>5. Journaled(q)'
  BY <1>1, <1>2, <1>3, <1>4 DEF OneRental, Journaled, NoJournal
<1>6. Before(q)' BY <1>1, <1>2, <1>3, <1>4 DEF OneRental, Before, Early
<1>7. Under(q)' BY <1>1, <1>2, <1>3, <1>4 DEF OneRental, Under
<1>8. After(q)' BY <1>1, <1>2, <1>3, <1>4 DEF OneRental, After
<1>9. Honest(q)'
  BY <1>1, <1>2, <1>3, <1>4 DEF OneRental, Honest, Made
<1>10. Heard(q)' BY <1>1, <1>2, <1>3, <1>4 DEF OneRental, Heard, Unsettled
<1>11. Cancelled(q)'
  BY <1>1, <1>2, <1>3, <1>4 DEF OneRental, Cancelled
<1>12. Owned(q)' BY <1>1, <1>2, <1>3, <1>4 DEF OneRental, Owned
<1>13. OnePlace(q)' BY <1>1, <1>2, <1>3, <1>4 DEF OneRental, OnePlace
<1> QED BY <1>5, <1>6, <1>7, <1>8, <1>9, <1>10, <1>11, <1>12, <1>13 DEF OneRental

(* Every step keeps what is said of one rental.                            *)
LEMMA RentalKept ==
  ASSUME McpInv, NEW q \in Rentals
  PROVE  Next => OneRental(q)'
<1>a. /\ OneRental(q) /\ TypeOK /\ \A c \in Calls : CallOwned(c)
      /\ \A t \in Servers : Looked(t) /\ Adopting(t)
  BY DEF McpInv, OwnersInv
<1>b. CallOwned(q) BY <1>a DEF Calls
<1>plain. ASSUME NEW r \in Rentals,
                 \/ LockAdmission(r) \/ Admit(r) \/ NotSent(r) \/ Submit(r) \/ Journal(r)
                 \/ FailBeforeSend(r) \/ ForgetRejected(r) \/ WaitEnds(r) \/ ApiDecides(r)
                 \/ PodEnds(r) \/ Cancel(r) \/ Acknowledge(r) \/ ForgetGone(r)
          PROVE  OneRental(q)'
  <2> USE <1>a, McpAssumption
      DEF TypeOK, Calls, CallOwned, Looked, Adopting, OneRental, Journaled, Before, Early, Under,
          After, Honest, Made, Heard, Unsettled, Cancelled, Owned, OnePlace, NoJournal, worldVars,
          diskVars, callVars, memVars, keeperVars, Goto
  <2>1. CASE LockAdmission(r) BY <2>1 DEF LockAdmission
  <2>2. CASE Admit(r) BY <2>2 DEF Admit, Blockers, Elsewhere, In
  <2>3. CASE NotSent(r) BY <2>3 DEF Leave, NotSent
  <2>4. CASE Submit(r) BY <2>4 DEF Submit
  <2>5. CASE Journal(r) BY <2>5 DEF Journal, Save, State
  <2>6. CASE FailBeforeSend(r) BY <2>6 DEF FailBeforeSend
  <2>7. CASE ForgetRejected(r) BY <2>7 DEF Forget, ForgetRejected, Leave
  <2>8. CASE WaitEnds(r) BY <2>8 DEF WaitEnds
  <2>9. CASE ApiDecides(r) BY <2>9 DEF ApiDecides
  <2>10. CASE PodEnds(r) BY <2>10 DEF PodEnds
  <2>11. CASE Cancel(r) BY <2>11 DEF Cancel, LoopBusy
  <2>12. CASE Acknowledge(r) BY <2>12 DEF Acknowledge, Forget, Leave
  <2>13. CASE ForgetGone(r) BY <2>13 DEF Forget, ForgetGone, Leave
  <2> QED BY ONLY <1>plain, <2>1, <2>2, <2>3, <2>4, <2>5, <2>6, <2>7, <2>8, <2>9, <2>10, <2>11,
       <2>12, <2>13
<1>others. ASSUME NEW s \in Servers,
                  \/ (\E r \in Rentals : Enter(r, s)) \/ (\E l \in Listings : ListPods(l, s))
                  \/ FindNoOrphan(s) \/ BeginPass(s) \/ StopReconciler(s)
           PROVE  OneRental(q)'
  <2> USE <1>a, McpAssumption
      DEF TypeOK, Calls, CallOwned, Looked, Adopting, OneRental, Journaled, Before, Early, Under,
          After, Honest, Made, Heard, Unsettled, Cancelled, Owned, OnePlace, NoJournal, worldVars,
          diskVars, callVars, memVars, keeperVars, Goto
  <2>1. ASSUME NEW r \in Rentals, Enter(r, s) PROVE OneRental(q)' BY <2>1 DEF Enter, LoopBusy
  <2>2. ASSUME NEW l \in Listings, ListPods(l, s) PROVE OneRental(q)' BY <2>2 DEF ListPods, LoopBusy
  <2>3. CASE FindNoOrphan(s) BY <2>3 DEF FindNoOrphan, Orphans
  <2>4. CASE BeginPass(s) BY <2>4 DEF BeginPass, In
  <2>5. CASE StopReconciler(s) BY <2>5 DEF StopReconciler, In
  <2> QED BY ONLY <1>others, <2>1, <2>2, <2>3, <2>4, <2>5
<1>adopt. ASSUME NEW r \in Rentals, AdoptFirst(r) PROVE OneRental(q)'
  <2>1. pc[r] = "enter" /\ server[r] \in Servers
    BY <1>adopt, <1>a DEF AdoptFirst, CallOwned, TypeOK, Calls
  <2>2. CASE Orphans = {} /\ Goto(r, "adopted")
             /\ UNCHANGED <<worldVars, diskVars, door, server, known, memVars, keeperVars>>
    BY <2>2, <2>1, <1>a DEF worldVars, diskVars, callVars, memVars, keeperVars, Goto, Calls, TypeOK,
       OneRental, Journaled, Before, Early, Under, After, Honest, Made, Heard, Unsettled, Cancelled,
       Owned, OnePlace
  <2>3. CASE Load(server[r], r) /\ Goto(r, "adopting")
    <3>1. pc'[q] = pc[q] \/ (pc[q] = "enter" /\ pc'[q] = "adopting")
      BY <2>1, <2>3, <1>a DEF Goto, TypeOK, Calls
    <3> QED BY <3>1, <2>1, <2>3, <1>a, <1>b, Loaded
  <2> QED BY <1>adopt, <2>2, <2>3 DEF AdoptFirst
<1>load. ASSUME NEW s \in Servers, LoadInBackground(s) PROVE OneRental(q)'
  BY <1>load, <1>a, <1>b, Loaded DEF LoadInBackground
<1>1. ASSUME NEW r \in Rentals, RentNext(r) PROVE OneRental(q)'
  <2>1. ASSUME NEW s \in Servers, Enter(r, s) \/ RemovePod(r, s) PROVE OneRental(q)'
    BY <1>a, <1>others, <2>1, RemovePodKeeps
  <2>2. CASE Send(r) BY <1>a, <2>2, SendKeeps
  <2>3. CASE Answered(r) BY <1>a, <2>3, AnsweredKeeps
  <2>4. CASE Track(r) BY <1>a, <2>4, TrackKeeps
  <2>5. CASE Named(r) BY <1>a, <2>5, NamedKeeps
  <2>6. CASE AckKnown(r) BY <1>a, <2>6, AckKnownKeeps
  <2>7. CASE CancelTracks(r) BY <1>a, <2>7, CancelTracksKeeps
  <2>8. CASE TurnedAway(r) BY <1>a, <2>8, TurnedAwayKeeps
  <2>9. CASE SaveTracked(r) BY <1>a, <2>9, SaveTrackedKeeps
  <2>10. CASE LoopSave(r) BY <1>a, <2>10, LoopSaveKeeps
  <2> QED BY <1>1, <1>plain, <1>adopt, <2>1, <2>2, <2>3, <2>4, <2>5, <2>6, <2>7, <2>8, <2>9,
       <2>10 DEF RentNext
<1>2. ASSUME NEW s \in Servers, NEW r \in Rentals, PassNext(s, r) PROVE OneRental(q)'
  <2>1. CASE StaysPending(s, r) BY <1>a, <2>1, StaysPendingKeeps
  <2>2. CASE RentedNothing(s, r) BY <1>a, <2>2, RentedNothingKeeps
  <2>3. CASE Keep(s, r) BY <1>a, <2>3, KeepKeeps
  <2>4. CASE RemoveUnwanted(s, r) BY <1>a, <2>4, RemoveUnwantedKeeps
  <2> QED BY <1>2, <2>1, <2>2, <2>3, <2>4 DEF PassNext
<1>3. ASSUME NEW s \in Servers, ServerNext(s) PROVE OneRental(q)'
  <2>1. CASE Enlist(s) BY <1>a, <2>1, EnlistKeeps
  <2>2. CASE FinishPass(s) BY <1>a, <2>2, FinishPassKeeps
  <2>3. CASE Crash(s) BY <1>a, <2>3, CrashKeeps
  <2> QED BY <1>2, <1>3, <1>load, <1>others, <2>1, <2>2, <2>3 DEF ServerNext
<1>4. ASSUME NEW c \in Calls, Deliver(c) PROVE OneRental(q)' BY <1>a, <1>4, DeliverKeeps
<1>5. ASSUME NEW l \in Listings, ListPodsEnds(l) \/ CancelListing(l) PROVE OneRental(q)'
  BY <1>a, <1>5, ListPodsEndsKeeps, CancelListingKeeps
<1> QED BY <1>1, <1>3, <1>4, <1>5, <1>others DEF Next

(* An orphan is nobody's, and its call died with its process.              *)
LEMMA Orphaned ==
  ASSUME McpInv, NEW q \in Orphans
  PROVE  server[q] = Nobody /\ pc[q] = "dead" /\ lists[q] = {} /\ handed[q] = {}
BY DEF McpInv, OwnersInv, CallOwned, OneRental, Journaled, Before, Early, Owned, Orphans, Calls

(* What a process has in memory stays its own.                             *)
LEMMA OwnersKept ==
  ASSUME McpInv
  PROVE  Next => OwnersInv'
<1> USE McpAssumption DEF TypeOK, OwnersInv, CallOwned, Looked, Adopting, Calls, Goto, worldVars,
     diskVars, callVars, memVars, keeperVars
<1>0. /\ TypeOK /\ OwnersInv /\ \A p \in Rentals : Owned(p)
      /\ \A d \in Calls : handed[d] # {} => pc[d] = "returned"
  BY DEF McpInv, OneRental, ReceiversInv, Receives
<1>1. ASSUME NEW r \in Rentals, AdoptFirst(r) PROVE OwnersInv'
  <2>1. CASE Orphans = {} /\ Goto(r, "adopted")
        /\ UNCHANGED <<worldVars, diskVars, door, server, known, memVars, keeperVars>>
    BY <1>0, <1>1, <2>1, SMTT(20) DEF AdoptFirst
  <2>2. CASE Load(server[r], r) /\ Goto(r, "adopting")
    <3>1. pc[r] = "enter" /\ server[r] \in Servers /\ r \notin Orphans
      BY <1>0, <1>1, Orphaned DEF AdoptFirst
    <3>2. \A t \in Servers : Looked(t)' BY <1>0, <2>2, Orphaned DEF Load
    <3>3. \A d \in Calls : CallOwned(d)' BY <1>0, <2>2, <3>1, Orphaned DEF Load
    <3>4. \A t \in Servers : Adopting(t)' BY <1>0, <2>2, <3>1, Orphaned DEF Load
    <3> QED BY <3>2, <3>3, <3>4
  <2> QED BY <1>1, <2>1, <2>2 DEF AdoptFirst
<1>2. ASSUME NEW r \in Rentals, AckKnown(r) PROVE OwnersInv'
  BY <1>0, <1>2 DEF AckKnown, Forget, In, Leave
<1>3. ASSUME NEW r \in Rentals, LockAdmission(r) PROVE OwnersInv'
  BY <1>0, <1>3, SMTT(20) DEF LockAdmission
<1>4. ASSUME NEW r \in Rentals, Admit(r) PROVE OwnersInv'
  BY <1>0, <1>4 DEF Admit, Blockers, Elsewhere, In
<1>5. ASSUME NEW r \in Rentals, TurnedAway(r) PROVE OwnersInv'
  BY <1>0, <1>5, SMTT(20) DEF Blockers, Elsewhere, HandOff, In, Recovered, TurnedAway
<1>6. ASSUME NEW r \in Rentals, NotSent(r) PROVE OwnersInv'
  BY <1>0, <1>6 DEF Leave, NotSent
<1>7. ASSUME NEW r \in Rentals, Submit(r) PROVE OwnersInv'
  BY <1>0, <1>7 DEF Submit
<1>8. ASSUME NEW r \in Rentals, Journal(r) PROVE OwnersInv'
  BY <1>0, <1>8 DEF Journal, Save
<1>9. ASSUME NEW r \in Rentals, FailBeforeSend(r) PROVE OwnersInv'
  BY <1>0, <1>9 DEF FailBeforeSend
<1>10. ASSUME NEW r \in Rentals, Send(r) PROVE OwnersInv'
  BY <1>0, <1>10 DEF Send
<1>11. ASSUME NEW r \in Rentals, Answered(r) PROVE OwnersInv'
  BY <1>0, <1>11 DEF Answered, Made
<1>12. ASSUME NEW r \in Rentals, ForgetRejected(r) PROVE OwnersInv'
  BY <1>0, <1>12 DEF Forget, ForgetRejected, Leave
<1>13. ASSUME NEW r \in Rentals, Track(r) PROVE OwnersInv'
  BY <1>0, <1>13 DEF Track, TrackInMemory
<1>14. ASSUME NEW r \in Rentals, SaveTracked(r) PROVE OwnersInv'
  BY <1>0, <1>14 DEF Save, SaveTracked, StartReconciler
<1>15. ASSUME NEW r \in Rentals, Named(r) PROVE OwnersInv'
  <2>1. \E label \in {"save", "waiting"} : pc' = [pc EXCEPT ![r] = label] BY <1>15 DEF Named
  <2>2. pc[r] = "named" /\ UNCHANGED <<server, handed, adopter, todo>> BY <1>15 DEF Named
  <2>3. \A q \in Rentals : "unresolved" \in lists[q] => "unresolved" \in lists'[q]
    BY <1>0, <1>15 DEF Named, TrackInMemory
  <2> QED BY <1>0, <2>1, <2>2, <2>3
<1>16. ASSUME NEW r \in Rentals, WaitEnds(r) PROVE OwnersInv'
  BY <1>0, <1>16 DEF WaitEnds
<1>17. ASSUME NEW r \in Rentals, ApiDecides(r) PROVE OwnersInv'
  BY <1>0, <1>17 DEF ApiDecides
<1>18. ASSUME NEW r \in Rentals, PodEnds(r) PROVE OwnersInv'
  BY <1>0, <1>18 DEF PodEnds
<1>19. ASSUME NEW r \in Rentals, Cancel(r) PROVE OwnersInv'
  BY <1>0, <1>19 DEF Cancel, LoopBusy
<1>20. ASSUME NEW r \in Rentals, CancelTracks(r) PROVE OwnersInv'
  BY <1>0, <1>20 DEF CancelTracks, Requeue
<1>21. ASSUME NEW r \in Rentals, LoopSave(r) PROVE OwnersInv'
  BY <1>0, <1>21 DEF LoopSave, Save, StartReconciler
<1>22. ASSUME NEW r \in Rentals, Acknowledge(r) PROVE OwnersInv'
  BY <1>0, <1>22 DEF Acknowledge, Forget, Leave
<1>23. ASSUME NEW r \in Rentals, ForgetGone(r) PROVE OwnersInv'
  BY <1>0, <1>23 DEF Forget, ForgetGone, Leave
<1>24. ASSUME NEW r \in Rentals, NEW s \in Servers, Enter(r, s) PROVE OwnersInv'
  BY <1>0, <1>24 DEF Enter, LoopBusy
<1>25. ASSUME NEW r \in Rentals, NEW s \in Servers, RemovePod(r, s) PROVE OwnersInv'
  BY <1>0, <1>25 DEF Forget, In, Leave, RemovePod
<1>26. ASSUME NEW c \in Calls, Deliver(c) PROVE OwnersInv'
  BY <1>0, <1>26 DEF Deliver, LoopBusy
<1>27. ASSUME NEW l \in Listings, NEW s \in Servers, ListPods(l, s) PROVE OwnersInv'
  BY <1>0, <1>27 DEF ListPods, LoopBusy
<1>28. ASSUME NEW l \in Listings, ListPodsEnds(l) PROVE OwnersInv'
  BY <1>0, <1>28 DEF HandOff, In, ListPodsEnds, Recovered
<1>29. ASSUME NEW l \in Listings, CancelListing(l) PROVE OwnersInv'
  BY <1>0, <1>29 DEF CancelListing, LoopBusy, Requeue
<1>30. ASSUME NEW s \in Servers, LoadInBackground(s) PROVE OwnersInv'
  <2>1. Load(s, s) /\ pc' = pc BY <1>30 DEF LoadInBackground
  <2>2. \A t \in Servers : Looked(t)' BY <1>0, <2>1, Orphaned DEF Load
  <2>3. \A d \in Calls : CallOwned(d)' BY <1>0, <2>1, Orphaned DEF Load
  <2>4. \A t \in Servers : Adopting(t)' BY <1>0, <2>1, Orphaned DEF Load
  <2> QED BY <2>2, <2>3, <2>4
<1>31. ASSUME NEW s \in Servers, FindNoOrphan(s) PROVE OwnersInv'
  BY <1>0, <1>31 DEF FindNoOrphan, Orphans
<1>32. ASSUME NEW s \in Servers, Enlist(s) PROVE OwnersInv'
  <2>1. \/ pc' = pc
        \/ \E p \in Rentals : server[p] = s /\ pc[p] = "adopting"
           /\ pc' = [pc EXCEPT ![p] = "adopted"]
    BY <1>0, <1>32 DEF Enlist
  <2>2. adopter' = [adopter EXCEPT ![s] = Nobody] /\ UNCHANGED <<server, handed, todo>>
    BY <1>32 DEF Enlist
  <2>3. \A q \in Rentals : "unresolved" \in lists[q] => "unresolved" \in lists'[q]
    BY <1>0, <1>32 DEF Enlist
  <2>4. \A t \in Servers : Looked(t)' BY <1>0, <2>2, <2>3
  <2>5. \A d \in Calls : CallOwned(d)' BY <1>0, <2>1, <2>2, SMTT(20)
  <2>6. \A t \in Servers : Adopting(t)' BY <1>0, <2>1, <2>2
  <2> QED BY <2>4, <2>5, <2>6
<1>33. ASSUME NEW s \in Servers, BeginPass(s) PROVE OwnersInv'
  BY <1>0, <1>33 DEF BeginPass, In
<1>34. ASSUME NEW s \in Servers, FinishPass(s) PROVE OwnersInv'
  BY <1>0, <1>34 DEF FinishPass, Forget, In
<1>35. ASSUME NEW s \in Servers, StopReconciler(s) PROVE OwnersInv'
  BY <1>0, <1>35 DEF In, StopReconciler
<1>36. ASSUME NEW s \in Servers, Crash(s) PROVE OwnersInv'
  BY <1>0, <1>36 DEF Crash, NewObject
<1>37. ASSUME NEW r \in Rentals, NEW s \in Servers, StaysPending(s, r) PROVE OwnersInv'
  BY <1>0, <1>37 DEF Found, Save, StaysPending
<1>38. ASSUME NEW r \in Rentals, NEW s \in Servers, RentedNothing(s, r) PROVE OwnersInv'
  BY <1>0, <1>38 DEF Found, RentedNothing, Save
<1>39. ASSUME NEW r \in Rentals, NEW s \in Servers, Keep(s, r) PROVE OwnersInv'
  BY <1>0, <1>39 DEF Found, Keep, Made, PodKnown, Save, WithPod
<1>40. ASSUME NEW r \in Rentals, NEW s \in Servers, RemoveUnwanted(s, r) PROVE OwnersInv'
  <2>1. todo' = [todo EXCEPT ![s] = todo[s] \ {r}]
        /\ UNCHANGED <<server, pc, handed, lists, adopter>>
    BY <1>40 DEF RemoveUnwanted, Found
  <2> QED BY <1>0, <2>1
<1>41. ASSUME NEW r \in Rentals, RentNext(r) PROVE OwnersInv'
  BY <1>1, <1>2, <1>3, <1>4, <1>5, <1>6, <1>7, <1>8, <1>9, <1>10, <1>11, <1>12, <1>13, <1>14,
     <1>15, <1>16, <1>17, <1>18, <1>19, <1>20, <1>21, <1>22, <1>23, <1>24, <1>25, <1>41
     DEF RentNext
<1>42. ASSUME NEW s \in Servers, ServerNext(s) PROVE OwnersInv'
  BY <1>30, <1>31, <1>32, <1>33, <1>34, <1>35, <1>36, <1>37, <1>38, <1>39, <1>40, <1>42
     DEF ServerNext, PassNext
<1> QED BY <1>26, <1>27, <1>28, <1>29, <1>41, <1>42 DEF Next

(* A reserved rental has one receiver, a call that has not ended.          *)
LEMMA ReceiversKept ==
  ASSUME McpInv
  PROVE  Next => ReceiversInv'
<1> USE McpAssumption DEF Calls, Goto, worldVars, diskVars, callVars, memVars, keeperVars
<1>0. TypeOK BY DEF McpInv
<1>a. \A d \in Calls : handed[d] # {} => pc[d] = "returned" /\ server[d] # Nobody
  BY DEF McpInv, ReceiversInv, Receives, OwnersInv, CallOwned
<1>b. \A d \in Calls : \A q \in handed[d] :
        q \in Rentals /\ server[q] = server[d] /\ ("handing" \in lists[q] \/ mem[q].cancelled)
  BY <1>0 DEF McpInv, ReceiversInv, Receives, TypeOK
<1>c. \A d, e \in Calls : \A q \in handed[d] : q \in handed[e] => d = e
  BY <1>b DEF McpInv, ReceiversInv, OneReceiver
<1>d. \A q \in Rentals : "handing" \in lists[q] => \E d \in Calls : q \in handed[d]
  BY DEF McpInv, ReceiversInv, OneReceiver
<1>e. \A q \in Rentals : "handing" \in lists[q] => lists[q] \subseteq {"handing", "delivered"}
  BY DEF McpInv, OneRental, OnePlace
<1>f. \A d \in Calls : /\ pc[d] \notin {"idle", "dead"} => server[d] \in Servers
                       /\ pc[d] = "idle" => server[d] = Nobody
  BY <1>0 DEF McpInv, OwnersInv, CallOwned, TypeOK
<1>frame. ASSUME UNCHANGED <<server, handed>>,
                 \A q \in Rentals : "handing" \in lists'[q] <=> "handing" \in lists[q],
                 \A q \in Rentals : mem[q].cancelled => mem'[q].cancelled,
                 \A d \in Calls : pc[d] = "returned" => pc'[d] = "returned"
          PROVE  ReceiversInv'
  BY <1>a, <1>b, <1>c, <1>d, <1>frame DEF ReceiversInv, Receives, OneReceiver
<1>handoff. ASSUME NEW c \in Calls, HandOff(c), pc[c] \notin {"returned", "idle", "dead"},
                   UNCHANGED <<server, mem>>, \A d \in Calls \ {c} : pc'[d] = pc[d],
                   pc'[c] = "returned" \/ Recovered(c) = {}
            PROVE  ReceiversInv'
  <2>1. handed[c] = {} BY <1>a, <1>handoff
  <2>2. handed'[c] = Recovered(c) /\ \A d \in Calls \ {c} : handed'[d] = handed[d]
    BY <1>0, <1>handoff, <2>1 DEF HandOff, TypeOK
  <2>3. \A q \in Rentals : /\ q \in Recovered(c) => "handing" \in lists'[q]
                           /\ q \notin Recovered(c) => lists'[q] = lists[q]
    BY <1>0, <1>handoff DEF HandOff, TypeOK
  <2>4. \A q \in Recovered(c) : /\ q \in Rentals /\ server[q] = server[c] /\ ~mem[q].cancelled
                                /\ "recovered" \in lists[q]
    BY DEF Recovered, In
  <2>5. \A d \in Calls : \A q \in handed[d] : q \notin Recovered(c) BY <1>b, <1>e, <2>4
  <2>6. \A d \in Calls : Receives(d)'
    <3>1. Receives(c)'
      <4>1. server' = server /\ mem' = mem BY <1>handoff
      <4>2. handed'[c] # {} => pc'[c] = "returned" BY <1>handoff, <2>2
      <4>3. \A q \in handed'[c] : server'[q] = server'[c] /\ "handing" \in lists'[q]
        BY <2>2, <2>3, <2>4, <4>1
      <4> QED BY <4>2, <4>3 DEF Receives
    <3>2. ASSUME NEW d \in Calls \ {c} PROVE Receives(d)'
      BY <1>a, <1>b, <1>handoff, <2>2, <2>3, <2>5, <3>2 DEF Receives
    <3> QED BY <3>1, <3>2
  <2>7. \A q \in Rentals : OneReceiver(q)'
    BY <1>c, <1>d, <1>handoff, <2>1, <2>2, <2>3, <2>5 DEF OneReceiver
  <2> QED BY <2>6, <2>7 DEF ReceiversInv
<1>load. ASSUME NEW s \in Servers, NEW who, Load(s, who), \A d \in Calls : pc[d] = "returned" => pc'[d] = "returned"
         PROVE  ReceiversInv'
  <2>1. /\ \A d \in Calls : d \notin Orphans => server'[d] = server[d]
        /\ \A q \in Rentals : IF q \in Orphans THEN lists'[q] = {"loading"}
                              ELSE mem'[q] = mem[q] /\ lists'[q] = lists[q]
        /\ handed' = handed
    BY <1>0, <1>load DEF Load, TypeOK
  <2>2. \A d \in Calls : handed[d] # {} => d \notin Orphans BY <1>a, Orphaned
  <2>3. \A d \in Calls : \A q \in handed[d] : q \notin Orphans
    <3> SUFFICES ASSUME NEW d \in Calls, NEW q \in handed[d], q \in Orphans PROVE FALSE OBVIOUS
    <3>1. server[q] = Nobody BY Orphaned
    <3> QED BY <1>a, <1>b, <3>1
  <2>4. \A d \in Calls : Receives(d)' BY <1>a, <1>b, <1>load, <2>1, <2>2, <2>3 DEF Receives
  <2>5. \A q \in Rentals : OneReceiver(q)' BY <1>c, <1>d, <2>1 DEF OneReceiver
  <2> QED BY <2>4, <2>5 DEF ReceiversInv
<1>1. ASSUME NEW r \in Rentals, AdoptFirst(r) PROVE ReceiversInv'
  <2>1. pc[r] = "enter" /\ \A d \in Calls : pc[d] = "returned" => pc'[d] = "returned"
    BY <1>0, <1>1 DEF AdoptFirst, TypeOK
  <2>2. server[r] \in Servers BY <1>f, <2>1
  <2>3. CASE Orphans = {} /\ Goto(r, "adopted")
        /\ UNCHANGED <<worldVars, diskVars, door, server, known, memVars, keeperVars>>
    BY <1>frame, <2>1, <2>3
  <2> QED BY <1>1, <1>load, <2>1, <2>2, <2>3 DEF AdoptFirst
<1>2. ASSUME NEW r \in Rentals, AckKnown(r) PROVE ReceiversInv'
  BY <1>0, <1>frame, <1>2 DEF TypeOK, Objects, AckKnown, Forget, In, Leave
<1>3. ASSUME NEW r \in Rentals, LockAdmission(r) PROVE ReceiversInv'
  BY <1>0, <1>frame, <1>3 DEF TypeOK, Objects, LockAdmission
<1>4. ASSUME NEW r \in Rentals, Admit(r) PROVE ReceiversInv'
  BY <1>0, <1>frame, <1>4 DEF TypeOK, Objects, Admit, Blockers, Elsewhere, In
<1>5. ASSUME NEW r \in Rentals, TurnedAway(r) PROVE ReceiversInv'
  <2>1. HandOff(r) /\ pc[r] = "check" /\ UNCHANGED <<server, mem>> BY <1>5 DEF TurnedAway
  <2>2. /\ \A d \in Calls \ {r} : pc'[d] = pc[d]
        /\ pc'[r] = "returned" \/ Recovered(r) = {}
    BY <1>0, <1>5 DEF TurnedAway, TypeOK
  <2> QED BY <1>handoff, <2>1, <2>2
<1>6. ASSUME NEW r \in Rentals, NotSent(r) PROVE ReceiversInv'
  BY <1>0, <1>frame, <1>6 DEF TypeOK, Objects, Leave, NotSent
<1>7. ASSUME NEW r \in Rentals, Submit(r) PROVE ReceiversInv'
  BY <1>0, <1>frame, <1>7 DEF TypeOK, Objects, Submit
<1>8. ASSUME NEW r \in Rentals, Journal(r) PROVE ReceiversInv'
  BY <1>0, <1>frame, <1>8 DEF TypeOK, Objects, Journal, Save
<1>9. ASSUME NEW r \in Rentals, FailBeforeSend(r) PROVE ReceiversInv'
  BY <1>0, <1>frame, <1>9 DEF TypeOK, Objects, FailBeforeSend
<1>10. ASSUME NEW r \in Rentals, Send(r) PROVE ReceiversInv'
  BY <1>0, <1>frame, <1>10 DEF TypeOK, Objects, Send
<1>11. ASSUME NEW r \in Rentals, Answered(r) PROVE ReceiversInv'
  <2>1. UNCHANGED <<server, handed>> BY <1>11 DEF Answered
  <2>2. \A d \in Calls : pc[d] = "returned" => pc'[d] = "returned"
    BY <1>0, <1>11 DEF Answered, TypeOK
  <2>3. \A q \in Rentals : mem[q].cancelled => mem'[q].cancelled
    <3>1. \A q \in Rentals \ {r} : mem'[q] = mem[q] BY <1>0, <1>11 DEF Answered, TypeOK
    <3>2. mem'[r].cancelled = mem[r].cancelled BY <1>0, <1>11 DEF Answered, TypeOK, Objects
    <3> QED BY <3>1, <3>2
  <2>4. \A q \in Rentals : "handing" \in lists'[q] <=> "handing" \in lists[q]
    BY <1>0, <1>11 DEF Answered, TypeOK
  <2> QED BY <1>frame, <2>1, <2>2, <2>3, <2>4
<1>12. ASSUME NEW r \in Rentals, ForgetRejected(r) PROVE ReceiversInv'
  BY <1>0, <1>frame, <1>12 DEF TypeOK, Objects, Forget, ForgetRejected, Leave
<1>13. ASSUME NEW r \in Rentals, Track(r) PROVE ReceiversInv'
  <2>0. lists[r] \in {{}, {"inFlight"}, {"unresolved"}}
    BY <1>13 DEF McpInv, OneRental, After, Track
  <2>1. UNCHANGED <<server, handed>> BY <1>13 DEF Track
  <2>2. \A d \in Calls : pc[d] = "returned" => pc'[d] = "returned"
    BY <1>0, <1>13 DEF Track, TypeOK
  <2>3. \A q \in Rentals : mem[q].cancelled => mem'[q].cancelled
    BY <1>0, <1>13 DEF Track, TypeOK
  <2>4. \A q \in Rentals : "handing" \in lists'[q] <=> "handing" \in lists[q]
    BY <1>0, <1>13, <2>0 DEF Track, TypeOK, TrackInMemory
  <2> QED BY <1>frame, <2>1, <2>2, <2>3, <2>4
<1>14. ASSUME NEW r \in Rentals, SaveTracked(r) PROVE ReceiversInv'
  BY <1>0, <1>frame, <1>14 DEF TypeOK, Objects, Save, SaveTracked, StartReconciler
<1>15. ASSUME NEW r \in Rentals, Named(r) PROVE ReceiversInv'
  <2>0. lists[r] \in {{}, {"inFlight"}, {"unresolved"}}
    BY <1>15 DEF McpInv, OneRental, After, Named
  <2>1. UNCHANGED <<server, handed>> BY <1>15 DEF Named
  <2>2. \A d \in Calls : pc[d] = "returned" => pc'[d] = "returned"
    BY <1>0, <1>15 DEF Named, TypeOK
  <2>3. \A q \in Rentals : mem[q].cancelled => mem'[q].cancelled
    BY <1>0, <1>15 DEF Named, TypeOK, Objects
  <2>4. \A q \in Rentals : "handing" \in lists'[q] <=> "handing" \in lists[q]
    BY <1>0, <1>15, <2>0 DEF Named, TypeOK, TrackInMemory
  <2> QED BY <1>frame, <2>1, <2>2, <2>3, <2>4
<1>16. ASSUME NEW r \in Rentals, WaitEnds(r) PROVE ReceiversInv'
  BY <1>0, <1>frame, <1>16 DEF TypeOK, Objects, WaitEnds
<1>17. ASSUME NEW r \in Rentals, ApiDecides(r) PROVE ReceiversInv'
  BY <1>0, <1>frame, <1>17 DEF TypeOK, Objects, ApiDecides
<1>18. ASSUME NEW r \in Rentals, PodEnds(r) PROVE ReceiversInv'
  BY <1>0, <1>frame, <1>18 DEF TypeOK, Objects, PodEnds
<1>19. ASSUME NEW r \in Rentals, Cancel(r) PROVE ReceiversInv'
  BY <1>0, <1>frame, <1>19 DEF TypeOK, Objects, Cancel, LoopBusy
<1>20. ASSUME NEW r \in Rentals, CancelTracks(r) PROVE ReceiversInv'
  <2>1. handed'[r] = {} /\ \A d \in Calls \ {r} : handed'[d] = handed[d]
    BY <1>0, <1>20 DEF CancelTracks, TypeOK
  <2>2. server' = server /\ \A d \in Calls \ {r} : pc'[d] = pc[d]
    BY <1>0, <1>20 DEF CancelTracks, TypeOK
  <2>3. mem' = mem /\ mem[r].cancelled BY <1>20 DEF CancelTracks, McpInv, OneRental, Cancelled
  <2>4. \A q \in Rentals : \/ (q \in handed[r] \/ q = r) /\ "handing" \notin lists'[q]
                           \/ lists'[q] = lists[q] /\ ~(q \in handed[r] /\ "handing" \in lists[q])
    BY <1>0, <1>20 DEF CancelTracks, Requeue, TypeOK
  <2>5. \A d \in Calls : Receives(d)' BY <1>a, <1>b, <1>c, <2>1, <2>2, <2>3, <2>4 DEF Receives
  <2>6. \A q \in Rentals : OneReceiver(q)' BY <1>c, <1>d, <2>1, <2>4 DEF OneReceiver
  <2> QED BY <2>5, <2>6 DEF ReceiversInv
<1>21. ASSUME NEW r \in Rentals, LoopSave(r) PROVE ReceiversInv'
  BY <1>0, <1>frame, <1>21 DEF TypeOK, Objects, LoopSave, Save, StartReconciler
<1>22. ASSUME NEW r \in Rentals, Acknowledge(r) PROVE ReceiversInv'
  BY <1>0, <1>frame, <1>22 DEF TypeOK, Objects, Acknowledge, Forget, Leave
<1>23. ASSUME NEW r \in Rentals, ForgetGone(r) PROVE ReceiversInv'
  BY <1>0, <1>frame, <1>23 DEF TypeOK, Objects, Forget, ForgetGone, Leave
<1>24. ASSUME NEW r \in Rentals, NEW s \in Servers, Enter(r, s) PROVE ReceiversInv'
  <2>1. handed[r] = {} /\ \A d \in Calls : r \notin handed[d]
    BY <1>a, <1>b, <1>f, McpAssumption, <1>24 DEF Enter
  <2>2. handed' = handed /\ lists' = lists /\ mem' = mem
        /\ \A d \in Calls \ {r} : server'[d] = server[d] /\ pc'[d] = pc[d]
    BY <1>0, <1>24 DEF Enter, TypeOK
  <2>3. \A d \in Calls : Receives(d)' BY <1>a, <1>b, <2>1, <2>2 DEF Receives
  <2>4. \A q \in Rentals : OneReceiver(q)' BY <1>c, <1>d, <2>2 DEF OneReceiver
  <2> QED BY <2>3, <2>4 DEF ReceiversInv
<1>25. ASSUME NEW r \in Rentals, NEW s \in Servers, RemovePod(r, s) PROVE ReceiversInv'
  BY <1>0, <1>frame, <1>25 DEF TypeOK, Objects, Forget, In, Leave, RemovePod
<1>26. ASSUME NEW c \in Calls, Deliver(c) PROVE ReceiversInv'
  <2>1. handed'[c] = {} /\ \A d \in Calls \ {c} : handed'[d] = handed[d]
    BY <1>0, <1>26 DEF Deliver, TypeOK
  <2>2. server' = server /\ \A d \in Calls \ {c} : pc'[d] = pc[d]
    BY <1>0, <1>26 DEF Deliver, TypeOK
  <2>3. \A q \in Rentals : mem'[q].cancelled = mem[q].cancelled
    BY <1>0, <1>26 DEF Deliver, TypeOK, Objects
  <2>4. \A q \in Rentals :
          \/ q \in handed[c] /\ "handing" \notin lists'[q]
          \/ q = c /\ ~mem[q].cancelled /\ "inFlight" \in lists[q] /\ "handing" \notin lists'[q]
          \/ /\ "handing" \in lists[q] <=> "handing" \in lists'[q]
             /\ ~(q \in handed[c] /\ "handing" \in lists[q])
    BY <1>0, <1>26 DEF Deliver, TypeOK
  <2>5. \A q \in Rentals : "inFlight" \in lists[q] => "handing" \notin lists[q] BY <1>e
  <2>6. \A d \in Calls : Receives(d)'
    BY <1>a, <1>b, <1>c, <2>1, <2>2, <2>3, <2>4, <2>5 DEF Receives
  <2>7. \A q \in Rentals : OneReceiver(q)' BY <1>c, <1>d, <2>1, <2>4, <2>5 DEF OneReceiver
  <2> QED BY <2>6, <2>7 DEF ReceiversInv
<1>27. ASSUME NEW l \in Listings, NEW s \in Servers, ListPods(l, s) PROVE ReceiversInv'
  <2>1. handed[l] = {} /\ \A d \in Calls : l \notin handed[d]
    BY <1>a, <1>b, <1>f, McpAssumption, <1>27 DEF ListPods
  <2>2. handed' = handed /\ lists' = lists /\ mem' = mem
        /\ \A d \in Calls \ {l} : server'[d] = server[d] /\ pc'[d] = pc[d]
    BY <1>0, <1>27 DEF ListPods, TypeOK
  <2>3. \A d \in Calls : Receives(d)' BY <1>a, <1>b, <2>1, <2>2 DEF Receives
  <2>4. \A q \in Rentals : OneReceiver(q)' BY <1>c, <1>d, <2>2 DEF OneReceiver
  <2> QED BY <2>3, <2>4 DEF ReceiversInv
<1>28. ASSUME NEW l \in Listings, ListPodsEnds(l) PROVE ReceiversInv'
  <2>1. HandOff(l) /\ pc[l] = "enter" /\ UNCHANGED <<server, mem>> BY <1>28 DEF ListPodsEnds
  <2>2. pc'[l] = "returned" /\ \A d \in Calls \ {l} : pc'[d] = pc[d]
    BY <1>0, <1>28 DEF ListPodsEnds, TypeOK
  <2> QED BY <1>handoff, <2>1, <2>2
<1>29. ASSUME NEW l \in Listings, CancelListing(l) PROVE ReceiversInv'
  <2>1. handed'[l] = {} /\ \A d \in Calls \ {l} : handed'[d] = handed[d]
    BY <1>0, <1>29 DEF CancelListing, TypeOK
  <2>2. server' = server /\ \A d \in Calls \ {l} : pc'[d] = pc[d]
    BY <1>0, <1>29 DEF CancelListing, TypeOK
  <2>3. mem' = mem BY <1>29 DEF CancelListing
  <2>4. \A q \in Rentals : \/ q \in handed[l] /\ "handing" \notin lists'[q]
                           \/ lists'[q] = lists[q] /\ ~(q \in handed[l] /\ "handing" \in lists[q])
    BY <1>0, <1>29 DEF CancelListing, Requeue, TypeOK
  <2>5. \A d \in Calls : Receives(d)' BY <1>a, <1>b, <1>c, <2>1, <2>2, <2>3, <2>4 DEF Receives
  <2>6. \A q \in Rentals : OneReceiver(q)' BY <1>c, <1>d, <2>1, <2>4 DEF OneReceiver
  <2> QED BY <2>5, <2>6 DEF ReceiversInv
<1>30. ASSUME NEW s \in Servers, LoadInBackground(s) PROVE ReceiversInv'
  BY <1>load, <1>30 DEF LoadInBackground
<1>31. ASSUME NEW s \in Servers, FindNoOrphan(s) PROVE ReceiversInv'
  BY <1>0, <1>frame, <1>31 DEF TypeOK, Objects, FindNoOrphan, Orphans
<1>32. ASSUME NEW s \in Servers, Enlist(s) PROVE ReceiversInv'
  <2>1. UNCHANGED <<server, handed, mem>> BY <1>32 DEF Enlist
  <2>2. \A d \in Calls : pc[d] = "returned" => pc'[d] = "returned"
    BY <1>0, <1>32 DEF Enlist, TypeOK, McpInv, OwnersInv, Adopting
  <2>3. \A q \in Rentals : "handing" \in lists'[q] <=> "handing" \in lists[q]
    BY <1>0, <1>e, <1>32, SMTT(20) DEF Enlist, TypeOK, In
  <2> QED BY <1>frame, <2>1, <2>2, <2>3
<1>33. ASSUME NEW s \in Servers, BeginPass(s) PROVE ReceiversInv'
  BY <1>0, <1>frame, <1>33 DEF TypeOK, Objects, BeginPass, In
<1>34. ASSUME NEW s \in Servers, FinishPass(s) PROVE ReceiversInv'
  BY <1>0, <1>frame, <1>34 DEF TypeOK, Objects, FinishPass, Forget, In
<1>35. ASSUME NEW s \in Servers, StopReconciler(s) PROVE ReceiversInv'
  BY <1>0, <1>frame, <1>35 DEF TypeOK, Objects, In, StopReconciler
<1>36. ASSUME NEW s \in Servers, Crash(s) PROVE ReceiversInv'
  <2>1. \A d \in Calls : IF server[d] = s THEN handed'[d] = {}
                        ELSE handed'[d] = handed[d] /\ server'[d] = server[d] /\ pc'[d] = pc[d]
    BY <1>0, <1>36 DEF Crash, TypeOK
  <2>2. \A q \in Rentals : IF server[q] = s THEN lists'[q] = {}
                          ELSE lists'[q] = lists[q] /\ mem'[q] = mem[q]
    BY <1>0, <1>36 DEF Crash, TypeOK
  <2>3. \A d \in Calls : Receives(d)' BY <1>a, <1>b, <2>1, <2>2 DEF Receives
  <2>4. \A q \in Rentals : OneReceiver(q)' BY <1>b, <1>c, <1>d, <2>1, <2>2 DEF OneReceiver
  <2> QED BY <2>3, <2>4 DEF ReceiversInv
<1>37. ASSUME NEW r \in Rentals, NEW s \in Servers, StaysPending(s, r) PROVE ReceiversInv'
  BY <1>0, <1>frame, <1>37 DEF TypeOK, Objects, Found, Save, StaysPending
<1>38. ASSUME NEW r \in Rentals, NEW s \in Servers, RentedNothing(s, r) PROVE ReceiversInv'
  BY <1>0, <1>frame, <1>38 DEF TypeOK, Objects, Found, RentedNothing, Save
<1>39. ASSUME NEW r \in Rentals, NEW s \in Servers, Keep(s, r) PROVE ReceiversInv'
  BY <1>0, <1>frame, <1>39 DEF TypeOK, Objects, Found, Keep, Made, PodKnown, Save, WithPod
<1>40. ASSUME NEW r \in Rentals, NEW s \in Servers, RemoveUnwanted(s, r) PROVE ReceiversInv'
  <2>1. UNCHANGED <<server, handed>> BY <1>40 DEF RemoveUnwanted, Found
  <2>2. \A d \in Calls : pc[d] = "returned" => pc'[d] = "returned"
    BY <1>0, <1>40 DEF RemoveUnwanted, Found
  <2>3. \A q \in Rentals : mem[q].cancelled => mem'[q].cancelled
    <3>1. mem' = WithPod(r) \/ mem' = [WithPod(r) EXCEPT ![r].named = FALSE]
      BY <1>40 DEF RemoveUnwanted
    <3>2. \A q \in Rentals \ {r} : mem'[q] = mem[q] BY <1>0, <3>1 DEF WithPod, TypeOK
    <3>3. mem'[r].cancelled = mem[r].cancelled BY <1>0, <3>1 DEF WithPod, TypeOK, Objects
    <3> QED BY <3>2, <3>3
  <2>4. \A q \in Rentals : "handing" \in lists'[q] <=> "handing" \in lists[q]
    BY <1>0, <1>40 DEF RemoveUnwanted, Found
  <2> QED BY <1>frame, <2>1, <2>2, <2>3, <2>4
<1>41. ASSUME NEW r \in Rentals, RentNext(r) PROVE ReceiversInv'
  BY <1>1, <1>2, <1>3, <1>4, <1>5, <1>6, <1>7, <1>8, <1>9, <1>10, <1>11, <1>12, <1>13, <1>14,
     <1>15, <1>16, <1>17, <1>18, <1>19, <1>20, <1>21, <1>22, <1>23, <1>24, <1>25, <1>41
     DEF RentNext
<1>42. ASSUME NEW s \in Servers, ServerNext(s) PROVE ReceiversInv'
  BY <1>30, <1>31, <1>32, <1>33, <1>34, <1>35, <1>36, <1>37, <1>38, <1>39, <1>40, <1>42
     DEF ServerNext, PassNext
<1> QED BY <1>26, <1>27, <1>28, <1>29, <1>41, <1>42 DEF Next

(* The type invariant, and with it the inductive one, at the start.        *)
LEMMA InitInv ==
  ASSUME Init
  PROVE  McpInv
<1> USE DEF Init, Calls
<1>1. TypeOK
  <2>1. NewObject \in Objects BY DEF NewObject, Objects
  <2>2. NoJournal \in Journals BY DEF NoJournal, Journals
  <2>3. 0 \in 0..MaxCrashes BY McpAssumption
  <2> QED BY <2>1, <2>2, <2>3, McpAssumption DEF TypeOK
<1>2. OwnersInv BY McpAssumption DEF OwnersInv, CallOwned, Looked, Adopting
<1>3. ASSUME NEW r \in Rentals PROVE OneRental(r)
  BY <1>3 DEF OneRental, Journaled, Before, Early, Under, After, Honest, Made, Heard, Unsettled,
     Cancelled, Owned, OnePlace, NewObject, NoJournal
<1>4. ReceiversInv BY DEF ReceiversInv, OneReceiver, Receives
<1> QED BY <1>1, <1>2, <1>3, <1>4 DEF McpInv

(* A step that changes nothing keeps all of it.                            *)
LEMMA Stutter ==
  ASSUME McpInv, UNCHANGED vars
  PROVE  McpInv'
<1> USE DEF vars, worldVars, diskVars, callVars, memVars, keeperVars
<1>1. TypeOK' BY DEF McpInv, TypeOK
<1>2. OwnersInv' BY DEF McpInv, OwnersInv, CallOwned, Looked, Adopting
<1>3. ASSUME NEW r \in Rentals PROVE OneRental(r)'
  BY DEF McpInv, OneRental, Journaled, Before, Under, After, Honest, Made, Heard, Unsettled,
     Cancelled, Owned, OnePlace
<1>4. ReceiversInv' BY DEF McpInv, ReceiversInv, OneReceiver, Receives
<1> QED BY <1>1, <1>2, <1>3, <1>4 DEF McpInv

(* The ledger's inductive invariant holds in every behaviour.              *)
THEOREM LedgerIsSound == Spec => []McpInv
<1>1. Init => McpInv BY InitInv
<1>2. McpInv /\ [Next]_vars => McpInv'
  <2> SUFFICES ASSUME McpInv, Next PROVE McpInv' BY Stutter
  <2>1. \A t \in Servers : Adopting(t) BY DEF McpInv, OwnersInv
  <2>2. TypeOK BY DEF McpInv
  <2>3. MemType' BY <2>2, MemKept
  <2>4. DiskType' BY <2>2, <2>3, DiskKept
  <2>5. PlainType' BY <2>1, <2>2, PlainKept
  <2>6. TypeOK'
    BY <2>3, <2>4, <2>5
       DEF TypeOK, MemType, DiskType, PlainType, FlagType, DoorType, CallType, ListType, RestType
  <2>7. OwnersInv' BY OwnersKept
  <2>8. ASSUME NEW q \in Rentals PROVE OneRental(q)' BY RentalKept
  <2>9. ReceiversInv' BY ReceiversKept
  <2> QED BY <2>6, <2>7, <2>8, <2>9 DEF McpInv
<1> QED BY <1>1, <1>2, PTL DEF Spec

(* Every variable keeps its type.                                          *)
THEOREM LedgerTypes == Spec => []TypeOK
<1>1. McpInv => TypeOK BY DEF McpInv
<1> QED BY <1>1, LedgerIsSound, PTL

(* A crash at any point forgets no pod that may bill without the host's    *)
(* knowledge: _RentalStore.save before the request, and nothing but forget *)
(* takes it away (tools.py).                                               *)
THEOREM UnheardStaysJournaled == Spec => []UnheardIsJournaled
<1>1. McpInv => UnheardIsJournaled BY DEF McpInv, OneRental, Heard, UnheardIsJournaled
<1> QED BY <1>1, LedgerIsSound, PTL

(* A process that holds the journal of a rental that may bill has it in    *)
(* one of the lists its reconciler, its deliveries and its hand-overs use. *)
THEOREM HeldStaysTracked == Spec => []HeldRentalIsTracked
<1>1. McpInv => HeldRentalIsTracked
  BY DEF McpInv, OneRental, Heard, Journaled, HeldRentalIsTracked
<1> QED BY <1>1, LedgerIsSound, PTL

(* Whoever of the worker, the pass and the event loop saves last, the      *)
(* record on disk says that the rental was cancelled.                      *)
THEOREM CancellationIsWritten == Spec => []CancellationReachesDisk
<1>1. McpInv => CancellationReachesDisk
  BY DEF McpInv, OneRental, Cancelled, CancellationReachesDisk
<1> QED BY <1>1, LedgerIsSound, PTL

(* Exactly one unfinished call accounts for a rental _hand_off_recovered   *)
(* reserved.                                                               *)
THEOREM ReservationsAreReceived == Spec => []ReservationHasReceiver
<1>1. McpInv => ReservationHasReceiver
  <2> SUFFICES ASSUME McpInv, NEW r \in Rentals, "handing" \in lists[r]
               PROVE  \E c \in Calls : /\ r \in handed[c] /\ pc[c] = "returned"
                                       /\ \A d \in Calls : r \in handed[d] => d = c
    BY DEF ReservationHasReceiver
  <2>1. PICK c \in Calls : r \in handed[c] BY DEF McpInv, ReceiversInv, OneReceiver
  <2>2. pc[c] = "returned" BY <2>1 DEF McpInv, ReceiversInv, Receives
  <2>3. \A d \in Calls : r \in handed[d] => d = c BY <2>1 DEF McpInv, ReceiversInv, OneReceiver
  <2> QED BY <2>1, <2>2, <2>3
<1> QED BY <1>1, LedgerIsSound, PTL

(* Without a crash, every step keeps what is said of a rental that may     *)
(* send beside another one.                                                *)
LEMMA PairKept ==
  ASSUME McpInv, AdmissionInv, MaxCrashes = 0, NEW p \in Rentals, NEW q \in Rentals
  PROVE  Next => Served(q)' /\ NoRival(p, q)'
<1> USE McpAssumption DEF Calls, Goto, worldVars, diskVars, callVars, memVars, keeperVars
<1>0. TypeOK BY DEF McpInv
<1>a. \A o \in Rentals : /\ server[o] = Nobody => ~disk[o].on
                         /\ "loading" \notin lists[o]
                         /\ pc[o] = "posted" \/ mem[o].outcome = "unknown" => api[o] # "unsent"
                         /\ pc[o] \in {"check", "ready", "submit"} => door = o
                         /\ \A n \in known[o] : Made(n)
  BY DEF AdmissionInv, Served
<1>b. \A n, o \in Rentals : pc[n] \in MaySendNow /\ o # n =>
        pc[o] \notin MaySendNow /\ (~Unsettled(o) \/ o \in known[n])
  BY DEF AdmissionInv, NoRival
<1>c. \A d \in Calls : pc[d] \notin {"idle", "dead"} => server[d] # Nobody
  BY DEF McpInv, OwnersInv, CallOwned
<1>d. \A o \in Rentals : saving[o] # "no" \/ lists[o] # {} => server[o] # Nobody
  BY DEF McpInv, OneRental, Owned
<1>e. \A s \in Servers : \A o \in todo[s] : server[o] = s /\ o \in Rentals /\ s # Nobody
  BY <1>0 DEF McpInv, OwnersInv, Looked, TypeOK
<1>f. Orphans = {}
  <2>1. \A o \in Rentals : disk[o].on => holder[o] = server[o] BY DEF McpInv, OneRental, Journaled
  <2> QED BY <1>a, <2>1 DEF Orphans
<1>g. crashes = 0 BY DEF AdmissionInv
<1>1. ASSUME NEW r \in Rentals, AckKnown(r) PROVE Served(q)' /\ NoRival(p, q)'
  <2>1. Served(q)'
    BY <1>0, <1>a, <1>c, <1>d, <1>e, <1>1
         DEF AckKnown, Forget, In, Leave, Made, NoJournal, Served, TypeOK
  <2>2. NoRival(p, q)'
    BY <1>0, <1>a, <1>b, <1>1
         DEF AckKnown, Forget, In, Leave, MaySendNow, NoJournal, NoRival, TypeOK, Unsettled
  <2> QED BY <2>1, <2>2
<1>2. ASSUME NEW r \in Rentals, LockAdmission(r) PROVE Served(q)' /\ NoRival(p, q)'
  <2>1. Served(q)'
    BY <1>0, <1>a, <1>c, <1>d, <1>e, <1>2 DEF LockAdmission, Made, Served, TypeOK
  <2>2. NoRival(p, q)'
    BY <1>0, <1>a, <1>b, <1>2 DEF LockAdmission, MaySendNow, NoRival, TypeOK, Unsettled
  <2> QED BY <2>1, <2>2
<1>3. ASSUME NEW r \in Rentals, Admit(r) PROVE Served(q)' /\ NoRival(p, q)'
  <2>1. Served(q)'
    BY <1>0, <1>a, <1>c, <1>d, <1>e, <1>3 DEF Admit, Blockers, Elsewhere, In, Made, Served, TypeOK
  <2>2. ASSUME NEW o \in Rentals, o # r, lists[o] # {}, disk[o].on
        PROVE  disk[o].named /\ o \in known[r]
    <3>1. lists[o] \cap {"recovered", "handing", "delivered", "unresolved", "inFlight"} # {}
      BY <1>0, <1>a, <2>2 DEF TypeOK, Lists
    <3>2. server[o] # server[r] BY <1>3, <2>2, <3>1 DEF Admit, Blockers, In
    <3>3. holder[o] = server[o] BY <2>2 DEF McpInv, OneRental, Journaled
    <3> QED BY <1>3, <2>2, <3>2, <3>3 DEF Admit, Blockers, Elsewhere
  <2>3. ASSUME NEW o \in Rentals, o # r, pc[o] \in MaySendNow PROVE FALSE
    <3>1. pc[o] = "send" BY <1>a, <1>3, <2>3 DEF Admit, MaySendNow
    <3>2. disk[o].on /\ lists[o] # {} /\ api[o] = "unsent"
      BY <3>1 DEF McpInv, OneRental, Under, Before
    <3>3. Made(o) BY <1>a, <2>2, <2>3, <3>2
    <3> QED BY <3>2, <3>3 DEF Made
  <2>4. ASSUME NEW o \in Rentals, o # r, Unsettled(o) PROVE o \in known[r]
    <3>1. disk[o].on /\ lists[o] # {} BY <1>a, <2>4 DEF McpInv, OneRental, Heard
    <3> QED BY <2>2, <2>4, <3>1
  <2>5. /\ \A o \in Rentals \ {r} : pc'[o] = pc[o]
        /\ UNCHANGED <<api, acked, known>>
    BY <1>0, <1>3 DEF Admit, TypeOK
  <2>6. NoRival(p, q)' BY <2>3, <2>4, <2>5 DEF NoRival, Unsettled, MaySendNow
  <2> QED BY <2>1, <2>6
<1>4. ASSUME NEW r \in Rentals, TurnedAway(r) PROVE Served(q)' /\ NoRival(p, q)'
  <2>1. Served(q)'
    <3>1. "loading" \in lists'[q] => "loading" \in lists[q]
      BY <1>0, <1>4 DEF TurnedAway, HandOff, TypeOK
    <3>2. UNCHANGED <<server, disk, mem, api, known>> BY <1>4 DEF TurnedAway
    <3>3. /\ pc[r] = "check" /\ door' = Nobody /\ (q # r => pc'[q] = pc[q])
          /\ pc'[r] \in {"returned", "enter"}
      BY <1>0, <1>4 DEF TurnedAway, TypeOK
    <3> QED BY <1>a, <3>1, <3>2, <3>3 DEF Served, Made
  <2>2. NoRival(p, q)'
    BY <1>0, <1>a, <1>b, <1>4 DEF Blockers, Elsewhere, HandOff, In, MaySendNow, NoRival, Recovered,
         TurnedAway, TypeOK, Unsettled
  <2> QED BY <2>1, <2>2
<1>5. ASSUME NEW r \in Rentals, NotSent(r) PROVE Served(q)' /\ NoRival(p, q)'
  <2>1. Served(q)'
    BY <1>0, <1>a, <1>c, <1>d, <1>e, <1>5 DEF Leave, Made, NotSent, Served, TypeOK
  <2>2. NoRival(p, q)'
    BY <1>0, <1>a, <1>b, <1>5 DEF Leave, MaySendNow, NoRival, NotSent, TypeOK, Unsettled
  <2> QED BY <2>1, <2>2
<1>6. ASSUME NEW r \in Rentals, Submit(r) PROVE Served(q)' /\ NoRival(p, q)'
  <2>1. Served(q)'
    BY <1>0, <1>a, <1>c, <1>d, <1>e, <1>6 DEF Made, Served, Submit, TypeOK
  <2>2. NoRival(p, q)'
    BY <1>0, <1>a, <1>b, <1>6 DEF MaySendNow, NoRival, Submit, TypeOK, Unsettled
  <2> QED BY <2>1, <2>2
<1>7. ASSUME NEW r \in Rentals, Journal(r) PROVE Served(q)' /\ NoRival(p, q)'
  <2>1. Served(q)'
    BY <1>0, <1>a, <1>c, <1>7, SMTT(20) DEF Journal, Made, Save, Served, State, TypeOK
  <2>2. NoRival(p, q)'
    BY <1>0, <1>a, <1>b, <1>7 DEF Journal, MaySendNow, NoRival, Save, State, TypeOK, Unsettled
  <2> QED BY <2>1, <2>2
<1>8. ASSUME NEW r \in Rentals, FailBeforeSend(r) PROVE Served(q)' /\ NoRival(p, q)'
  <2>1. Served(q)'
    BY <1>0, <1>a, <1>c, <1>d, <1>e, <1>8 DEF FailBeforeSend, Made, Served, TypeOK
  <2>2. NoRival(p, q)'
    BY <1>0, <1>a, <1>b, <1>8 DEF FailBeforeSend, MaySendNow, NoRival, TypeOK, Unsettled
  <2> QED BY <2>1, <2>2
<1>9. ASSUME NEW r \in Rentals, Send(r) PROVE Served(q)' /\ NoRival(p, q)'
  <2>1. Served(q)'
    <3>1. pc[r] = "send" /\ UNCHANGED <<server, disk, mem, lists, door, known>> BY <1>9 DEF Send
    <3>2. api'[r] = "open" /\ \A o \in Rentals \ {r} : api'[o] = api[o] /\ pc'[o] = pc[o]
      BY <1>0, <1>9 DEF Send, TypeOK
    <3>3. pc'[r] = "posted" BY <1>0, <1>9 DEF Send, TypeOK
    <3>4. api[r] = "unsent" BY <3>1 DEF McpInv, OneRental, Before
    <3>5. known[q] \subseteq Rentals BY <1>0 DEF TypeOK
    <3> QED BY <1>a, <3>1, <3>2, <3>3, <3>4, <3>5 DEF Served, Made
  <2>2. NoRival(p, q)'
    BY <1>0, <1>a, <1>b, <1>9 DEF MaySendNow, NoRival, Send, TypeOK, Unsettled
  <2> QED BY <2>1, <2>2
<1>10. ASSUME NEW r \in Rentals, Answered(r) PROVE Served(q)' /\ NoRival(p, q)'
  <2>1. Served(q)'
    BY <1>0, <1>a, <1>c, <1>d, <1>e, <1>10 DEF Answered, Made, Served, TypeOK
  <2>2. NoRival(p, q)'
    BY <1>0, <1>a, <1>b, <1>10 DEF Answered, Made, MaySendNow, NoRival, TypeOK, Unsettled
  <2> QED BY <2>1, <2>2
<1>11. ASSUME NEW r \in Rentals, ForgetRejected(r) PROVE Served(q)' /\ NoRival(p, q)'
  <2>1. Served(q)'
    BY <1>0, <1>a, <1>c, <1>d, <1>e, <1>11
         DEF Forget, ForgetRejected, Leave, Made, NoJournal, Served, TypeOK
  <2>2. NoRival(p, q)'
    BY <1>0, <1>a, <1>b, <1>11
         DEF Forget, ForgetRejected, Leave, MaySendNow, NoJournal, NoRival, TypeOK, Unsettled
  <2> QED BY <2>1, <2>2
<1>12. ASSUME NEW r \in Rentals, Track(r) PROVE Served(q)' /\ NoRival(p, q)'
  <2>1. Served(q)'
    BY <1>0, <1>a, <1>12, SMTT(20) DEF Made, Served, Track, TrackInMemory, TypeOK
  <2>2. NoRival(p, q)'
    BY <1>0, <1>a, <1>b, <1>12, SMTT(20)
         DEF MaySendNow, NoRival, Track, TrackInMemory, TypeOK, Unsettled
  <2> QED BY <2>1, <2>2
<1>13. ASSUME NEW r \in Rentals, SaveTracked(r) PROVE Served(q)' /\ NoRival(p, q)'
  <2>1. Served(q)'
    <3>1. UNCHANGED <<server, mem, lists, api, known, door>> BY <1>13 DEF SaveTracked
    <3>2. server[r] # Nobody /\ Save(r) BY <1>c, <1>13 DEF SaveTracked
    <3>3. disk'[q].on => server[q] # Nobody BY <1>0, <1>a, <3>2, Saved
    <3>4. pc[r] = "save" /\ pc'[r] = "returned" /\ (q # r => pc'[q] = pc[q])
      BY <1>0, <1>13 DEF SaveTracked, TypeOK
    <3> QED BY <1>a, <3>1, <3>3, <3>4 DEF Served, Made
  <2>2. NoRival(p, q)'
    BY <1>0, <1>a, <1>b, <1>13
         DEF MaySendNow, NoRival, Save, SaveTracked, StartReconciler, State, TypeOK, Unsettled
  <2> QED BY <2>1, <2>2
<1>14. ASSUME NEW r \in Rentals, Named(r) PROVE Served(q)' /\ NoRival(p, q)'
  <2>1. Served(q)'
    <3>1. UNCHANGED <<server, api, known, door>> BY <1>14 DEF Named
    <3>2. pc[r] = "named" /\ pc'[r] \in {"save", "waiting"} /\ (q # r => pc'[q] = pc[q])
      BY <1>0, <1>14 DEF Named, TypeOK
    <3>3. mem'[q].outcome = mem[q].outcome
      <4>1. mem' = [mem EXCEPT ![r].reported = TRUE] BY <1>14 DEF Named
      <4> QED BY <1>0, <4>1 DEF TypeOK, Objects
    <3>4. "loading" \in lists'[q] => "loading" \in lists[q]
      <4>1. lists' = lists \/ TrackInMemory(r) BY <1>14 DEF Named
      <4>2. lists \in [Rentals -> SUBSET Lists] BY <1>0 DEF TypeOK
      <4>3. CASE TrackInMemory(r)
        <5>1. lists'[q] \subseteq lists[q] \cup {"unresolved"} BY <4>2, <4>3 DEF TrackInMemory
        <5> QED BY <5>1
      <4> QED BY <4>1, <4>3
    <3>5. server[r] # Nobody /\ (UNCHANGED disk \/ Save(r)) BY <1>c, <1>14 DEF Named
    <3>6. disk'[q].on => server[q] # Nobody BY <1>0, <1>a, <3>5, Saved
    <3> QED BY <1>a, <3>1, <3>2, <3>3, <3>4, <3>6 DEF Served, Made
  <2>2. NoRival(p, q)'
    <3>1. UNCHANGED <<api, acked, known>> BY <1>14 DEF Named
    <3>2. \A o \in Rentals : pc'[o] \in MaySendNow => pc[o] \in MaySendNow
      BY <1>0, <1>14 DEF Named, TypeOK, MaySendNow
    <3> QED BY <1>b, <3>1, <3>2 DEF NoRival, Unsettled
  <2> QED BY <2>1, <2>2
<1>15. ASSUME NEW r \in Rentals, WaitEnds(r) PROVE Served(q)' /\ NoRival(p, q)'
  <2>1. Served(q)'
    BY <1>0, <1>a, <1>c, <1>d, <1>e, <1>15 DEF Made, Served, TypeOK, WaitEnds
  <2>2. NoRival(p, q)'
    BY <1>0, <1>a, <1>b, <1>15 DEF MaySendNow, NoRival, TypeOK, Unsettled, WaitEnds
  <2> QED BY <2>1, <2>2
<1>16. ASSUME NEW r \in Rentals, ApiDecides(r) PROVE Served(q)' /\ NoRival(p, q)'
  <2>1. Served(q)'
    BY <1>0, <1>a, <1>c, <1>d, <1>e, <1>16 DEF ApiDecides, Made, Served, TypeOK
  <2>2. NoRival(p, q)'
    BY <1>0, <1>a, <1>b, <1>16 DEF ApiDecides, MaySendNow, NoRival, TypeOK, Unsettled
  <2> QED BY <2>1, <2>2
<1>17. ASSUME NEW r \in Rentals, PodEnds(r) PROVE Served(q)' /\ NoRival(p, q)'
  <2>1. Served(q)'
    BY <1>0, <1>a, <1>c, <1>d, <1>e, <1>17 DEF Made, PodEnds, Served, TypeOK
  <2>2. NoRival(p, q)'
    BY <1>0, <1>a, <1>b, <1>17 DEF MaySendNow, NoRival, PodEnds, TypeOK, Unsettled
  <2> QED BY <2>1, <2>2
<1>18. ASSUME NEW r \in Rentals, Cancel(r) PROVE Served(q)' /\ NoRival(p, q)'
  <2>1. Served(q)'
    BY <1>0, <1>a, <1>c, <1>d, <1>e, <1>18 DEF Cancel, LoopBusy, Made, Served, TypeOK
  <2>2. NoRival(p, q)'
    BY <1>0, <1>a, <1>b, <1>18 DEF Cancel, LoopBusy, MaySendNow, NoRival, TypeOK, Unsettled
  <2> QED BY <2>1, <2>2
<1>19. ASSUME NEW r \in Rentals, CancelTracks(r) PROVE Served(q)' /\ NoRival(p, q)'
  <2>1. Served(q)'
    BY <1>0, <1>a, <1>c, <1>d, <1>e, <1>19 DEF CancelTracks, Made, Requeue, Served, TypeOK
  <2>2. NoRival(p, q)'
    BY <1>0, <1>a, <1>b, <1>19 DEF CancelTracks, MaySendNow, NoRival, Requeue, TypeOK, Unsettled
  <2> QED BY <2>1, <2>2
<1>20. ASSUME NEW r \in Rentals, LoopSave(r) PROVE Served(q)' /\ NoRival(p, q)'
  <2>1. Served(q)'
    <3>1. UNCHANGED <<server, pc, mem, lists, api, known, door>> BY <1>20 DEF LoopSave
    <3>2. server[r] # Nobody /\ Save(r) BY <1>d, <1>20 DEF LoopSave
    <3>3. disk'[q].on => server[q] # Nobody BY <1>0, <1>a, <3>2, Saved
    <3> QED BY <1>a, <3>1, <3>3 DEF Served, Made
  <2>2. NoRival(p, q)'
    BY <1>0, <1>a, <1>b, <1>20
         DEF LoopSave, MaySendNow, NoRival, Save, StartReconciler, State, TypeOK, Unsettled
  <2> QED BY <2>1, <2>2
<1>21. ASSUME NEW r \in Rentals, Acknowledge(r) PROVE Served(q)' /\ NoRival(p, q)'
  <2>1. Served(q)'
    BY <1>0, <1>a, <1>c, <1>d, <1>e, <1>21
         DEF Acknowledge, Forget, Leave, Made, NoJournal, Served, TypeOK
  <2>2. NoRival(p, q)'
    BY <1>0, <1>a, <1>b, <1>21
         DEF Acknowledge, Forget, Leave, MaySendNow, NoJournal, NoRival, TypeOK, Unsettled
  <2> QED BY <2>1, <2>2
<1>22. ASSUME NEW r \in Rentals, ForgetGone(r) PROVE Served(q)' /\ NoRival(p, q)'
  <2>1. Served(q)'
    BY <1>0, <1>a, <1>c, <1>d, <1>e, <1>22
         DEF Forget, ForgetGone, Leave, Made, NoJournal, Served, TypeOK
  <2>2. NoRival(p, q)'
    BY <1>0, <1>a, <1>b, <1>22
         DEF Forget, ForgetGone, Leave, MaySendNow, NoJournal, NoRival, TypeOK, Unsettled
  <2> QED BY <2>1, <2>2
<1>23. ASSUME NEW r \in Rentals, NEW s \in Servers, Enter(r, s) PROVE Served(q)' /\ NoRival(p, q)'
  <2>1. Served(q)'
    BY <1>0, <1>a, <1>c, <1>d, <1>e, <1>23 DEF Enter, LoopBusy, Made, Served, TypeOK
  <2>2. NoRival(p, q)'
    BY <1>0, <1>a, <1>b, <1>23 DEF Enter, LoopBusy, MaySendNow, NoRival, TypeOK, Unsettled
  <2> QED BY <2>1, <2>2
<1>24. ASSUME NEW r \in Rentals, NEW s \in Servers, RemovePod(r, s)
      PROVE  Served(q)' /\ NoRival(p, q)'
  <2>1. Served(q)'
    BY <1>0, <1>a, <1>c, <1>d, <1>e, <1>24
         DEF Forget, In, Leave, Made, NoJournal, RemovePod, Served, TypeOK
  <2>2. NoRival(p, q)'
    BY <1>0, <1>a, <1>b, <1>24
         DEF Forget, In, Leave, MaySendNow, NoJournal, NoRival, RemovePod, TypeOK, Unsettled
  <2> QED BY <2>1, <2>2
<1>25. ASSUME NEW c \in Calls, Deliver(c) PROVE Served(q)' /\ NoRival(p, q)'
  <2>1. Served(q)'
    BY <1>0, <1>a, <1>c, <1>d, <1>e, <1>25 DEF Deliver, LoopBusy, Made, Served, TypeOK
  <2>2. NoRival(p, q)'
    BY <1>0, <1>a, <1>b, <1>25 DEF Deliver, LoopBusy, MaySendNow, NoRival, TypeOK, Unsettled
  <2> QED BY <2>1, <2>2
<1>26. ASSUME NEW l \in Listings, NEW s \in Servers, ListPods(l, s)
      PROVE  Served(q)' /\ NoRival(p, q)'
  <2>1. Served(q)'
    BY <1>0, <1>a, <1>c, <1>d, <1>e, <1>26 DEF ListPods, LoopBusy, Made, Served, TypeOK
  <2>2. NoRival(p, q)'
    BY <1>0, <1>a, <1>b, <1>26 DEF ListPods, LoopBusy, MaySendNow, NoRival, TypeOK, Unsettled
  <2> QED BY <2>1, <2>2
<1>27. ASSUME NEW l \in Listings, ListPodsEnds(l) PROVE Served(q)' /\ NoRival(p, q)'
  <2>1. Served(q)'
    BY <1>0, <1>a, <1>c, <1>d, <1>e, <1>27
         DEF HandOff, In, ListPodsEnds, Made, Recovered, Served, TypeOK
  <2>2. NoRival(p, q)'
    BY <1>0, <1>a, <1>b, <1>27
         DEF HandOff, In, ListPodsEnds, MaySendNow, NoRival, Recovered, TypeOK, Unsettled
  <2> QED BY <2>1, <2>2
<1>28. ASSUME NEW l \in Listings, CancelListing(l) PROVE Served(q)' /\ NoRival(p, q)'
  <2>1. Served(q)'
    BY <1>0, <1>a, <1>c, <1>d, <1>e, <1>28
         DEF CancelListing, LoopBusy, Made, Requeue, Served, TypeOK
  <2>2. NoRival(p, q)'
    BY <1>0, <1>a, <1>b, <1>28
         DEF CancelListing, LoopBusy, MaySendNow, NoRival, Requeue, TypeOK, Unsettled
  <2> QED BY <2>1, <2>2
<1>29. ASSUME NEW s \in Servers, FindNoOrphan(s) PROVE Served(q)' /\ NoRival(p, q)'
  <2>1. Served(q)'
    BY <1>0, <1>a, <1>c, <1>d, <1>e, <1>29 DEF FindNoOrphan, Made, Orphans, Served, TypeOK
  <2>2. NoRival(p, q)'
    BY <1>0, <1>a, <1>b, <1>29 DEF FindNoOrphan, MaySendNow, NoRival, Orphans, TypeOK, Unsettled
  <2> QED BY <2>1, <2>2
<1>30. ASSUME NEW s \in Servers, Enlist(s) PROVE Served(q)' /\ NoRival(p, q)'
  <2>1. Served(q)'
    BY <1>0, <1>a, <1>c, <1>d, <1>e, <1>30 DEF Enlist, In, Made, Served, StartReconciler, TypeOK
  <2>2. NoRival(p, q)'
    BY <1>0, <1>a, <1>b, <1>30
         DEF Enlist, In, MaySendNow, NoRival, StartReconciler, TypeOK, Unsettled
  <2> QED BY <2>1, <2>2
<1>31. ASSUME NEW s \in Servers, BeginPass(s) PROVE Served(q)' /\ NoRival(p, q)'
  <2>1. Served(q)'
    BY <1>0, <1>a, <1>c, <1>d, <1>e, <1>31 DEF BeginPass, In, Made, Served, TypeOK
  <2>2. NoRival(p, q)'
    BY <1>0, <1>a, <1>b, <1>31 DEF BeginPass, In, MaySendNow, NoRival, TypeOK, Unsettled
  <2> QED BY <2>1, <2>2
<1>32. ASSUME NEW s \in Servers, FinishPass(s) PROVE Served(q)' /\ NoRival(p, q)'
  <2>1. Served(q)'
    BY <1>0, <1>a, <1>c, <1>d, <1>e, <1>32
         DEF FinishPass, Forget, In, Made, NoJournal, Served, TypeOK
  <2>2. NoRival(p, q)'
    BY <1>0, <1>a, <1>b, <1>32
         DEF FinishPass, Forget, In, MaySendNow, NoJournal, NoRival, TypeOK, Unsettled
  <2> QED BY <2>1, <2>2
<1>33. ASSUME NEW s \in Servers, StopReconciler(s) PROVE Served(q)' /\ NoRival(p, q)'
  <2>1. Served(q)'
    BY <1>0, <1>a, <1>c, <1>d, <1>e, <1>33 DEF In, Made, Served, StopReconciler, TypeOK
  <2>2. NoRival(p, q)'
    BY <1>0, <1>a, <1>b, <1>33 DEF In, MaySendNow, NoRival, StopReconciler, TypeOK, Unsettled
  <2> QED BY <2>1, <2>2
<1>34. ASSUME NEW r \in Rentals, NEW s \in Servers, StaysPending(s, r)
      PROVE  Served(q)' /\ NoRival(p, q)'
  <2>1. Served(q)'
    BY <1>0, <1>a, <1>c, <1>d, <1>e, <1>34
         DEF Found, Made, Save, Served, State, StaysPending, TypeOK
  <2>2. NoRival(p, q)'
    BY <1>0, <1>a, <1>b, <1>34
         DEF Found, MaySendNow, NoRival, Save, State, StaysPending, TypeOK, Unsettled
  <2> QED BY <2>1, <2>2
<1>35. ASSUME NEW r \in Rentals, NEW s \in Servers, RentedNothing(s, r)
      PROVE  Served(q)' /\ NoRival(p, q)'
  <2>1. Served(q)'
    BY <1>0, <1>a, <1>c, <1>d, <1>e, <1>35
         DEF Found, Made, RentedNothing, Save, Served, State, TypeOK
  <2>2. NoRival(p, q)'
    BY <1>0, <1>a, <1>b, <1>35
         DEF Found, MaySendNow, NoRival, RentedNothing, Save, State, TypeOK, Unsettled
  <2> QED BY <2>1, <2>2
<1>36. ASSUME NEW r \in Rentals, NEW s \in Servers, Keep(s, r) PROVE Served(q)' /\ NoRival(p, q)'
  <2>1. Served(q)'
    BY <1>0, <1>a, <1>c, <1>d, <1>e, <1>36
         DEF Found, Keep, Made, PodKnown, Save, Served, State, TypeOK, WithPod
  <2>2. NoRival(p, q)'
    BY <1>0, <1>a, <1>b, <1>36 DEF Found, Keep, Made, MaySendNow, NoRival, PodKnown, Save, State,
         TypeOK, Unsettled, WithPod
  <2> QED BY <2>1, <2>2
<1>37. ASSUME NEW r \in Rentals, NEW s \in Servers, RemoveUnwanted(s, r)
      PROVE  Served(q)' /\ NoRival(p, q)'
  <2>1. Served(q)'
    <3>1. UNCHANGED <<server, pc, lists, known, door>> BY <1>37 DEF RemoveUnwanted, Found
    <3>2. \A o \in Rentals : api'[o] \in {api[o], "gone"}
      BY <1>0, <1>37 DEF RemoveUnwanted, TypeOK
    <3>3. mem'[q].outcome = "unknown" => mem[q].outcome = "unknown"
      <4>1. mem' = WithPod(r) \/ mem' = [WithPod(r) EXCEPT ![r].named = FALSE]
        BY <1>37 DEF RemoveUnwanted
      <4>2. q # r => mem'[q] = mem[q] BY <1>0, <4>1 DEF WithPod, TypeOK
      <4>3. mem'[r].outcome = "created" BY <1>0, <4>1 DEF WithPod, TypeOK, Objects
      <4> QED BY <4>2, <4>3
    <3>4. server[r] # Nobody /\ (UNCHANGED disk \/ Save(r)) BY <1>e, <1>37 DEF RemoveUnwanted
    <3>5. disk'[q].on => server[q] # Nobody BY <1>0, <1>a, <3>4, Saved
    <3>6. known[q] \subseteq Rentals BY <1>0 DEF TypeOK
    <3> QED BY <1>a, <3>1, <3>2, <3>3, <3>5, <3>6 DEF Served, Made
  <2>2. NoRival(p, q)'
    BY <1>0, <1>a, <1>b, <1>37 DEF Found, Made, MaySendNow, NoRival, PodKnown, RemoveUnwanted,
         Save, State, TypeOK, Unsettled, WithPod
  <2> QED BY <2>1, <2>2
<1>38. ASSUME NEW r \in Rentals, AdoptFirst(r)
      PROVE  Served(q)' /\ NoRival(p, q)'
  <2>1. pc[r] = "enter" /\ Goto(r, "adopted")
        /\ UNCHANGED <<worldVars, diskVars, door, server, known, memVars, keeperVars>>
    BY <1>f, <1>38 DEF AdoptFirst, Load
  <2>2. Served(q)' BY <1>0, <1>a, <2>1 DEF Served, TypeOK, Made
  <2>3. NoRival(p, q)' BY <1>0, <1>b, <2>1 DEF NoRival, TypeOK, Unsettled, MaySendNow
  <2> QED BY <2>2, <2>3
<1>39. ASSUME NEW r \in Rentals, RentNext(r)
      PROVE  Served(q)' /\ NoRival(p, q)'
  BY <1>1, <1>2, <1>3, <1>4, <1>5, <1>6, <1>7, <1>8, <1>9, <1>10, <1>11, <1>12, <1>13, <1>14,
       <1>15, <1>16, <1>17, <1>18, <1>19, <1>20, <1>21, <1>22, <1>23, <1>24, <1>38, <1>39
            DEF RentNext
<1>40. ASSUME NEW s \in Servers, ServerNext(s)
      PROVE  Served(q)' /\ NoRival(p, q)'
  <2>1. ~LoadInBackground(s) BY <1>f DEF LoadInBackground, Load
  <2>2. ~Crash(s) BY <1>g DEF Crash
  <2> QED
    BY <1>29, <1>30, <1>31, <1>32, <1>33, <1>34, <1>35, <1>36, <1>37, <1>40, <2>1, <2>2
       DEF ServerNext, PassNext
<1> QED BY <1>25, <1>26, <1>27, <1>28, <1>39, <1>40 DEF Next

(* Without a crash, every step keeps the admissions apart.                 *)
LEMMA AdmissionKept ==
  ASSUME McpInv, AdmissionInv, MaxCrashes = 0
  PROVE  [Next]_vars => AdmissionInv'
<1>1. ASSUME Next PROVE AdmissionInv'
  <2>1. PlainType' BY <1>1, PlainKept DEF McpInv, OwnersInv
  <2>2. crashes' = 0 BY <2>1 DEF PlainType, RestType
  <2> QED BY <1>1, <2>2, PairKept DEF AdmissionInv
<1>2. ASSUME UNCHANGED vars PROVE AdmissionInv'
  BY <1>2 DEF AdmissionInv, Served, NoRival, Unsettled, Made, vars, worldVars, diskVars, callVars,
     memVars
<1> QED BY <1>1, <1>2

(* As long as no process stops, no rent is sent beside one that may bill   *)
(* unnoticed: the admission lock covers the check of every journal and the *)
(* write of the next one (lock_admission, _journals_elsewhere, before_send *)
(* in tools.py).  A crash opens the gap of the run mcp_adoption_gap.       *)
THEOREM NoRentIsDoubled ==
  ASSUME MaxCrashes = 0
  PROVE  Spec => NoRentBesideUnsettled
<1>1. Init => AdmissionInv
  BY McpAssumption DEF Init, AdmissionInv, Served, NoRival, MaySendNow, Calls, NewObject, NoJournal
<1>2. McpInv /\ AdmissionInv /\ [Next]_vars => AdmissionInv' BY AdmissionKept
<1>3. AdmissionInv /\ [Next]_vars =>
        [\A r, q \in Rentals : Send(r) /\ q # r => ~Unsettled(q) \/ q \in known[r]]_vars
  BY DEF AdmissionInv, NoRival, MaySendNow, Send
<1> QED BY <1>1, <1>2, <1>3, LedgerIsSound, PTL DEF Spec, NoRentBesideUnsettled
===============================================================================
