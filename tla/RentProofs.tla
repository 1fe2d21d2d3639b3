------------------------------ MODULE RentProofs ------------------------------
(***************************************************************************)
(* Theorems about Rent, for every set of calls and pods, every bound on    *)
(* the requests, and an API that honours the Idempotency-Key or does not.  *)
(***************************************************************************)
EXTENDS Rent, TLAPS

(***************************************************************************)
(* Type correctness.                                                       *)
(***************************************************************************)

LEMMA AnswersTyped ==
  ASSUME ApiTypeOK, NEW c \in Calls, NEW n \in Attempts, NEW answer \in Status,
         Answers(c, n, answer)
  PROVE  http' \in [Calls -> [Attempts -> Status]]
BY DEF ApiTypeOK, Answers

LEMMA NamedTyped ==
  ASSUME ApiTypeOK, NEW c \in Calls, NEW n \in Attempts, NEW ids \in SUBSET Pods,
         named' = [named EXCEPT ![c][n] = ids]
  PROVE  named' \in [Calls -> [Attempts -> SUBSET Pods]]
BY DEF ApiTypeOK

LEMMA ApiTypeStep ==
  ASSUME ApiAssumption, ApiTypeOK, ApiNext,
         \A c \in Calls, n \in Attempts : http[c][n] # "unsent" => under[c][n] \in Keys
  PROVE  ApiTypeOK'
<1> USE DEF Status
<1>1. ASSUME NEW c \in Calls, NEW n \in Attempts, TurnAway(c, n) PROVE ApiTypeOK'
  BY <1>1, AnswersTyped DEF TurnAway, ApiTypeOK
<1>2. ASSUME NEW c \in Calls, NEW n \in Attempts, Accept(c, n) PROVE ApiTypeOK'
  BY <1>2, AnswersTyped DEF Accept, ApiTypeOK
<1>3. ASSUME NEW c \in Calls, NEW n \in Attempts, Repeat(c, n) PROVE ApiTypeOK'
  <2>1. http' \in [Calls -> [Attempts -> Status]]
    BY <1>3, AnswersTyped DEF Repeat
  <2>2. named' \in [Calls -> [Attempts -> SUBSET Pods]]
    <3>1. kept[under[c][n]] \in SUBSET Pods
      BY <1>3 DEF Repeat, ApiTypeOK
    <3>2. CASE named' = named
      BY <3>2 DEF ApiTypeOK
    <3>3. CASE named' = [named EXCEPT ![c][n] = kept[under[c][n]]]
      BY <3>1, <3>3, NamedTyped
    <3> QED BY <1>3, <3>2, <3>3 DEF Repeat
  <2> QED BY <1>3, <2>1, <2>2 DEF Repeat, ApiTypeOK
<1>4. ASSUME NEW c \in Calls, NEW n \in Attempts, EndWithoutPod(c, n) PROVE ApiTypeOK'
  <2>1. http' \in [Calls -> [Attempts -> Status]]
    BY <1>4, AnswersTyped DEF EndWithoutPod
  <2>2. PICK record \in {"refused", "failed"} :
           key' = IF Idempotent THEN [key EXCEPT ![under[c][n]] = record] ELSE key
    BY <1>4 DEF EndWithoutPod
  <2>3. key' \in [Keys -> {"free", "pending", "failed", "refused", "made"}]
    BY <2>2 DEF ApiTypeOK
  <2> QED BY <1>4, <2>1, <2>3 DEF EndWithoutPod, ApiTypeOK
<1>5. ASSUME NEW c \in Calls, NEW n \in Attempts, NEW p \in Pods, MakePod(c, n, p)
      PROVE ApiTypeOK'
  <2>1. http' \in [Calls -> [Attempts -> Status]]
    BY <1>5, AnswersTyped DEF MakePod
  <2>2. look' \in [Pods -> Looks] /\ owner' \in [Pods -> Calls \cup {Nobody, Other}]
    BY <1>5 DEF MakePod, ApiTypeOK, Looks
  <2>3. PICK record \in {"made", "failed"} :
           key' = IF Idempotent THEN [key EXCEPT ![under[c][n]] = record] ELSE key
    BY <1>5 DEF MakePod
  <2>4. key' \in [Keys -> {"free", "pending", "failed", "refused", "made"}]
    BY <2>3 DEF ApiTypeOK
  <2>5. PICK id \in SUBSET Pods : kept' = [kept EXCEPT ![under[c][n]] = id]
    BY <1>5 DEF MakePod
  <2>6. kept' \in [Keys -> SUBSET Pods]
    BY <2>5 DEF ApiTypeOK
  <2>7. PICK shown \in SUBSET Pods :
           named' \in {named, [named EXCEPT ![c][n] = shown]}
    BY <1>5 DEF MakePod
  <2>8. named' \in [Calls -> [Attempts -> SUBSET Pods]]
    <3>1. CASE named' = named
      BY <3>1 DEF ApiTypeOK
    <3>2. CASE named' = [named EXCEPT ![c][n] = shown]
      BY <3>2, NamedTyped
    <3> QED BY <2>7, <3>1, <3>2
  <2> QED BY <1>5, <2>1, <2>2, <2>4, <2>6, <2>8 DEF MakePod, ApiTypeOK
<1>6. ASSUME NEW p \in Pods, OtherRents(p) PROVE ApiTypeOK'
  BY <1>6 DEF OtherRents, ApiTypeOK
<1>7. ASSUME NEW p \in Pods, Appear(p) PROVE ApiTypeOK'
  BY <1>7 DEF Appear, ApiTypeOK
<1> QED BY <1>1, <1>2, <1>3, <1>4, <1>5, <1>6, <1>7 DEF ApiNext

LEMMA SendTyped ==
  ASSUME ApiAssumption, TypeOK, NEW c \in Calls, NEW label \in {"post1", "post2", "replay"},
         NEW k \in Keys \cup {NoKey}, Send(c, label, k),
         UNCHANGED <<first, known, outcome, got, rentalVars>>
  PROVE  TypeOK'
<1>1. at[c] + 1 \in Attempts /\ at[c] + 1 >= 1
  BY DEF Send, TypeOK, Attempts, ApiAssumption
<1>2. http' \in [Calls -> [Attempts -> Status]]
  BY <1>1, AnswersTyped DEF Send, Answers, Status, TypeOK
<1>3. at' \in [Calls -> 0..MaxPosts]
  BY <1>1 DEF Send, TypeOK, Attempts, ApiAssumption
<1>4. \A d \in Calls : pc'[d] \in {"post1", "post2", "replay"} => at'[d] >= 1
  BY <1>1 DEF Send, Goto, TypeOK
<1>5. pc' \in [Calls -> {"begin", "start", "ready", "post1", "look", "again",
                         "post2", "settle", "replay"} \cup Finished]
  BY DEF Send, Goto, TypeOK
<1>6. under' \in [Calls -> [Attempts -> Keys \cup {NoKey}]]
  BY <1>1 DEF Send, TypeOK, ApiTypeOK
<1> QED BY <1>2, <1>3, <1>4, <1>5, <1>6 DEF Send, TypeOK, ApiTypeOK, rentalVars

LEMMA ConcludeTyped ==
  ASSUME TypeOK, NEW c \in Calls, NEW what \in {"notSent", "refused", "unknown", "created", "interrupted"},
         NEW pods \in SUBSET Pods, Conclude(c, what, pods),
         UNCHANGED <<apiVars, at, known, rentalVars>>, first' = first
  PROVE  TypeOK'
<1>1. /\ pc' = [pc EXCEPT ![c] = "done"]
      /\ outcome' = [outcome EXCEPT ![c] = what]
      /\ got' = [got EXCEPT ![c] = pods]
  BY DEF Conclude, Goto
<1>2. ApiTypeOK'
  BY DEF TypeOK, ApiTypeOK, apiVars
<1> QED BY <1>1, <1>2 DEF TypeOK, rentalVars, Finished

(* A step that moves a call on without concluding it.                      *)
LEMMA GotoTyped ==
  ASSUME TypeOK, NEW c \in Calls, NEW label \in {"look", "again", "settle", "done"}, Goto(c, label),
         UNCHANGED <<apiVars, at, known, outcome, got, rentalVars>>,
         first' \in [Calls -> {"none", "limited", "lost"}]
  PROVE  TypeOK'
<1>1. pc' \in [Calls -> {"begin", "start", "ready", "post1", "look", "again",
                         "post2", "settle", "replay"} \cup Finished]
  BY DEF Goto, TypeOK, Finished
<1>2. \A d \in Calls : pc'[d] \in {"post1", "post2", "replay"} => at'[d] >= 1
  BY DEF Goto, TypeOK
<1>3. ApiTypeOK'
  BY DEF TypeOK, ApiTypeOK, apiVars
<1> QED BY <1>1, <1>2, <1>3 DEF TypeOK, rentalVars

LEMMA CallTypeStep ==
  ASSUME ApiAssumption, KindAssumption, TypeOK, NEW c \in Calls, CallNext(c)
  PROVE  TypeOK'
<1>u. under[c][1] \in Keys \cup {NoKey}
  BY DEF TypeOK, ApiTypeOK, Attempts, ApiAssumption
<1>1. CASE OpenRental(c)
  <2>0. Listing \in SUBSET Pods
    BY DEF TypeOK, ApiTypeOK, Listing
  <2>1. before' \in [Calls -> SUBSET Pods] /\ canSweep' \in [Calls -> BOOLEAN]
    <3>1. CASE before' = [before EXCEPT ![c] = Listing] /\ canSweep' = [canSweep EXCEPT ![c] = TRUE]
      BY <3>1, <2>0 DEF TypeOK
    <3>2. CASE UNCHANGED <<before, canSweep>>
      BY <3>2 DEF TypeOK
    <3> QED BY <1>1, <3>1, <3>2 DEF OpenRental
  <2>2. pc' = [pc EXCEPT ![c] = "start"]
    BY <1>1 DEF OpenRental, Goto
  <2>3. ApiTypeOK'
    BY <1>1 DEF OpenRental, TypeOK, ApiTypeOK, apiVars
  <2> QED BY <1>1, <2>1, <2>2, <2>3 DEF OpenRental, TypeOK
<1>2. CASE FailBefore(c)
  BY <1>2, ConcludeTyped DEF FailBefore
<1>3. CASE Snapshot(c)
  BY <1>3 DEF Snapshot, Goto, TypeOK, ApiTypeOK, apiVars, rentalVars, Listing, Finished
<1>4. CASE SendFirst(c)
  BY <1>4, SendTyped DEF SendFirst
<1>5. CASE Rented(c)
  <2>1. named[c][at[c]] \in SUBSET Pods
    BY <1>5 DEF Rented, TypeOK, ApiTypeOK, Attempts, ApiAssumption
  <2> QED BY <1>5, <2>1, ConcludeTyped, GotoTyped DEF Rented, TypeOK
<1>6. CASE RefusedFirst(c)
  BY <1>6, ConcludeTyped DEF RefusedFirst
<1>7. CASE NoAnswerFirst(c)
  <2>1. first' \in [Calls -> {"none", "limited", "lost"}]
    BY <1>7 DEF NoAnswerFirst, TypeOK
  <2> QED BY <1>7, <2>1, GotoTyped DEF NoAnswerFirst
<1>8. CASE FoundByName(c)
  <2>1. PICK p \in Pods : Conclude(c, "unknown", {}) \/ Conclude(c, "created", {p})
    BY <1>8 DEF FoundByName, NameMatches, Listing, TypeOK, ApiTypeOK
  <2> QED BY <1>8, <2>1, ConcludeTyped DEF FoundByName
<1>9. CASE NotFound(c)
  BY <1>9, ConcludeTyped, GotoTyped DEF NotFound, TypeOK
<1>10. CASE SendSecond(c)
  BY <1>10, <1>u, SendTyped DEF SendSecond
<1>11. CASE SecondFailed(c)
  BY <1>11, ConcludeTyped DEF SecondFailed
<1>12. CASE SecondFailedBySpec(c)
  BY <1>12, ConcludeTyped, GotoTyped DEF SecondFailedBySpec, TypeOK
<1>13. CASE NotFoundLast(c)
  BY <1>13, ConcludeTyped DEF NotFoundLast
<1>14. CASE Replay(c)
  BY <1>14, <1>u, SendTyped DEF Replay
<1>15. CASE ReplayAnswered(c)
  <2>1. named[c][at[c]] \in SUBSET Pods
    BY <1>15 DEF ReplayAnswered, TypeOK, ApiTypeOK, Attempts, ApiAssumption
  <2> QED BY <1>15, <2>1, ConcludeTyped, GotoTyped DEF ReplayAnswered, TypeOK
<1>16. CASE Interrupt(c)
  BY <1>16, ConcludeTyped DEF Interrupt
<1>17. CASE LeaveRental(c)
  <2>1. Strays(c) \subseteq Pods /\ got[c] \subseteq Pods
    BY DEF Strays, Listing, TypeOK, ApiTypeOK
  <2>2. swept' \in [Calls -> SUBSET Pods]
    BY <1>17, <2>1 DEF LeaveRental, TypeOK
  <2> QED BY <1>17, <2>2 DEF LeaveRental, Goto, TypeOK, ApiTypeOK, apiVars, Finished
<1> QED BY <1>1, <1>2, <1>3, <1>4, <1>5, <1>6, <1>7, <1>8, <1>9, <1>10, <1>11, <1>12,
           <1>13, <1>14, <1>15, <1>16, <1>17 DEF CallNext

(***************************************************************************)
(* A refusal rented nothing, and a call rents one pod.                     *)
(*                                                                         *)
(* A refusal is reported in one of two states of the requests: none of     *)
(* them can have rented, or the key's record says "refused".  Both last,   *)
(* because requests leave in order and only a call that is not over, or    *)
(* whose outcome is unknown, sends another.                                *)
(***************************************************************************)

Idle == {"unsent", "limited", "denied", "refused"}
Ran == {"running", "ok", "denied", "refused", "error"}
Repeats == {"busy", "storedRefusal", "storedDenial"}

(* The record of the call's key: that of its first request.                *)
KeyOf(c) == IF under[c][1] \in Keys THEN key[under[c][1]] ELSE "free"

(* All requests of a call carry the key of its first one.                  *)
Carries(c) ==
  /\ at[c] > 0 => under[c][1] \in Keys
  /\ \A n \in Attempts : under[c][n] = IF n <= at[c] THEN under[c][1] ELSE NoKey

(* No two calls have a key in common, and the API knows no other key.      *)
OwnKeys == \A c, d \in Calls : c # d /\ under[c][1] \in Keys => under[c][1] # under[d][1]
KeysInUse ==
  \A k \in Keys : key[k] # "free" \/ kept[k] # {} => \E c \in Calls : under[c][1] = k

(* How far a call is tells how many requests have left.                    *)
Phase(c) ==
  /\ pc[c] \in {"begin", "start", "ready"} => at[c] = 0
  /\ pc[c] \in {"post1", "look", "again"} => at[c] = 1
  /\ pc[c] = "post2" => at[c] = 2
  /\ pc[c] = "settle" \/ outcome[c] = "unknown" => at[c] >= 1
  /\ \A n \in Attempts : n > at[c] => http[c][n] = "unsent"
  /\ first[c] = "limited" => http[c][1] = "limited"
  /\ c \in BySpec /\ pc[c] \in {"again", "post2"} => Idempotent

(* The key's record: one request runs at a time, and only before a pod is  *)
(* recorded; a refusal on record, or a repeat's answer, has a cause.       *)
Record(c) ==
  /\ \A n \in Attempts : http[c][n] = "running" => KeyOf(c) = "pending"
  /\ \A m, n \in Attempts : http[c][m] = "running" /\ http[c][n] = "running" => m = n
  /\ KeyOf(c) \in {"free", "pending", "refused"} => \A p \in Pods : owner[p] # c
  /\ \A p, q \in Pods : owner[p] = c /\ owner[q] = c => p = q
  /\ \A n \in Attempts :
        http[c][n] \in {"refused", "storedRefusal", "storedDenial"} => KeyOf(c) = "refused"
  /\ KeyOf(c) # "free" => \E n \in Attempts : http[c][n] \in Ran

(* Only an API that honours the key answers a request as a repeat.         *)
Repeated(c) == \A n \in Attempts : http[c][n] \in Repeats => Idempotent /\ KeyOf(c) # "free"

(* A pod was made by a request that ended well, or with a lost answer.     *)
Maker(c) == \A p \in Pods : owner[p] = c => \E n \in Attempts : http[c][n] \in {"ok", "error"}

NothingRents(c) ==
  \/ \A n \in Attempts : http[c][n] \in Idle
  \/ Idempotent /\ KeyOf(c) = "refused"

Settled(c) ==
  outcome[c] \in {"refused", "notSent"} => pc[c] \in Finished /\ NothingRents(c)

ApiPart(c) == (Idempotent => Record(c)) /\ Repeated(c) /\ Maker(c)
CallInv(c) == Phase(c) /\ Carries(c) /\ ApiPart(c) /\ Settled(c)
RentInv == TypeOK /\ OwnKeys /\ KeysInUse /\ \A c \in Calls : CallInv(c)

LEMMA InitInv ==
  ASSUME ApiAssumption, KindAssumption, TypeOK, Init
  PROVE  OwnKeys /\ KeysInUse /\ \A c \in Calls : CallInv(c)
<1>0. 1 \in Attempts
  BY DEF Attempts, ApiAssumption
<1>1. OwnKeys /\ KeysInUse
  BY <1>0 DEF Init, ApiInit, OwnKeys, KeysInUse, ApiAssumption
<1>2. ASSUME NEW c \in Calls PROVE CallInv(c)
  <2>1. /\ \A n \in Attempts : http[c][n] = "unsent" /\ under[c][n] = NoKey
        /\ \A p \in Pods : owner[p] = Nobody
        /\ at[c] = 0 /\ first[c] = "none" /\ outcome[c] = "none" /\ pc[c] \in {"begin", "start"}
    BY DEF Init, ApiInit
  <2>2. \A p \in Pods : owner[p] # c
    BY <2>1 DEF ApiAssumption
  <2>3. Phase(c) /\ Settled(c)
    BY <2>1 DEF Phase, Settled
  <2>4. Carries(c) /\ KeyOf(c) = "free"
    BY <1>0, <2>1 DEF Carries, KeyOf, Attempts, ApiAssumption
  <2>5. Repeated(c) /\ Maker(c) /\ Record(c)
    BY <2>1, <2>2, <2>4 DEF Repeated, Maker, Record, Repeats
  <2> QED BY <2>3, <2>4, <2>5 DEF CallInv, ApiPart
<1> QED BY <1>1, <1>2

(***************************************************************************)
(* Steps of the API.                                                       *)
(***************************************************************************)

(* A request that has left carries its call's key, which is no other's, so *)
(* what the API records under it is recorded of this call alone.           *)
LEMMA RequestKey ==
  ASSUME ApiAssumption, RentInv, NEW c \in Calls, NEW n \in Attempts, http[c][n] # "unsent"
  PROVE  /\ under[c][n] = under[c][1] /\ under[c][n] \in Keys
         /\ key[under[c][n]] = KeyOf(c)
<1>1. TypeOK /\ Phase(c) /\ Carries(c)
  BY DEF RentInv, CallInv
<1>2. n <= at[c] /\ at[c] > 0
  BY <1>1 DEF Phase, TypeOK, Attempts
<1> QED BY <1>1, <1>2 DEF Carries, KeyOf

LEMMA RecordUnder ==
  ASSUME ApiAssumption, RentInv, NEW c \in Calls, NEW n \in Attempts, http[c][n] # "unsent",
         NEW value, key' = IF Idempotent THEN [key EXCEPT ![under[c][n]] = value] ELSE key,
         under' = under
  PROVE  /\ Idempotent => KeyOf(c)' = value
         /\ ~Idempotent => KeyOf(c)' = KeyOf(c)
         /\ \A d \in Calls : d # c => KeyOf(d)' = KeyOf(d)
<1>1. under[c][n] = under[c][1] /\ under[c][n] \in Keys /\ DOMAIN key = Keys
  BY RequestKey DEF RentInv, TypeOK, ApiTypeOK
<1>2. \A d \in Calls : d # c => under[d][1] # under[c][1]
  BY <1>1 DEF RentInv, OwnKeys
<1> QED BY <1>1, <1>2 DEF KeyOf

LEMMA ApiKeys ==
  ASSUME ApiAssumption, RentInv, ApiNext
  PROVE  under' = under /\ OwnKeys' /\ KeysInUse'
<1>1. under' = under
  BY DEF ApiNext, TurnAway, Accept, Repeat, MakePod, EndWithoutPod, OtherRents, Appear
<1>2. OwnKeys'
  BY <1>1 DEF RentInv, OwnKeys
<1>3. key' = key /\ kept' = kept => KeysInUse'
  BY <1>1 DEF RentInv, KeysInUse
<1>4. ASSUME NEW c \in Calls, NEW n \in Attempts, http[c][n] # "unsent",
             \A k \in Keys : k # under[c][n] => key'[k] = key[k] /\ kept'[k] = kept[k]
      PROVE  KeysInUse'
  <2>1. under[c][n] = under[c][1]
    BY <1>4, RequestKey
  <2> QED BY <1>1, <1>4, <2>1 DEF RentInv, KeysInUse
<1>5. ASSUME NEW c \in Calls, NEW n \in Attempts, Accept(c, n) \/ EndWithoutPod(c, n)
      PROVE  KeysInUse'
  BY <1>4, <1>5 DEF Accept, EndWithoutPod, RentInv, TypeOK, ApiTypeOK
<1>6. ASSUME NEW c \in Calls, NEW n \in Attempts, NEW p \in Pods, MakePod(c, n, p)
      PROVE  KeysInUse'
  <2>1. PICK record, stored :
           /\ key' = IF Idempotent THEN [key EXCEPT ![under[c][n]] = record] ELSE key
           /\ kept' = [kept EXCEPT ![under[c][n]] = stored]
    BY <1>6 DEF MakePod
  <2> QED BY <1>4, <1>6, <2>1 DEF MakePod, RentInv, TypeOK, ApiTypeOK
<1>7. KeysInUse'
  BY <1>3, <1>5, <1>6 DEF ApiNext, TurnAway, Repeat, OtherRents, Appear
<1> QED BY <1>1, <1>2, <1>7

(* An answer given to a request of c leaves the calls beside c alone.      *)
LEMMA OtherCalls ==
  ASSUME TypeOK, NEW c \in Calls, NEW d \in Calls, d # c, CallInv(d),
         http'[d] = http[d], KeyOf(d)' = KeyOf(d), under' = under,
         \A p \in Pods : owner'[p] = d <=> owner[p] = d,
         UNCHANGED callVars
  PROVE  CallInv(d)'
BY DEF CallInv, Phase, Carries, ApiPart, Record, Repeated, Maker, Settled, NothingRents, callVars

(* What an answer keeps: the requests that have not left, and a 429.       *)
LEMMA PhaseKept ==
  ASSUME ApiAssumption, TypeOK, NEW c \in Calls, NEW n \in Attempts, NEW answer \in Status,
         Phase(c), Answers(c, n, answer), http[c][n] \in {"sent", "running"}, UNCHANGED callVars
  PROVE  Phase(c)'
<1>1. http'[c] = [http[c] EXCEPT ![n] = answer]
  BY DEF Answers, TypeOK, ApiTypeOK
<1>2. http[c] \in [Attempts -> Status] /\ 1 \in Attempts
  BY DEF TypeOK, ApiTypeOK, Attempts, ApiAssumption
<1> QED BY <1>1, <1>2 DEF Phase, callVars

(* Answers that settle nothing about a call whose outcome is a refusal.    *)
LEMMA SettledKept ==
  ASSUME TypeOK, NEW c \in Calls, NEW n \in Attempts, NEW answer \in Status,
         Settled(c), Answers(c, n, answer), http[c][n] \in {"sent", "running"},
         Idempotent /\ KeyOf(c) = "refused" => KeyOf(c)' = "refused", UNCHANGED callVars
  PROVE  Settled(c)'
BY DEF Settled, NothingRents, Idle, callVars

LEMMA ApiStep ==
  ASSUME ApiAssumption, KindAssumption, RentInv, ApiNext, UNCHANGED callVars,
         NEW d \in Calls
  PROVE  CallInv(d)'
<1> DEFINE Changed(c, n, answer) == http'[c] = [http[c] EXCEPT ![n] = answer]
<1>k. under' = under
  BY ApiKeys
<1>0. /\ TypeOK /\ CallInv(d)
      /\ http \in [Calls -> [Attempts -> Status]] /\ http[d] \in [Attempts -> Status]
      /\ owner \in [Pods -> Calls \cup {Nobody, Other}]
  BY DEF RentInv, TypeOK, ApiTypeOK
<1>c. Carries(d)'
  BY <1>0, <1>k DEF CallInv, Carries, callVars
<1>a. Phase(d) /\ Repeated(d) /\ Maker(d) /\ Settled(d) /\ (Idempotent => Record(d))
  BY <1>0 DEF CallInv, ApiPart
<1>n. key' = key => KeyOf(d)' = KeyOf(d)
  BY <1>k DEF KeyOf
<1>1. ASSUME NEW c \in Calls, NEW n \in Attempts, TurnAway(c, n) PROVE CallInv(d)'
  <2>1. PICK answer \in {"limited", "denied", "error"} : Answers(c, n, answer)
    BY <1>1 DEF TurnAway
  <2>2. http' = [http EXCEPT ![c][n] = answer] /\ http[c][n] = "sent" /\ owner' = owner
        /\ KeyOf(d)' = KeyOf(d)
    BY <1>1, <1>n, <2>1 DEF TurnAway, Answers
  <2>3. CASE d # c
    BY <1>0, <1>k, <2>2, <2>3, OtherCalls
  <2>4. CASE d = c
    <3>1. Changed(d, n, answer) /\ http[d][n] = "sent"
      BY <1>0, <2>2, <2>4
    <3>2. Phase(d)' /\ Settled(d)'
      BY <1>0, <1>a, <2>1, <2>2, <2>4, PhaseKept, SettledKept DEF Status
    <3>3. Repeated(d)' /\ Maker(d)'
      BY <1>0, <1>a, <2>2, <3>1 DEF Repeated, Maker, Repeats
    <3>4. Idempotent => Record(d)'
      BY <1>0, <1>a, <2>2, <3>1 DEF Record, Ran
    <3> QED BY <1>c, <3>2, <3>3, <3>4 DEF CallInv, ApiPart
  <2> QED BY <2>3, <2>4
<1>2. ASSUME NEW c \in Calls, NEW n \in Attempts, Accept(c, n) PROVE CallInv(d)'
  <2>2. /\ http' = [http EXCEPT ![c][n] = "running"] /\ http[c][n] = "sent" /\ owner' = owner
        /\ Idempotent => KeyOf(c) = "free"
    BY <1>2, RequestKey DEF Accept, Answers
  <2>5. /\ d # c => KeyOf(d)' = KeyOf(d)
        /\ d = c => KeyOf(d)' = IF Idempotent THEN "pending" ELSE KeyOf(d)
    BY <1>2, <1>k, <2>2, RecordUnder DEF Accept
  <2>3. CASE d # c
    BY <1>0, <1>k, <2>2, <2>3, <2>5, OtherCalls
  <2>4. CASE d = c
    <3>1. Changed(d, n, "running") /\ http[d][n] = "sent"
      BY <1>0, <2>2, <2>4
    <3>2. Phase(d)' /\ Settled(d)'
      BY <1>0, <1>a, <1>2, <2>2, <2>4, <2>5, PhaseKept, SettledKept DEF Status, Accept
    <3>3. Repeated(d)' /\ Maker(d)'
      BY <1>0, <1>a, <2>2, <2>4, <2>5, <3>1 DEF Repeated, Maker, Repeats
    <3>4. Idempotent => Record(d)'
      BY <1>0, <1>a, <2>2, <2>4, <2>5, <3>1 DEF Record, Ran
    <3> QED BY <1>c, <3>2, <3>3, <3>4 DEF CallInv, ApiPart
  <2> QED BY <2>3, <2>4
<1>3. ASSUME NEW c \in Calls, NEW n \in Attempts, Repeat(c, n) PROVE CallInv(d)'
  <2>0. key[under[c][n]] = KeyOf(c)
    BY <1>3, RequestKey DEF Repeat
  <2>1. PICK answer \in {"busy", "storedRefusal", "storedDenial", "ok"} :
           /\ Answers(c, n, answer)
           /\ answer \in {"storedRefusal", "storedDenial"} => KeyOf(c) = "refused"
    BY <1>3, <2>0 DEF Repeat
  <2>2. /\ http' = [http EXCEPT ![c][n] = answer] /\ http[c][n] = "sent" /\ owner' = owner
        /\ KeyOf(d)' = KeyOf(d)
        /\ Idempotent /\ KeyOf(c) # "free"
    BY <1>3, <1>n, <2>0, <2>1 DEF Repeat, Answers
  <2>3. CASE d # c
    BY <1>0, <1>k, <2>2, <2>3, OtherCalls
  <2>4. CASE d = c
    <3>1. Changed(d, n, answer) /\ http[d][n] = "sent"
      BY <1>0, <2>2, <2>4
    <3>2. Phase(d)' /\ Settled(d)'
      BY <1>0, <1>a, <2>1, <2>2, <2>4, PhaseKept, SettledKept DEF Status
    <3>3. Repeated(d)' /\ Maker(d)'
      BY <1>0, <1>a, <2>2, <2>4, <3>1 DEF Repeated, Maker, Repeats
    <3>4. Idempotent => Record(d)'
      BY <1>0, <1>a, <2>1, <2>2, <2>4, <3>1 DEF Record, Ran
    <3> QED BY <1>c, <3>2, <3>3, <3>4 DEF CallInv, ApiPart
  <2> QED BY <2>3, <2>4
<1>4. ASSUME NEW c \in Calls, NEW n \in Attempts, EndWithoutPod(c, n) PROVE CallInv(d)'
  <2>1. PICK answer \in {"refused", "denied", "error"}, record \in {"refused", "failed"} :
           /\ Answers(c, n, answer)
           /\ key' = IF Idempotent THEN [key EXCEPT ![under[c][n]] = record] ELSE key
           /\ answer = "refused" => record = "refused"
    BY <1>4 DEF EndWithoutPod
  <2>2. http' = [http EXCEPT ![c][n] = answer] /\ http[c][n] = "running" /\ owner' = owner
    BY <1>4, <2>1 DEF EndWithoutPod, Answers
  <2>5. /\ d # c => KeyOf(d)' = KeyOf(d)
        /\ d = c => KeyOf(d)' = IF Idempotent THEN record ELSE KeyOf(d)
    BY <1>k, <2>1, <2>2, RecordUnder
  <2>3. CASE d # c
    BY <1>0, <1>k, <2>2, <2>3, <2>5, OtherCalls
  <2>4. CASE d = c
    <3>1. Changed(d, n, answer) /\ http[d][n] = "running"
      BY <1>0, <2>2, <2>4
    <3>2. /\ Idempotent => KeyOf(d) = "pending" /\ KeyOf(d)' = record
          /\ ~Idempotent => KeyOf(d)' = KeyOf(d)
      BY <1>0, <1>a, <2>4, <2>5, <3>1 DEF Record
    <3>3. Phase(d)' /\ Settled(d)'
      BY <1>0, <1>a, <2>1, <2>2, <2>4, <3>2, PhaseKept, SettledKept DEF Status
    <3>4. Repeated(d)' /\ Maker(d)'
      BY <1>0, <1>a, <2>2, <3>1, <3>2 DEF Repeated, Maker, Repeats
    <3>5. Idempotent => Record(d)'
      BY <1>0, <1>a, <2>1, <2>2, <3>1, <3>2 DEF Record, Ran
    <3> QED BY <1>c, <3>3, <3>4, <3>5 DEF CallInv, ApiPart
  <2> QED BY <2>3, <2>4
<1>5. ASSUME NEW c \in Calls, NEW n \in Attempts, NEW p \in Pods, MakePod(c, n, p)
      PROVE CallInv(d)'
  <2>1. PICK answer \in {"ok", "error"}, record \in {"made", "failed"} :
           /\ Answers(c, n, answer)
           /\ key' = IF Idempotent THEN [key EXCEPT ![under[c][n]] = record] ELSE key
    BY <1>5 DEF MakePod
  <2>2. /\ http' = [http EXCEPT ![c][n] = answer] /\ http[c][n] = "running"
        /\ owner' = [owner EXCEPT ![p] = c] /\ owner[p] = Nobody
    BY <1>5, <2>1 DEF MakePod, Answers
  <2>5. /\ d # c => KeyOf(d)' = KeyOf(d)
        /\ d = c => KeyOf(d)' = IF Idempotent THEN record ELSE KeyOf(d)
    BY <1>k, <2>1, <2>2, RecordUnder
  <2>3. CASE d # c
    <3>1. \A q \in Pods : owner'[q] = d <=> owner[q] = d
      BY <1>0, <2>2, <2>3 DEF ApiAssumption
    <3> QED BY <1>0, <1>k, <2>2, <2>3, <2>5, <3>1, OtherCalls
  <2>4. CASE d = c
    <3>1. Changed(d, n, answer) /\ http[d][n] = "running"
      BY <1>0, <2>2, <2>4
    <3>2. /\ Idempotent => KeyOf(d) = "pending" /\ KeyOf(d)' = record
          /\ ~Idempotent => KeyOf(d)' = KeyOf(d)
      BY <1>0, <1>a, <2>4, <2>5, <3>1 DEF Record
    <3>3. Phase(d)' /\ Settled(d)'
      BY <1>0, <1>a, <2>1, <2>2, <2>4, <3>2, PhaseKept, SettledKept DEF Status
    <3>4. Repeated(d)' /\ Maker(d)'
      BY <1>0, <1>a, <2>2, <3>1, <3>2 DEF Repeated, Maker, Repeats
    <3>5. Idempotent => Record(d)'
      BY <1>0, <1>a, <2>2, <2>4, <3>1, <3>2 DEF Record, Ran
    <3> QED BY <1>c, <3>3, <3>4, <3>5 DEF CallInv, ApiPart
  <2> QED BY <2>3, <2>4
<1>6. ASSUME NEW p \in Pods, OtherRents(p) PROVE CallInv(d)'
  <2>1. \A q \in Pods : owner'[q] = d <=> owner[q] = d
    BY <1>0, <1>6 DEF OtherRents, ApiAssumption
  <2> QED BY <1>0, <1>6, <1>c, <1>n, <2>1
       DEF OtherRents, CallInv, Phase, ApiPart, Record, Repeated, Maker, Settled, NothingRents,
           callVars
<1>7. ASSUME NEW p \in Pods, Appear(p) PROVE CallInv(d)'
  BY <1>0, <1>7, <1>c, <1>n
     DEF Appear, CallInv, Phase, ApiPart, Record, Repeated, Maker, Settled, NothingRents, callVars
<1> QED BY <1>1, <1>2, <1>3, <1>4, <1>5, <1>6, <1>7 DEF ApiNext

(***************************************************************************)
(* Steps of the calls.                                                     *)
(***************************************************************************)

(* What a call does leaves the requests and the record of others alone.    *)
LEMMA OtherCallSteps ==
  ASSUME NEW c \in Calls, NEW d \in Calls, d # c, CallInv(d), UNCHANGED <<key, owner>>,
         http'[d] = http[d], under'[d] = under[d], pc'[d] = pc[d], at'[d] = at[d],
         first'[d] = first[d], outcome'[d] = outcome[d]
  PROVE  CallInv(d)'
BY DEF CallInv, Phase, Carries, ApiPart, Record, Repeated, Maker, Settled, NothingRents, KeyOf

(* The key a request may leave under: a new one when it is the first, the  *)
(* key of the first one otherwise.                                         *)
RightKey(c, k) ==
  /\ k \in Keys
  /\ IF at[c] = 0 THEN NewKey(k) ELSE k = under[c][1]

LEMMA FirstKey ==
  ASSUME RentInv, NEW c \in Calls, at[c] >= 1 PROVE RightKey(c, under[c][1])
BY DEF RentInv, CallInv, Carries, RightKey, TypeOK

LEMMA SendKeys ==
  ASSUME ApiAssumption, RentInv, NEW c \in Calls, NEW label, NEW k, Send(c, label, k),
         RightKey(c, k)
  PROVE  OwnKeys' /\ KeysInUse' /\ Carries(c)' /\ KeyOf(c)' = KeyOf(c)
<1> DEFINE n == at[c] + 1
<1>1. TypeOK /\ OwnKeys /\ KeysInUse /\ \A d \in Calls : Carries(d)
  BY DEF RentInv, CallInv
<1>2. n \in Attempts /\ at[c] \in Nat /\ 1 \in Attempts /\ Attempts \subseteq Nat
  BY <1>1 DEF Send, TypeOK, Attempts, ApiAssumption
<1>3. /\ under' = [under EXCEPT ![c][n] = k] /\ under \in [Calls -> [Attempts -> Keys \cup {NoKey}]]
      /\ at'[c] = n /\ UNCHANGED <<key, kept>>
  BY <1>1 DEF Send, TypeOK, ApiTypeOK
<1>4. /\ under'[c] = [under[c] EXCEPT ![n] = k] /\ under[c] \in [Attempts -> Keys \cup {NoKey}]
      /\ \A d \in Calls : d # c => under'[d] = under[d]
  BY <1>3
<1>5. CASE at[c] = 0
  <2>1. NewKey(k) /\ k \in Keys /\ under'[c][1] = k /\ under[c][1] = NoKey
    BY <1>1, <1>2, <1>4, <1>5 DEF RightKey, Carries
  <2>2. OwnKeys'
    BY <1>1, <1>2, <1>4, <2>1 DEF OwnKeys, NewKey
  <2>3. KeysInUse'
    <3> SUFFICES ASSUME NEW l \in Keys, key[l] # "free" \/ kept[l] # {}
                 PROVE  \E d \in Calls : under'[d][1] = l
      BY <1>3 DEF KeysInUse
    <3>1. PICK d \in Calls : under[d][1] = l
      BY <1>1 DEF KeysInUse
    <3>2. d # c
      BY <2>1, <3>1 DEF ApiAssumption
    <3> QED BY <1>4, <3>1, <3>2
  <2>4. Carries(c)'
    <3>1. \A m \in Attempts : m <= n <=> m = 1
      BY <1>2, <1>5 DEF Attempts
    <3> QED BY <1>1, <1>2, <1>3, <1>4, <1>5, <2>1, <3>1 DEF Carries
  <2>5. KeyOf(c) = "free"
    BY <2>1 DEF KeyOf, ApiAssumption
  <2>6. key[k] = "free"
    BY <1>1, <1>2, <2>1 DEF KeysInUse, NewKey
  <2>7. KeyOf(c)' = "free"
    BY <1>3, <2>1, <2>6 DEF KeyOf
  <2> QED BY <2>2, <2>3, <2>4, <2>5, <2>7
<1>6. CASE at[c] # 0
  <2>1. k = under[c][1] /\ n # 1 /\ under'[c][1] = under[c][1] /\ k \in Keys
    BY <1>1, <1>2, <1>4, <1>6 DEF RightKey, Carries
  <2>2. \A d \in Calls : under'[d][1] = under[d][1]
    BY <1>4, <2>1
  <2>3. OwnKeys' /\ KeysInUse' /\ KeyOf(c)' = KeyOf(c)
    BY <1>1, <1>3, <2>2 DEF OwnKeys, KeysInUse, KeyOf
  <2>4. \A m \in Attempts : m <= n <=> m <= at[c] \/ m = n
    BY <1>2 DEF Attempts
  <2>5. Carries(c)'
    BY <1>1, <1>2, <1>3, <1>4, <1>6, <2>1, <2>4 DEF Carries
  <2> QED BY <2>3, <2>5
<1> QED BY <1>5, <1>6

(* A request leaves: the next one, from a call that may still be answered. *)
LEMMA SendKeeps ==
  ASSUME ApiAssumption, RentInv, NEW c \in Calls, NEW k,
         NEW label \in {"post1", "post2", "replay"}, Send(c, label, k),
         UNCHANGED <<first, outcome>>,
         outcome[c] \notin {"refused", "notSent"}, RightKey(c, k),
         label = "post1" => at[c] = 0, label = "post2" => at[c] = 1,
         label = "post2" /\ c \in BySpec => Idempotent
  PROVE  OwnKeys' /\ KeysInUse' /\ CallInv(c)'
<1> DEFINE n == at[c] + 1
<1>0. TypeOK /\ CallInv(c)
  BY DEF RentInv
<1>k. OwnKeys' /\ KeysInUse' /\ Carries(c)' /\ KeyOf(c)' = KeyOf(c)
  BY SendKeys
<1>1. n \in Attempts /\ at[c] \in Nat
  BY <1>0 DEF Send, TypeOK, Attempts, ApiAssumption
<1>2. /\ http'[c] = [http[c] EXCEPT ![n] = "sent"] /\ http[c] \in [Attempts -> Status]
      /\ pc'[c] = label /\ at'[c] = n /\ UNCHANGED <<owner, first, outcome>>
  BY <1>0 DEF Send, Goto, TypeOK, ApiTypeOK
<1>3. http[c][n] = "unsent"
  BY <1>0, <1>1 DEF CallInv, Phase
<1>4. Phase(c)'
  <2>1. \A m \in Attempts : m > n => http'[c][m] = "unsent"
    BY <1>0, <1>1, <1>2 DEF CallInv, Phase, Attempts
  <2>2. first[c] = "limited" => http'[c][1] = "limited"
    BY <1>0, <1>1, <1>2, <1>3 DEF CallInv, Phase, Attempts, ApiAssumption
  <2> QED BY <1>1, <1>2, <2>1, <2>2 DEF Phase
<1>5. Repeated(c)' /\ Maker(c)'
  BY <1>0, <1>1, <1>2, <1>3, <1>k DEF CallInv, ApiPart, Repeated, Maker, Repeats
<1>6. Idempotent => Record(c)'
  BY <1>0, <1>1, <1>2, <1>3, <1>k DEF CallInv, ApiPart, Record, Ran
<1>7. Settled(c)'
  BY <1>2 DEF Settled
<1> QED BY <1>4, <1>5, <1>6, <1>7, <1>k DEF CallInv, ApiPart

(* A step that sends nothing: the API's side stays, the call moves on.     *)
LEMMA ApiPartKept ==
  ASSUME NEW c \in Calls, ApiPart(c), UNCHANGED apiVars PROVE ApiPart(c)'
BY DEF ApiPart, Record, Repeated, Maker, KeyOf, apiVars

LEMMA ConcludeKeeps ==
  ASSUME TypeOK, NEW c \in Calls, CallInv(c), NEW what, NEW pods, Conclude(c, what, pods),
         UNCHANGED apiVars, UNCHANGED <<at, first>>,
         what \in {"refused", "notSent"} => NothingRents(c), what = "unknown" => at[c] >= 1
  PROVE  CallInv(c)'
<1>1. pc'[c] = "done" /\ outcome'[c] = what
  BY DEF Conclude, Goto, TypeOK
<1>2. Phase(c)'
  BY <1>1 DEF CallInv, Phase, apiVars
<1>3. Settled(c)'
  BY <1>1 DEF Settled, NothingRents, KeyOf, Finished, apiVars
<1>4. Carries(c)'
  BY DEF CallInv, Carries, apiVars
<1> QED BY <1>2, <1>3, <1>4, ApiPartKept DEF CallInv

LEMMA GotoKeeps ==
  ASSUME TypeOK, NEW c \in Calls, CallInv(c), NEW label, Goto(c, label), UNCHANGED apiVars,
         UNCHANGED <<at, outcome>>, pc[c] \notin Finished \/ label \in Finished,
         label \in {"look", "again"} => at[c] = 1,
         label \in {"start", "ready"} => at[c] = 0,
         label \notin {"begin", "post1", "post2"},
         label = "settle" => at[c] >= 1,
         label = "again" /\ c \in BySpec => Idempotent,
         first'[c] = first[c] \/ first'[c] = "lost" \/ (first'[c] = "limited"
                                                        /\ http[c][1] = "limited")
  PROVE  CallInv(c)'
<1>1. pc'[c] = label
  BY DEF Goto, TypeOK
<1>2. Phase(c)'
  BY <1>1 DEF CallInv, Phase, apiVars
<1>3. Settled(c)'
  BY <1>1 DEF CallInv, Settled, NothingRents, KeyOf, apiVars
<1>4. Carries(c)'
  BY DEF CallInv, Carries, apiVars
<1> QED BY <1>2, <1>3, <1>4, ApiPartKept DEF CallInv

(* With only requests that were refused, one of them did the refusing: no  *)
(* answer can be that of a repeat.                                         *)
LEMMA NoRepeatYet ==
  ASSUME TypeOK, NEW c \in Calls, CallInv(c),
         \A n \in Attempts : http[c][n] \in {"unsent", "limited", "denied", "refused"} \cup Repeats,
         \A m, n \in Attempts : http[c][m] \in Repeats => http[c][n] \in {"unsent", "limited"} \cup Repeats
  PROVE  NothingRents(c)
BY DEF CallInv, ApiPart, Record, Repeated, NothingRents, Idle, Ran, Repeats

LEMMA CallTouchesItself ==
  ASSUME TypeOK, NEW c \in Calls, NEW d \in Calls, d # c, CallNext(c)
  PROVE  /\ UNCHANGED <<key, owner>> /\ http'[d] = http[d] /\ pc'[d] = pc[d] /\ at'[d] = at[d]
         /\ under'[d] = under[d] /\ first'[d] = first[d] /\ outcome'[d] = outcome[d]
<1> USE DEF TypeOK, ApiTypeOK, Goto, Conclude, apiVars
<1>1. CASE OpenRental(c) BY <1>1 DEF OpenRental
<1>2. CASE FailBefore(c) BY <1>2 DEF FailBefore
<1>3. CASE Snapshot(c) BY <1>3 DEF Snapshot
<1>4. CASE SendFirst(c) BY <1>4 DEF SendFirst, Send
<1>5. CASE Rented(c) BY <1>5 DEF Rented
<1>6. CASE RefusedFirst(c) BY <1>6 DEF RefusedFirst
<1>7. CASE NoAnswerFirst(c) BY <1>7 DEF NoAnswerFirst
<1>8. CASE FoundByName(c) BY <1>8 DEF FoundByName
<1>9. CASE NotFound(c) BY <1>9 DEF NotFound
<1>10. CASE SendSecond(c) BY <1>10 DEF SendSecond, Send
<1>11. CASE SecondFailed(c) BY <1>11 DEF SecondFailed
<1>12. CASE SecondFailedBySpec(c) BY <1>12 DEF SecondFailedBySpec
<1>13. CASE NotFoundLast(c) BY <1>13 DEF NotFoundLast
<1>14. CASE Replay(c) BY <1>14 DEF Replay, Send
<1>15. CASE ReplayAnswered(c) BY <1>15 DEF ReplayAnswered
<1>16. CASE Interrupt(c) BY <1>16 DEF Interrupt
<1>17. CASE LeaveRental(c) BY <1>17 DEF LeaveRental
<1> QED BY <1>1, <1>2, <1>3, <1>4, <1>5, <1>6, <1>7, <1>8, <1>9, <1>10, <1>11, <1>12,
           <1>13, <1>14, <1>15, <1>16, <1>17 DEF CallNext

LEMMA OwnStep ==
  ASSUME ApiAssumption, KindAssumption, RentInv, NEW c \in Calls, CallNext(c)
  PROVE  OwnKeys' /\ KeysInUse' /\ CallInv(c)'
<1>i. TypeOK /\ CallInv(c)
  BY DEF RentInv
<1>k. UNCHANGED apiVars => OwnKeys' /\ KeysInUse'
  BY DEF RentInv, OwnKeys, KeysInUse, apiVars
<1>0. /\ Phase(c) /\ Settled(c) /\ (Idempotent => Record(c)) /\ Repeated(c)
      /\ http[c] \in [Attempts -> Status] /\ at[c] \in 0..MaxPosts /\ 1 \in Attempts
      /\ 2 \in Attempts
      /\ Attempts \subseteq Nat
  BY <1>i DEF CallInv, ApiPart, TypeOK, ApiTypeOK, Attempts, ApiAssumption
<1>01. pc[c] \notin Finished => outcome[c] \notin {"refused", "notSent"}
  BY <1>0 DEF Settled
<1>02. \A n \in Attempts : n > at[c] => http[c][n] = "unsent"
  BY <1>0 DEF Phase
<1>1. CASE OpenRental(c)
  BY <1>0, <1>1, GotoKeeps, <1>i, <1>k DEF OpenRental, Phase, Finished
<1>2. CASE FailBefore(c)
  <2>1. \A n \in Attempts : http[c][n] = "unsent"
    BY <1>0, <1>02, <1>2 DEF FailBefore, Phase, Attempts
  <2> QED BY <1>2, <2>1, ConcludeKeeps, <1>i, <1>k DEF FailBefore, NothingRents, Idle
<1>3. CASE Snapshot(c)
  BY <1>0, <1>3, GotoKeeps, <1>i, <1>k DEF Snapshot, Phase, Finished
<1>4. CASE SendFirst(c)
  <2>1. PICK k \in Keys : NewKey(k) /\ Send(c, "post1", k)
    BY <1>4 DEF SendFirst
  <2> QED BY <1>0, <1>01, <1>4, <2>1, SendKeeps DEF SendFirst, Phase, RightKey, Finished
<1>5. CASE Rented(c)
  <2>1. at[c] >= 1
    BY <1>5, <1>i DEF Rented, TypeOK
  <2> QED BY <1>5, <2>1, ConcludeKeeps, GotoKeeps, <1>i, <1>k DEF Rented, Finished
<1>6. CASE RefusedFirst(c)
  <2>1. \A n \in Attempts : n # 1 => http[c][n] = "unsent"
    BY <1>0, <1>02, <1>6 DEF RefusedFirst, Phase, Attempts
  <2>2. NothingRents(c)
    BY <1>0, <1>6, <2>1, NoRepeatYet, <1>i, <1>k DEF RefusedFirst, Refusals, Repeats
  <2> QED BY <1>6, <2>2, ConcludeKeeps, <1>i, <1>k DEF RefusedFirst
<1>7. CASE NoAnswerFirst(c)
  <2>1. first'[c] = "lost" \/ (first'[c] = "limited" /\ http[c][1] = "limited")
    BY <1>7, <1>i DEF NoAnswerFirst, TypeOK
  <2> QED BY <1>0, <1>7, <2>1, GotoKeeps, <1>i, <1>k DEF NoAnswerFirst, Phase, Finished
<1>8. CASE FoundByName(c)
  <2>1. PICK p \in NameMatches(c) : Conclude(c, "unknown", {}) \/ Conclude(c, "created", {p})
    BY <1>8 DEF FoundByName
  <2>2. at[c] >= 1
    BY <1>0, <1>8 DEF FoundByName, Phase
  <2> QED BY <1>8, <2>1, <2>2, ConcludeKeeps, <1>i, <1>k DEF FoundByName
<1>9. CASE NotFound(c)
  <2>1. \A n \in Attempts : n # 1 => http[c][n] = "unsent"
    BY <1>0, <1>02, <1>9 DEF NotFound, Phase, Attempts
  <2>2. first[c] = "limited" => NothingRents(c)
    BY <1>0, <2>1 DEF Phase, NothingRents, Idle
  <2>3. CASE c \in BySpec /\ ~Idempotent
    BY <1>0, <1>9, <2>2, <2>3, ConcludeKeeps, <1>i, <1>k DEF NotFound, Phase
  <2>4. CASE ~(c \in BySpec /\ ~Idempotent)
    BY <1>0, <1>9, <2>4, GotoKeeps, <1>i, <1>k DEF NotFound, Phase, Finished
  <2> QED BY <2>3, <2>4
<1>10. CASE SendSecond(c)
  BY <1>0, <1>01, <1>10, FirstKey, SendKeeps DEF SendSecond, Phase, Finished
<1>11. CASE SecondFailed(c)
  <2>1. at[c] = 2 /\ \A n \in Attempts : n \notin {1, 2} => http[c][n] = "unsent"
    BY <1>0, <1>02, <1>11 DEF SecondFailed, Phase, Attempts
  <2>2. first[c] = "limited" /\ http[c][2] \in Refusals \cup {"limited"} => NothingRents(c)
    <3> SUFFICES ASSUME first[c] = "limited", http[c][2] \in Refusals \cup {"limited"}
                 PROVE  NothingRents(c)
      OBVIOUS
    <3>1. http[c][1] = "limited"
      BY <1>0 DEF Phase
    <3> QED BY <2>1, <3>1, NoRepeatYet, <1>i, <1>k DEF Refusals, Repeats
  <2>3. \/ Conclude(c, "refused", {}) /\ NothingRents(c)
        \/ Conclude(c, "unknown", {})
    BY <1>11, <2>2 DEF SecondFailed
  <2> QED BY <1>11, <2>1, <2>3, ConcludeKeeps, <1>i, <1>k DEF SecondFailed
<1>12. CASE SecondFailedBySpec(c)
  <2>1. http[c][2] \in Refusals \ (Denials \cup {"busy"}) => NothingRents(c)
    BY <1>0, <1>12 DEF SecondFailedBySpec, Phase, Record, NothingRents, Refusals, Denials
  <2>2. CASE Conclude(c, "refused", {}) /\ NothingRents(c)
    BY <1>12, <2>2, ConcludeKeeps, <1>i, <1>k DEF SecondFailedBySpec
  <2>3. CASE Goto(c, "settle") /\ UNCHANGED <<outcome, got>>
    BY <1>0, <1>12, <2>3, GotoKeeps, <1>i, <1>k DEF SecondFailedBySpec, Phase, Finished
  <2> QED BY <1>12, <2>1, <2>2, <2>3 DEF SecondFailedBySpec
<1>13. CASE NotFoundLast(c)
  BY <1>0, <1>13, ConcludeKeeps, <1>i, <1>k DEF NotFoundLast, Phase
<1>14. CASE Replay(c)
  BY <1>0, <1>14, FirstKey, SendKeeps DEF Replay, Phase
<1>15. CASE ReplayAnswered(c)
  <2>1. at[c] \in Attempts
    BY <1>15, <1>i DEF ReplayAnswered, TypeOK, Attempts, ApiAssumption
  <2>2. http[c][at[c]] \in {"storedRefusal", "storedDenial"} => NothingRents(c)
    BY <1>0, <2>1 DEF Repeated, Repeats, Record, NothingRents
  <2>3. CASE Conclude(c, "created", named[c][at[c]])
    BY <1>15, <2>3, ConcludeKeeps, <1>i, <1>k DEF ReplayAnswered
  <2>4. CASE Conclude(c, "refused", {}) /\ NothingRents(c)
    BY <1>15, <2>4, ConcludeKeeps, <1>i, <1>k DEF ReplayAnswered
  <2>5. CASE Goto(c, "done") /\ UNCHANGED <<outcome, got>>
    BY <1>15, <2>5, GotoKeeps, <1>i, <1>k DEF ReplayAnswered, Finished
  <2> QED BY <1>15, <2>2, <2>3, <2>4, <2>5 DEF ReplayAnswered
<1>16. CASE Interrupt(c)
  BY <1>16, ConcludeKeeps, <1>i, <1>k DEF Interrupt
<1>17. CASE LeaveRental(c)
  BY <1>17, GotoKeeps, <1>i, <1>k DEF LeaveRental, Finished
<1> QED BY <1>1, <1>2, <1>3, <1>4, <1>5, <1>6, <1>7, <1>8, <1>9, <1>10, <1>11, <1>12,
           <1>13, <1>14, <1>15, <1>16, <1>17 DEF CallNext

LEMMA InitTyped == ASSUME ApiAssumption, KindAssumption, Init PROVE TypeOK
BY DEF Init, ApiInit, TypeOK, ApiTypeOK, Attempts, Status, Looks, Finished, ApiAssumption

LEMMA TypeStep == ASSUME ApiAssumption, KindAssumption, RentInv, [Next]_vars PROVE TypeOK'
<1>0. TypeOK
  BY DEF RentInv
<1>1. CASE ApiNext /\ UNCHANGED callVars
  BY <1>0, <1>1, ApiTypeStep, RequestKey DEF TypeOK, callVars
<1>2. ASSUME NEW c \in Calls, CallNext(c) PROVE TypeOK'
  BY <1>0, <1>2, CallTypeStep
<1>3. CASE UNCHANGED vars
  BY <1>0, <1>3 DEF vars, apiVars, callVars, TypeOK, ApiTypeOK
<1> QED BY <1>1, <1>2, <1>3 DEF Next

LEMMA RentInvariant == Spec => []RentInv
<1> USE ApiAssumption, KindAssumption
<1>1. Init => RentInv
  BY InitTyped, InitInv DEF RentInv
<1>2. RentInv /\ [Next]_vars => RentInv'
  <2> SUFFICES ASSUME RentInv, [Next]_vars
               PROVE  OwnKeys' /\ KeysInUse' /\ \A d \in Calls : CallInv(d)'
    BY TypeStep DEF RentInv
  <2>0. TypeOK /\ \A c \in Calls : CallInv(c)
    BY DEF RentInv
  <2>1. CASE ApiNext /\ UNCHANGED callVars
    BY <2>1, ApiKeys, ApiStep
  <2>2. ASSUME NEW c \in Calls, CallNext(c)
        PROVE  OwnKeys' /\ KeysInUse' /\ \A d \in Calls : CallInv(d)'
    <3>1. OwnKeys' /\ KeysInUse' /\ CallInv(c)'
      BY <2>2, OwnStep
    <3>2. ASSUME NEW d \in Calls, d # c PROVE CallInv(d)'
      BY <2>0, <2>2, <3>2, CallTouchesItself, OtherCallSteps
    <3> QED BY <3>1, <3>2
  <2>3. CASE UNCHANGED vars
    BY <2>0, <2>3 DEF vars, apiVars, callVars, RentInv, OwnKeys, KeysInUse, CallInv, Phase,
                      Carries, ApiPart, Record, Repeated, Maker, Settled, NothingRents, KeyOf
  <2> QED BY <2>1, <2>2, <2>3 DEF Next
<1> QED BY <1>1, <1>2, PTL DEF Spec

(* The variables of the protocol and of the API keep their types.  That an *)
(* answer names pods takes more than TypeOK: a request that has left       *)
(* carries a key (RequestKey).                                             *)
THEOREM TypeCorrect == Spec => []TypeOK
<1>1. RentInv => TypeOK
  BY DEF RentInv
<1> QED BY <1>1, RentInvariant, PTL

(* A rent reported as refused or as never sent rented nothing, and none of *)
(* its requests ever will (client.py: _rent, _rent_on_server, _replay_rent *)
(* report a refusal only then), on an API that honours the key or not.     *)
THEOREM RefusedSafe == Spec => []RefusedRentedNothing
<1>1. RentInv => RefusedRentedNothing
  <2> SUFFICES ASSUME RentInv, NEW c \in Calls, outcome[c] \in {"refused", "notSent"}
               PROVE  OwnedBy(c) = {}
    BY DEF RefusedRentedNothing
  <2>1. NothingRents(c) /\ Maker(c) /\ (Idempotent => Record(c))
    BY DEF RentInv, CallInv, ApiPart, Settled
  <2>2. \A p \in Pods : owner[p] # c
    <3>1. CASE \A n \in Attempts : http[c][n] \in Idle
      BY <2>1, <3>1 DEF Maker, Idle
    <3>2. CASE Idempotent /\ KeyOf(c) = "refused"
      BY <2>1, <3>2 DEF Record
    <3> QED BY <2>1, <3>1, <3>2 DEF NothingRents
  <2> QED BY <2>2 DEF OwnedBy
<1> QED BY <1>1, RentInvariant, PTL

(* On an API that honours the Idempotency-Key a call bills one pod: its    *)
(* requests, the repeat and the replays all go under the key it drew for   *)
(* the first one (Carries), which no other call uses (OwnKeys), so the API *)
(* runs one of them; under a second key it would run another.              *)
THEOREM CallRentsOnce == Spec => []OnePodPerCall
<1>1. RentInv => OnePodPerCall
  BY DEF RentInv, CallInv, ApiPart, Record, OnePodPerCall, OwnedBy
<1> QED BY <1>1, RentInvariant, PTL

(***************************************************************************)
(* What a call reports, and that the protocol implements RentContract on   *)
(* an API that honours the Idempotency-Key.  RentInv gives what the API    *)
(* can do for a call; here is what the call is told of it.                 *)
(***************************************************************************)

Strangers(c) == {Other} \cup (Calls \ {c})

(* An answer, stored under the call's key or given, names pods of the call *)
(* only.                                                                   *)
KeptOf(c) == IF under[c][1] \in Keys THEN kept[under[c][1]] ELSE {}
Named(c) ==
  /\ \A n \in Attempts : named[c][n] \subseteq OwnedBy(c)
  /\ KeptOf(c) \subseteq OwnedBy(c)

(* What the caller was told follows from where the call is.                *)
Told(c) ==
  /\ pc[c] \notin Finished \cup {"replay"} => outcome[c] = "none"
  /\ pc[c] = "replay" => outcome[c] = "unknown"
  /\ pc[c] \in Finished => outcome[c] # "none"
  /\ outcome[c] = "interrupted" => c \in Scoped
  /\ outcome[c] # "created" => got[c] = {}

(* A pod handed back is the call's own or, unless the call is a confirmed  *)
(* one, there is a stranger's pod that passed for it.                      *)
Given(c) ==
  c \notin BySpec /\ outcome[c] = "created" =>
    /\ got[c] # {}
    /\ \/ got[c] \subseteq OwnedBy(c)
       \/ c \notin Confirmed /\ \E p \in got[c] : owner[p] \in Strangers(c)

Reports(c) == Named(c) /\ Told(c) /\ Given(c)

ListedExist == \A p \in listed : owner[p] # Nobody

ReportInv == RentInv /\ ListedExist /\ \A c \in Calls : Reports(c)

LEMMA InitReports == ASSUME ApiAssumption, KindAssumption, Init
                     PROVE  ListedExist /\ \A c \in Calls : Reports(c)
BY DEF Init, ApiInit, ListedExist, Reports, Named, KeptOf, Told, Given, Finished, Attempts,
     ApiAssumption

(* A pod keeps its owner.                                                  *)
LEMMA OwnersStay ==
  ASSUME TypeOK, ApiNext, NEW p \in Pods, owner[p] # Nobody
  PROVE  owner'[p] = owner[p]
<1> USE DEF TypeOK, ApiTypeOK
<1>1. ASSUME NEW c \in Calls, NEW n \in Attempts, NEW q \in Pods, MakePod(c, n, q)
      PROVE owner'[p] = owner[p]
  BY <1>1 DEF MakePod
<1>2. ASSUME NEW q \in Pods, OtherRents(q) PROVE owner'[p] = owner[p]
  BY <1>2 DEF OtherRents
<1> QED BY <1>1, <1>2 DEF ApiNext, TurnAway, Accept, Repeat, EndWithoutPod, Appear

LEMMA OwnedGrow ==
  ASSUME ApiAssumption, TypeOK, ApiNext, NEW c \in Calls
  PROVE  OwnedBy(c) \subseteq OwnedBy(c)'
BY OwnersStay DEF OwnedBy, ApiAssumption

LEMMA ApiNames ==
  ASSUME ApiAssumption, RentInv, ApiNext, NEW d \in Calls, Named(d)
  PROVE  Named(d)'
<1>0. TypeOK /\ under' = under /\ OwnedBy(d) \subseteq OwnedBy(d)'
  BY OwnedGrow, ApiKeys DEF RentInv
<1>1. named' = named /\ kept' = kept => Named(d)'
  BY <1>0 DEF Named, KeptOf
<1>2. ASSUME NEW c \in Calls, NEW n \in Attempts, Repeat(c, n) PROVE Named(d)'
  <2>1. kept' = kept /\ (named' = named \/ named' = [named EXCEPT ![c][n] = kept[under[c][n]]])
    BY <1>2 DEF Repeat
  <2>2. CASE named' = [named EXCEPT ![c][n] = kept[under[c][n]]]
    <3>1. kept[under[c][n]] = KeptOf(c)
      BY <1>2, RequestKey DEF Repeat, KeptOf
    <3>2. \A m \in Attempts : named'[d][m] = named[d][m] \/ named'[d][m] = KeptOf(d)
      BY <1>0, <2>2, <3>1 DEF TypeOK, ApiTypeOK
    <3>3. KeptOf(d)' = KeptOf(d)
      BY <1>0, <2>1 DEF KeptOf
    <3> QED BY <1>0, <3>2, <3>3 DEF Named
  <2> QED BY <1>1, <2>1, <2>2
<1>3. ASSUME NEW c \in Calls, NEW n \in Attempts, NEW p \in Pods, MakePod(c, n, p)
      PROVE  Named(d)'
  <2>1. PICK id \in SUBSET {p} : named' = named \/ named' = [named EXCEPT ![c][n] = id]
    BY <1>3 DEF MakePod
  <2>2. PICK stored \in SUBSET {p} : kept' = [kept EXCEPT ![under[c][n]] = stored]
    BY <1>3 DEF MakePod
  <2>3. {p} \subseteq OwnedBy(c)'
    BY <1>0, <1>3 DEF MakePod, OwnedBy, TypeOK, ApiTypeOK
  <2>4. \A m \in Attempts : named'[d][m] \subseteq OwnedBy(d)'
    <3>1. \A m \in Attempts : named'[d][m] \in {named[d][m]} \cup (IF d = c THEN {id} ELSE {})
      BY <1>0, <2>1 DEF TypeOK, ApiTypeOK
    <3> QED BY <1>0, <2>3, <3>1 DEF Named
  <2>5. KeptOf(d)' \subseteq OwnedBy(d)'
    <3>1. under[c][n] = under[c][1] /\ under[c][n] \in Keys
      BY <1>3, RequestKey DEF MakePod
    <3>2. d # c => under[d][1] # under[c][1]
      BY <3>1 DEF RentInv, OwnKeys
    <3>3. KeptOf(d)' = IF d = c THEN stored ELSE KeptOf(d)
      BY <1>0, <2>2, <3>1, <3>2 DEF KeptOf, TypeOK, ApiTypeOK
    <3> QED BY <1>0, <2>3, <3>3 DEF Named
  <2> QED BY <2>4, <2>5 DEF Named
<1> QED BY <1>1, <1>2, <1>3
        DEF ApiNext, TurnAway, Accept, EndWithoutPod, OtherRents, Appear

LEMMA ApiReports ==
  ASSUME ApiAssumption, KindAssumption, ReportInv, ApiNext, UNCHANGED callVars
  PROVE  ListedExist' /\ \A d \in Calls : Reports(d)'
<1>0. RentInv /\ TypeOK /\ ListedExist /\ \A d \in Calls : Reports(d)
  BY DEF ReportInv, RentInv
<1>1. ListedExist'
  <2>1. listed \subseteq Pods /\ \A p \in listed : owner'[p] # Nobody
    BY <1>0, OwnersStay DEF ListedExist, TypeOK, ApiTypeOK
  <2>2. listed' = listed \/ \E p \in Pods : owner'[p] # Nobody /\ listed' = listed \cup {p}
    BY DEF ApiNext, TurnAway, Accept, Repeat, EndWithoutPod, MakePod, OtherRents, Appear
  <2> QED BY <2>1, <2>2 DEF ListedExist
<1>2. ASSUME NEW d \in Calls PROVE Reports(d)'
  <2>1. Named(d)'
    BY <1>0, ApiNames DEF Reports
  <2>2. Told(d)'
    BY <1>0 DEF Reports, Told, callVars
  <2>3. Given(d)'
    <3>1. OwnedBy(d) \subseteq OwnedBy(d)'
      BY <1>0, OwnedGrow
    <3>2. \A p \in got[d] : owner[p] \in Strangers(d) => owner'[p] \in Strangers(d)
      BY <1>0, OwnersStay DEF Strangers, ApiAssumption, TypeOK
    <3> QED BY <1>0, <3>1, <3>2 DEF Reports, Given, callVars, Strangers
  <2> QED BY <2>1, <2>2, <2>3 DEF Reports
<1> QED BY <1>1, <1>2

(***************************************************************************)
(* Steps of the calls.                                                     *)
(***************************************************************************)

(* A call step changes no pod and no answer, and reports to one caller.    *)
LEMMA CallFrame ==
  ASSUME NEW c \in Calls, CallNext(c)
  PROVE  UNCHANGED <<owner, named, kept, listed>>
BY DEF CallNext, OpenRental, FailBefore, Snapshot, SendFirst, Rented, RefusedFirst, NoAnswerFirst,
       FoundByName, NotFound, SendSecond, SecondFailed, SecondFailedBySpec, NotFoundLast, Replay,
       ReplayAnswered, Interrupt, LeaveRental, Send, apiVars

(* A new key has no stored answer, so a call step brings no call one.      *)
LEMMA KeptStays ==
  ASSUME ApiAssumption, RentInv, NEW c \in Calls, CallNext(c), NEW d \in Calls
  PROVE  KeptOf(d)' = KeptOf(d)
<1>0. /\ TypeOK /\ OwnKeys /\ KeysInUse /\ kept' = kept /\ 1 \in Attempts
      /\ Phase(c) /\ Carries(c)
      /\ under \in [Calls -> [Attempts -> Keys \cup {NoKey}]]
  BY CallFrame DEF RentInv, CallInv, TypeOK, ApiTypeOK, Attempts, ApiAssumption
<1>1. CASE SendFirst(c)
  <2>1. PICK k \in Keys : NewKey(k) /\ under' = [under EXCEPT ![c][1] = k]
    <3>1. PICK k \in Keys : NewKey(k) /\ under' = [under EXCEPT ![c][at[c] + 1] = k]
      BY <1>1 DEF SendFirst, Send
    <3>2. at[c] + 1 = 1
      BY <1>0, <1>1 DEF SendFirst, Phase
    <3> QED BY <3>1, <3>2
  <2>2. kept[k] = {} /\ under[c][1] = NoKey
    BY <1>0, <1>1, <2>1 DEF KeysInUse, NewKey, SendFirst, Phase, Carries
  <2>3. under'[c][1] = k /\ (d # c => under'[d] = under[d])
    BY <1>0, <2>1
  <2> QED BY <1>0, <2>2, <2>3 DEF KeptOf, ApiAssumption
<1>2. CASE SendSecond(c) \/ Replay(c)
  <2>1. at[c] >= 1 /\ at[c] \in Nat
    BY <1>0, <1>2 DEF SendSecond, Replay, Phase, TypeOK
  <2>2. under' = [under EXCEPT ![c][at[c] + 1] = under[c][1]]
    BY <1>2 DEF SendSecond, Replay, Send
  <2>3. at[c] + 1 # 1
    BY <2>1
  <2>4. under'[d][1] = under[d][1]
    BY <1>0, <2>2, <2>3
  <2> QED BY <1>0, <2>4 DEF KeptOf
<1>3. CASE UNCHANGED apiVars
  BY <1>3 DEF KeptOf, apiVars
<1> QED BY <1>1, <1>2, <1>3
        DEF CallNext, OpenRental, FailBefore, Snapshot, Rented, RefusedFirst, NoAnswerFirst,
            FoundByName, NotFound, SecondFailed, SecondFailedBySpec, NotFoundLast,
            ReplayAnswered, Interrupt, LeaveRental

(* What a call may be told: nothing, that its outcome is unknown, that it  *)
(* rented nothing, of a pod, or of its interruption.                       *)
Silent(c) == UNCHANGED <<outcome, got>>
Doubt(c) == Conclude(c, "unknown", {}) /\ outcome[c] = "none"
Refusal(c) ==
  /\ \E what \in {"refused", "notSent"} : Conclude(c, what, {})
  /\ outcome[c] \in {"none", "unknown"}
Answer(c) ==
  \E pods \in SUBSET Pods :
    /\ Conclude(c, "created", pods)
    /\ outcome[c] \in {"none", "unknown"}
    /\ c \notin BySpec => pods # {}
    /\ \/ pods \subseteq OwnedBy(c)
       \/ c \notin Confirmed /\ \E p \in pods : owner[p] \in Strangers(c)
Break(c) == c \in Scoped /\ Conclude(c, "interrupted", {})

(* A step of a call is one of these; a silent one keeps what Told says.    *)
LEMMA Kinds ==
  ASSUME ApiAssumption, KindAssumption, TypeOK, ListedExist, NEW c \in Calls, Reports(c), CallNext(c)
  PROVE  (Silent(c) /\ Told(c)') \/ Doubt(c) \/ Refusal(c) \/ Answer(c) \/ Break(c)
<1>0. Named(c) /\ Told(c)
  BY DEF Reports
<1>t. pc \in [Calls -> {"begin", "start", "ready", "post1", "look", "again",
                         "post2", "settle", "replay"} \cup Finished]
  BY DEF TypeOK
<1> USE DEF Silent
<1>1. CASE OpenRental(c)
  BY <1>0, <1>1, <1>t DEF OpenRental, Goto, Told, Finished
<1>2. CASE FailBefore(c)
  BY <1>0, <1>2 DEF FailBefore, Refusal, Told, Finished
<1>3. CASE Snapshot(c)
  BY <1>0, <1>3, <1>t DEF Snapshot, Goto, Told, Finished
<1>4. CASE SendFirst(c)
  BY <1>0, <1>4, <1>t DEF SendFirst, Send, Goto, Told, Finished
<1>5. CASE Rented(c)
  <2>1. at[c] \in Attempts
    BY <1>5 DEF Rented, TypeOK, Attempts, ApiAssumption
  <2>2. named[c][at[c]] \subseteq OwnedBy(c) /\ named[c][at[c]] \in SUBSET Pods
    BY <1>0, <2>1 DEF Named, OwnedBy
  <2>3. outcome[c] = "none"
    BY <1>0, <1>5 DEF Rented, Told, Finished
  <2>4. CASE Conclude(c, "created", named[c][at[c]]) /\ (c \notin BySpec => named[c][at[c]] # {})
    BY <2>2, <2>3, <2>4 DEF Answer
  <2>5. CASE Goto(c, "settle") /\ UNCHANGED <<outcome, got>>
    BY <1>0, <1>t, <2>3, <2>5 DEF Goto, Told, Finished
  <2> QED BY <1>5, <2>4, <2>5 DEF Rented
<1>6. CASE RefusedFirst(c)
  BY <1>0, <1>6 DEF RefusedFirst, Refusal, Told, Finished
<1>7. CASE NoAnswerFirst(c)
  BY <1>0, <1>7, <1>t DEF NoAnswerFirst, Goto, Told, Finished
<1>8. CASE FoundByName(c)
  <2>1. PICK p \in NameMatches(c) :
          IF c \in Confirmed THEN Conclude(c, "unknown", {}) ELSE Conclude(c, "created", {p})
    BY <1>8 DEF FoundByName
  <2>2. outcome[c] = "none"
    BY <1>0, <1>8 DEF FoundByName, Told, Finished
  <2>3. p \in Pods /\ owner[p] \in {c} \cup Strangers(c)
    BY <2>1 DEF NameMatches, Listing, ListedExist, TypeOK, ApiTypeOK, Strangers
  <2>4. CASE c \in Confirmed
    BY <2>1, <2>2, <2>4 DEF Doubt
  <2>5. CASE c \notin Confirmed
    <3>1. Conclude(c, "created", {p}) /\ {p} \in SUBSET Pods /\ {p} # {}
      BY <2>1, <2>3, <2>5
    <3>2. {p} \subseteq OwnedBy(c) \/ \E q \in {p} : owner[q] \in Strangers(c)
      BY <2>3 DEF OwnedBy
    <3> QED BY <2>2, <2>5, <3>1, <3>2 DEF Answer
  <2> QED BY <2>4, <2>5
<1>9. CASE NotFound(c)
  <2>1. outcome[c] = "none"
    BY <1>0, <1>9 DEF NotFound, Told, Finished
  <2>2. CASE c \in BySpec /\ ~Idempotent
    BY <1>9, <2>1, <2>2 DEF NotFound, Refusal, Doubt
  <2>3. CASE ~(c \in BySpec /\ ~Idempotent)
    BY <1>0, <1>9, <1>t, <2>1, <2>3 DEF NotFound, Goto, Told, Finished
  <2> QED BY <2>2, <2>3
<1>10. CASE SendSecond(c)
  BY <1>0, <1>10, <1>t DEF SendSecond, Send, Goto, Told, Finished
<1>11. CASE SecondFailed(c)
  BY <1>0, <1>11 DEF SecondFailed, Refusal, Doubt, Told, Finished
<1>12. CASE SecondFailedBySpec(c)
  BY <1>0, <1>12, <1>t DEF SecondFailedBySpec, Refusal, Goto, Told, Finished
<1>13. CASE NotFoundLast(c)
  BY <1>0, <1>13 DEF NotFoundLast, Doubt, Told, Finished
<1>14. CASE Replay(c)
  BY <1>0, <1>14, <1>t DEF Replay, Send, Goto, Told, Finished
<1>15. CASE ReplayAnswered(c)
  <2>1. at[c] \in Attempts
    BY <1>15 DEF ReplayAnswered, TypeOK, Attempts, ApiAssumption
  <2>2. named[c][at[c]] \subseteq OwnedBy(c) /\ named[c][at[c]] \in SUBSET Pods
    BY <1>0, <2>1 DEF Named, OwnedBy
  <2>3. outcome[c] = "unknown"
    BY <1>0, <1>15 DEF ReplayAnswered, Told
  <2>4. CASE Conclude(c, "created", named[c][at[c]]) /\ named[c][at[c]] # {}
    BY <2>2, <2>3, <2>4 DEF Answer
  <2>5. CASE Conclude(c, "refused", {})
    BY <2>3, <2>5 DEF Refusal
  <2>6. CASE Goto(c, "done") /\ UNCHANGED <<outcome, got>>
    BY <1>0, <1>t, <2>3, <2>6 DEF Goto, Told, Finished
  <2> QED BY <1>15, <2>4, <2>5, <2>6 DEF ReplayAnswered
<1>16. CASE Interrupt(c)
  BY <1>16 DEF Interrupt, Break
<1>17. CASE LeaveRental(c)
  BY <1>0, <1>17, <1>t DEF LeaveRental, Goto, Told, Finished
<1> QED BY <1>1, <1>2, <1>3, <1>4, <1>5, <1>6, <1>7, <1>8, <1>9, <1>10, <1>11, <1>12,
           <1>13, <1>14, <1>15, <1>16, <1>17 DEF CallNext

LEMMA GotOfOthers ==
  ASSUME ApiAssumption, KindAssumption, TypeOK, ListedExist, NEW c \in Calls, Reports(c), CallNext(c),
         NEW d \in Calls, d # c
  PROVE  got'[d] = got[d]
BY Kinds DEF Silent, Doubt, Refusal, Answer, Break, Conclude, TypeOK

LEMMA CallReports ==
  ASSUME ApiAssumption, KindAssumption, ReportInv, NEW c \in Calls, CallNext(c)
  PROVE  ListedExist' /\ \A d \in Calls : Reports(d)'
<1>0. TypeOK /\ ListedExist /\ \A d \in Calls : Reports(d)
  BY DEF ReportInv, RentInv
<1>1. UNCHANGED <<owner, named, kept, listed>>
  BY CallFrame
<1>2. \A d \in Calls : Named(d)'
  BY <1>0, <1>1, KeptStays DEF ReportInv, Reports, Named, OwnedBy
<1>3. ASSUME NEW d \in Calls, d # c PROVE Told(d)' /\ Given(d)'
  <2>1. pc'[d] = pc[d] /\ outcome'[d] = outcome[d] /\ got'[d] = got[d]
    BY <1>0, <1>3, CallTouchesItself, GotOfOthers
  <2> QED BY <1>0, <1>1, <2>1 DEF Reports, Told, Given, OwnedBy
<1>4. Told(c)' /\ Given(c)'
  <2>0. ASSUME NEW what, NEW pods, Conclude(c, what, pods)
        PROVE  pc'[c] = "done" /\ outcome'[c] = what /\ got'[c] = pods
    BY <1>0, <2>0 DEF Conclude, Goto, TypeOK
  <2>1. CASE Silent(c) /\ Told(c)'
    BY <1>0, <1>1, <2>1 DEF Silent, Reports, Given, OwnedBy
  <2>2. CASE Doubt(c)
    BY <2>0, <2>2 DEF Doubt, Told, Given, Finished
  <2>3. CASE Refusal(c)
    BY <2>0, <2>3 DEF Refusal, Told, Given, Finished
  <2>4. CASE Answer(c)
    BY <1>1, <2>0, <2>4 DEF Answer, Told, Given, Finished, OwnedBy
  <2>5. CASE Break(c)
    BY <2>0, <2>5 DEF Break, Told, Given, Finished
  <2> QED BY <1>0, <2>1, <2>2, <2>3, <2>4, <2>5, Kinds
<1> QED BY <1>0, <1>1, <1>2, <1>3, <1>4 DEF Reports, ListedExist

LEMMA ReportInvariant == Spec => []ReportInv
<1> USE ApiAssumption, KindAssumption
<1>1. Init /\ RentInv => ReportInv
  BY InitReports DEF ReportInv
<1>2. ReportInv /\ RentInv' /\ [Next]_vars => ReportInv'
  <2> SUFFICES ASSUME ReportInv, [Next]_vars PROVE ListedExist' /\ \A d \in Calls : Reports(d)'
    BY DEF ReportInv
  <2>1. CASE ApiNext /\ UNCHANGED callVars
    BY <2>1, ApiReports
  <2>2. ASSUME NEW c \in Calls, CallNext(c) PROVE ListedExist' /\ \A d \in Calls : Reports(d)'
    BY <2>2, CallReports
  <2>3. CASE UNCHANGED vars
    BY <2>3
         DEF ReportInv, ListedExist, Reports, Named, KeptOf, Told, Given, OwnedBy, vars, apiVars,
             callVars
  <2> QED BY <2>1, <2>2, <2>3 DEF Next
<1> QED BY <1>1, <1>2, RentInvariant, PTL DEF Spec

(* With confirmed_only a pod handed back is one this very call rented, on  *)
(* an API that honours the key or not, whatever other clients create.      *)
THEOREM ConfirmedIsOurs == Spec => []ConfirmedPodIsOurs
<1>1. ReportInv => ConfirmedPodIsOurs
  BY KindAssumption DEF ReportInv, Reports, Given, ConfirmedPodIsOurs
<1> QED BY <1>1, ReportInvariant, PTL

(* No pod of a plain or confirmed rent bills behind a clear answer: the    *)
(* caller has it, or knows that nothing is established, or was handed a    *)
(* pod of another client by the name lookup, which confirmed_only excludes.*)
THEOREM NothingHidden == Spec => []NoPodUnreported
<1>1. ReportInv => NoPodUnreported
  <2> SUFFICES ASSUME ReportInv, NEW c \in Calls \ (Scoped \cup BySpec), Idempotent, pc[c] = "done",
                      OwnedBy(c) # {}, outcome[c] # "unknown"
               PROVE  \/ got[c] = OwnedBy(c)
                      \/ c \notin Confirmed
                         /\ \E p \in got[c] : owner[p] = Other \/ owner[p] \in Calls \ {c}
    BY DEF NoPodUnreported
  <2>1. TypeOK /\ CallInv(c) /\ Record(c) /\ Told(c) /\ Given(c) /\ Settled(c) /\ Maker(c)
    BY DEF ReportInv, RentInv, CallInv, ApiPart, Reports
  <2>2. outcome[c] \notin {"refused", "notSent"}
    BY <2>1 DEF Settled, NothingRents, Maker, Record, OwnedBy, Idle
  <2>3. outcome[c] = "created"
    BY <2>1, <2>2 DEF Told, TypeOK, Finished
  <2>4. \A p, q \in OwnedBy(c) : p = q
    BY <2>1 DEF Record, OwnedBy
  <2> QED BY <2>1, <2>3, <2>4 DEF Given, Strangers
<1> QED BY <1>1, ReportInvariant, PTL

(***************************************************************************)
(* The refinement.                                                         *)
(***************************************************************************)

Said(c) == IF outcome[c] = "notSent" THEN "refused" ELSE outcome[c]
RentedMap == [c \in Confirmed |-> OwnedBy(c)]
SaidMap == [c \in Confirmed |-> Said(c)]
GivenMap == [c \in Confirmed |-> got[c]]

(* A request that runs belongs to a call whose caller knows nothing yet.   *)
LEMMA RunningInDoubt ==
  ASSUME KindAssumption, ReportInv, Idempotent, NEW c \in Confirmed, NEW n \in Attempts,
         http[c][n] = "running"
  PROVE  outcome[c] \in {"none", "unknown"} /\ OwnedBy(c) = {}
<1>1. c \in Calls /\ c \notin Scoped /\ c \notin BySpec
  BY DEF KindAssumption
<1>2. TypeOK /\ Record(c) /\ Settled(c) /\ Told(c) /\ Given(c)
  BY <1>1 DEF ReportInv, RentInv, CallInv, ApiPart, Reports
<1>3. KeyOf(c) = "pending" /\ OwnedBy(c) = {}
  BY <1>2 DEF Record, OwnedBy
<1>4. outcome[c] \notin {"refused", "notSent"}
  BY <1>2, <1>3 DEF Settled, NothingRents, Idle
<1>5. outcome[c] # "created" /\ outcome[c] # "interrupted"
  BY <1>1, <1>2, <1>3 DEF Given, Told
<1> QED BY <1>1, <1>2, <1>3, <1>4, <1>5 DEF TypeOK

LEMMA ApiRefines ==
  ASSUME ApiAssumption, KindAssumption, ReportInv, Idempotent, ApiNext, UNCHANGED callVars
  PROVE  [Contract!ContractNext]_<<RentedMap, SaidMap, GivenMap>>
<1>0. TypeOK
  BY DEF ReportInv, RentInv
<1>1. SaidMap' = SaidMap /\ GivenMap' = GivenMap
  BY DEF callVars, SaidMap, GivenMap, Said
<1>2. ASSUME NEW c \in Calls, NEW n \in Attempts, NEW p \in Pods, MakePod(c, n, p), c \in Confirmed
      PROVE  Contract!RentPod(c, p)
  <2>1. /\ http[c][n] = "running" /\ owner[p] = Nobody /\ owner' = [owner EXCEPT ![p] = c]
    BY <1>2 DEF MakePod
  <2>2. outcome[c] \in {"none", "unknown"} /\ OwnedBy(c) = {}
    BY <1>2, <2>1, RunningInDoubt
  <2>3. \A d \in Confirmed : p \notin OwnedBy(d)
    BY <2>1 DEF OwnedBy, ApiAssumption, KindAssumption
  <2>4. \A d \in Calls : OwnedBy(d)' = OwnedBy(d) \cup (IF d = c THEN {p} ELSE {})
    BY <1>0, <2>1 DEF OwnedBy, TypeOK, ApiTypeOK, ApiAssumption
  <2>5. RentedMap' = [RentedMap EXCEPT ![c] = {p}]
    BY <2>2, <2>4, KindAssumption DEF RentedMap, KindAssumption
  <2> QED BY <1>1, <1>2, <2>2, <2>3, <2>5 DEF Contract!RentPod, RentedMap, SaidMap, GivenMap, Said
<1>3. ASSUME \A c \in Confirmed : OwnedBy(c)' = OwnedBy(c)
      PROVE  UNCHANGED <<RentedMap, SaidMap, GivenMap>>
  BY <1>1, <1>3 DEF RentedMap
<1>4. ASSUME NEW c \in Calls, NEW n \in Attempts, NEW p \in Pods, MakePod(c, n, p)
      PROVE  [Contract!ContractNext]_<<RentedMap, SaidMap, GivenMap>>
  <2>1. CASE c \in Confirmed
    BY <1>2, <1>4, <2>1 DEF Contract!ContractNext
  <2>2. CASE c \notin Confirmed
    <3>1. \A d \in Confirmed : OwnedBy(d)' = OwnedBy(d)
      BY <1>0, <1>4, <2>2 DEF MakePod, OwnedBy, TypeOK, ApiTypeOK, ApiAssumption, KindAssumption
    <3> QED BY <1>3, <3>1
  <2> QED BY <2>1, <2>2
<1>5. ASSUME NEW p \in Pods, OtherRents(p) PROVE UNCHANGED <<RentedMap, SaidMap, GivenMap>>
  <2>1. \A d \in Confirmed : OwnedBy(d)' = OwnedBy(d)
    BY <1>0, <1>5 DEF OtherRents, OwnedBy, TypeOK, ApiTypeOK, ApiAssumption, KindAssumption
  <2> QED BY <1>3, <2>1
<1>6. owner' = owner => UNCHANGED <<RentedMap, SaidMap, GivenMap>>
  BY <1>3 DEF OwnedBy
<1> QED BY <1>4, <1>5, <1>6 DEF ApiNext, TurnAway, Accept, Repeat, EndWithoutPod, Appear

LEMMA CallRefines ==
  ASSUME ApiAssumption, KindAssumption, ReportInv, RentInv', Idempotent, NEW c \in Calls, CallNext(c)
  PROVE  [Contract!ContractNext]_<<RentedMap, SaidMap, GivenMap>>
<1>0. /\ TypeOK /\ ListedExist /\ Reports(c) /\ Confirmed \subseteq Calls
      /\ outcome \in [Calls -> {"none", "notSent", "refused", "unknown", "created", "interrupted"}]
      /\ got \in [Calls -> SUBSET Pods]
  BY DEF ReportInv, RentInv, TypeOK, KindAssumption
<1>1. RentedMap' = RentedMap
  BY CallFrame DEF RentedMap, OwnedBy
<1>2. CASE c \notin Confirmed
  <2>1. \A d \in Confirmed : outcome'[d] = outcome[d] /\ got'[d] = got[d]
    BY <1>0, <1>2, CallTouchesItself, GotOfOthers
  <2> QED BY <1>1, <2>1 DEF SaidMap, GivenMap, Said
<1>3. CASE c \in Confirmed
  <2>0. /\ c \notin BySpec /\ c \notin Scoped /\ Record(c) /\ Told(c)
        /\ RentedMap[c] = OwnedBy(c) /\ SaidMap[c] = Said(c)
    BY <1>3 DEF KindAssumption, ReportInv, RentInv, CallInv, ApiPart, Reports, RentedMap, SaidMap
  <2>1. ASSUME NEW what, NEW pods, Conclude(c, what, pods)
        PROVE  /\ outcome'[c] = what /\ pc'[c] = "done"
               /\ SaidMap' = [SaidMap EXCEPT ![c] = IF what = "notSent" THEN "refused" ELSE what]
               /\ GivenMap' = [GivenMap EXCEPT ![c] = pods]
    BY <1>0, <1>3, <2>1 DEF Conclude, Goto, SaidMap, GivenMap, Said, TypeOK
  <2>2. CASE Silent(c)
    BY <1>1, <2>2 DEF Silent, SaidMap, GivenMap, Said
  <2>3. CASE Doubt(c)
    <3>1. outcome[c] = "none" /\ GivenMap' = [GivenMap EXCEPT ![c] = {}]
      BY <2>1, <2>3 DEF Doubt
    <3>2. GivenMap[c] = {}
      BY <1>3, <2>0, <3>1 DEF Told, GivenMap
    <3>3. GivenMap' = GivenMap
      BY <3>1, <3>2 DEF GivenMap
    <3> QED BY <1>1, <1>3, <2>0, <2>1, <2>3, <3>3
         DEF Doubt, Contract!ContractNext, Contract!SayUnknown, SaidMap, RentedMap, GivenMap, Said
  <2>4. CASE Refusal(c)
    <3>1. PICK what \in {"refused", "notSent"} : Conclude(c, what, {})
      BY <2>4 DEF Refusal
    <3>2. GivenMap' = GivenMap
      <4>1. GivenMap' = [GivenMap EXCEPT ![c] = {}]
        BY <2>1, <3>1
      <4>2. got[c] = {}
        BY <2>0, <2>4 DEF Refusal, Told
      <4> QED BY <1>3, <4>1, <4>2 DEF GivenMap
    <3>3. OwnedBy(c) = {}
      <4>1. Settled(c)' /\ Maker(c)' /\ Record(c)'
        BY DEF RentInv, CallInv, ApiPart
      <4>2. OwnedBy(c)' = {}
        BY <2>1, <3>1, <4>1 DEF Settled, NothingRents, Maker, Record, OwnedBy, Idle
      <4> QED BY <4>2, CallFrame DEF OwnedBy
    <3> QED BY <1>1, <1>3, <2>0, <2>1, <2>4, <3>1, <3>2, <3>3
         DEF Refusal, Contract!ContractNext, Contract!SayRefused, SaidMap, RentedMap, GivenMap, Said
  <2>5. CASE Answer(c)
    <3>1. PICK pods \in SUBSET Pods :
             /\ Conclude(c, "created", pods) /\ pods # {} /\ pods \subseteq OwnedBy(c)
      BY <1>3, <2>0, <2>5 DEF Answer
    <3>2. pods = OwnedBy(c)
      BY <2>0, <3>1 DEF Record, OwnedBy
    <3> QED BY <1>1, <1>3, <2>0, <2>1, <2>5, <3>1, <3>2
         DEF Answer, Contract!ContractNext, Contract!GivePod, SaidMap, RentedMap, GivenMap, Said
  <2>6. CASE Break(c)
    BY <2>0, <2>6 DEF Break
  <2> QED BY <1>0, <2>2, <2>3, <2>4, <2>5, <2>6, Kinds
<1> QED BY <1>2, <1>3

(* On an API that honours the key, the protocol keeps RentContract for     *)
(* every confirmed call: one pod per call, rented while the caller knows   *)
(* nothing or is left in doubt, never after a refusal, and only that pod   *)
(* is ever handed back.                                                    *)
THEOREM ProtocolKeepsContract == ASSUME Idempotent PROVE Spec => ContractKept
<1> USE ApiAssumption, KindAssumption
<1>1. Init => Contract!ContractInit
  BY DEF Init, ApiInit, Contract!ContractInit, OwnedBy
<1>2. ReportInv /\ RentInv'
      /\ [Next]_vars => [Contract!ContractNext]_<<RentedMap, SaidMap, GivenMap>>
  <2> SUFFICES ASSUME ReportInv, RentInv', [Next]_vars
               PROVE  [Contract!ContractNext]_<<RentedMap, SaidMap, GivenMap>>
    OBVIOUS
  <2>1. CASE ApiNext /\ UNCHANGED callVars
    BY <2>1, ApiRefines
  <2>2. ASSUME NEW c \in Calls, CallNext(c)
        PROVE  [Contract!ContractNext]_<<RentedMap, SaidMap, GivenMap>>
    BY <2>2, CallRefines
  <2>3. CASE UNCHANGED vars
    BY <2>3 DEF vars, apiVars, callVars, RentedMap, SaidMap, GivenMap, Said, OwnedBy
  <2> QED BY <2>1, <2>2, <2>3 DEF Next
<1>3. ReportInv /\ RentInv' /\ [Next]_vars => [Contract!ContractNext]_Contract!contractVars
  BY <1>2 DEF Contract!contractVars, RentedMap, SaidMap, GivenMap, Said
<1> QED BY <1>1, <1>3, RentInvariant, ReportInvariant, PTL
        DEF Spec, ContractKept, Contract!ContractSpec
===============================================================================
