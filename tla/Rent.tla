--------------------------------- MODULE Rent ---------------------------------
(***************************************************************************)
(* The SDK's rent protocol (src/lium/sdk/client.py): Lium.up() -> _rent(), *)
(* Lium.rent() -> _rent_on_server(), the replay of an unanswered rent      *)
(* (_replay_rent) and the scoped form rental(), against RentApi.           *)
(*                                                                         *)
(* One POST is never repeated blindly: after a lost answer the call looks  *)
(* for a new pod of its name, sends the request once more with the same    *)
(* key and otherwise reports the outcome as unknown.  The listing attempts *)
(* of one lookup (`attempts=3`) are one step that finds a pod or misses.   *)
(***************************************************************************)
EXTENDS RentApi

CONSTANTS
  Confirmed,   \* up(confirmed_only=True): a pod found by name is not an answer
  Scoped       \* the calls of rental(), which removes its pod at the end

ASSUME KindAssumption ==
  /\ Confirmed \subseteq Calls /\ Scoped \subseteq Calls
  /\ Confirmed \cap Scoped = {} /\ BySpec \cap (Confirmed \cup Scoped) = {}

VARIABLES
  pc,        \* where the call is
  at,        \* requests sent so far; the last one is the one waited for
  first,     \* why the first request has no answer
  known,     \* known_pod_ids: the pods listed just before the rent
  outcome,   \* what the caller was told
  got,       \* the pod the caller was given
  before,    \* rental(): pods_before
  canSweep,  \* rental(): that listing worked
  swept      \* swept[c]: pods the cleanup of call c removed

callVars == <<pc, at, first, known, outcome, got, before, canSweep, swept>>
vars == <<apiVars, callVars>>

Gone == UNION {swept[c] : c \in Calls}
Listing == listed \ Gone

(* The rows _find_pod_info_by_name accepts, and the stricter rows that     *)
(* _remove_strays removes.                                                 *)
NameMatches(c) ==
  {p \in Listing \ known[c] :
      look[p] \in IF c \in BySpec THEN {"same", "elsewhere"} ELSE {"same", "bare"}}
Strays(c) == {p \in Listing \ before[c] : look[p] = "same"}

(* Faulty variants, named ...Faulty, precede the definition they vary; no  *)
(* action uses them.  Here: a 5xx taken for a refusal.                     *)
RefusalsFaulty == {"denied", "refused", "storedRefusal", "storedDenial", "busy", "error"}

Refusals == {"denied", "refused", "storedRefusal", "storedDenial", "busy"}
Denials == {"denied", "storedDenial"}
Finished == {"done", "left"}

TypeOK ==
  /\ ApiTypeOK
  /\ pc \in [Calls -> {"begin", "start", "ready", "post1", "look", "again",
                       "post2", "settle", "replay"} \cup Finished]
  /\ at \in [Calls -> 0..MaxPosts]
  /\ first \in [Calls -> {"none", "limited", "lost"}]
  /\ known \in [Calls -> SUBSET Pods]
  /\ outcome \in [Calls -> {"none", "notSent", "refused", "unknown", "created", "interrupted"}]
  /\ got \in [Calls -> SUBSET Pods]
  /\ before \in [Calls -> SUBSET Pods]
  /\ canSweep \in [Calls -> BOOLEAN]
  /\ swept \in [Calls -> SUBSET Pods]
  /\ \A c \in Calls : pc[c] \in {"post1", "post2", "replay"} => at[c] >= 1

Init ==
  /\ ApiInit
  /\ pc = [c \in Calls |-> IF c \in Scoped THEN "begin" ELSE "start"]
  /\ at = [c \in Calls |-> 0]
  /\ first = [c \in Calls |-> "none"]
  /\ known = [c \in Calls |-> {}]
  /\ outcome = [c \in Calls |-> "none"]
  /\ got = [c \in Calls |-> {}]
  /\ before = [c \in Calls |-> {}]
  /\ canSweep = [c \in Calls |-> FALSE]
  /\ swept = [c \in Calls |-> {}]

Goto(c, label) == pc' = [pc EXCEPT ![c] = label]

(* The call ends: it returns the pods in `pods`, or raises.                *)
Conclude(c, what, pods) ==
  /\ Goto(c, "done")
  /\ outcome' = [outcome EXCEPT ![c] = what]
  /\ got' = [got EXCEPT ![c] = pods]

(* Faulty: the request leaves without being counted.                       *)
SendFaulty(c, label, k) ==
  /\ at[c] < MaxPosts
  /\ http' = [http EXCEPT ![c][at[c] + 1] = "sent"]
  /\ under' = [under EXCEPT ![c][at[c] + 1] = k]
  /\ Goto(c, label)
  /\ UNCHANGED <<at, named, key, kept, owner, look, listed>>

(* The next request of call c leaves, under key k.                         *)
Send(c, label, k) ==
  /\ at[c] < MaxPosts
  /\ at' = [at EXCEPT ![c] = @ + 1]
  /\ http' = [http EXCEPT ![c][at[c] + 1] = "sent"]
  /\ under' = [under EXCEPT ![c][at[c] + 1] = k]
  /\ Goto(c, label)
  /\ UNCHANGED <<named, key, kept, owner, look, listed>>

(* A random UUID: no request carries it yet.                               *)
NewKey(k) == \A c \in Calls, n \in Attempts : under[c][n] # k

rentalVars == <<before, canSweep, swept>>

(* rental(): the ids snapshot of the failure path; None when ps() fails.   *)
OpenRental(c) ==
  /\ pc[c] = "begin"
  /\ \/ before' = [before EXCEPT ![c] = Listing] /\ canSweep' = [canSweep EXCEPT ![c] = TRUE]
     \/ UNCHANGED <<before, canSweep>>
  /\ Goto(c, "start")
  /\ UNCHANGED <<apiVars, at, first, known, outcome, got, swept>>

(* Nothing was sent: a failed precondition or journal write.               *)
FailBefore(c) ==
  /\ pc[c] \in {"start", "ready"}
  /\ Conclude(c, "notSent", {})
  /\ UNCHANGED <<apiVars, at, first, known, rentalVars>>

(* _pod_ids_before_rent(): empty when the listing fails.                   *)
Snapshot(c) ==
  /\ pc[c] = "start"
  /\ \E seen \in {Listing, {}} : known' = [known EXCEPT ![c] = seen]
  /\ Goto(c, "ready")
  /\ UNCHANGED <<apiVars, at, first, outcome, got, rentalVars>>

(* The call draws its key before the first request leaves.                 *)
SendFirst(c) ==
  /\ pc[c] = "ready"
  /\ \E k \in Keys : NewKey(k) /\ Send(c, "post1", k)
  /\ UNCHANGED <<first, known, outcome, got, rentalVars>>

(* A 2xx with an id is the pod; one without is settled by a lookup, except *)
(* for rent-by-spec, which returns the result without a pod.               *)
Rented(c) ==
  /\ pc[c] \in {"post1", "post2"} /\ http[c][at[c]] = "ok"
  /\ IF named[c][at[c]] # {} \/ c \in BySpec
       THEN Conclude(c, "created", named[c][at[c]])
       ELSE Goto(c, "settle") /\ UNCHANGED <<outcome, got>>
  /\ UNCHANGED <<apiVars, at, first, known, rentalVars>>

(* A definite refusal of the only request that was sent.                   *)
RefusedFirst(c) ==
  /\ pc[c] = "post1" /\ http[c][1] \in Refusals
  /\ Conclude(c, "refused", {})
  /\ UNCHANGED <<apiVars, at, first, known, rentalVars>>

(* 429, or no usable answer: a 5xx, a timeout, a body that does not parse. *)
NoAnswerFirst(c) ==
  /\ pc[c] = "post1"
  /\ \/ http[c][1] = "limited" /\ first' = [first EXCEPT ![c] = "limited"]
     \/ first' = [first EXCEPT ![c] = "lost"]
  /\ Goto(c, "look")
  /\ UNCHANGED <<apiVars, at, known, outcome, got, rentalVars>>

(* Faulty: the name is taken as proof although the caller ruled that out.  *)
FoundByNameFaulty(c) ==
  /\ pc[c] \in {"look", "settle"}
  /\ \E p \in NameMatches(c) : Conclude(c, "created", {p})
  /\ UNCHANGED <<apiVars, at, first, known, rentalVars>>

(* A new pod of that name is listed.  The name proves nothing, which is    *)
(* why confirmed_only makes it a candidate of an unknown outcome.          *)
FoundByName(c) ==
  /\ pc[c] \in {"look", "settle"}
  /\ \E p \in NameMatches(c) :
        IF c \in Confirmed THEN Conclude(c, "unknown", {}) ELSE Conclude(c, "created", {p})
  /\ UNCHANGED <<apiVars, at, first, known, rentalVars>>

(* Not listed yet, or the listing failed too.  rent-by-spec repeats only   *)
(* on an API that honours the key; else the first error propagates.        *)
NotFound(c) ==
  /\ pc[c] = "look"
  /\ IF c \in BySpec /\ ~Idempotent
       THEN Conclude(c, IF first[c] = "limited" THEN "refused" ELSE "unknown", {})
       ELSE Goto(c, "again") /\ UNCHANGED <<outcome, got>>
  /\ UNCHANGED <<apiVars, at, first, known, rentalVars>>

(* Faulty: the repeat leaves under a key of its own.                       *)
SendSecondFaulty(c) ==
  /\ pc[c] = "again"
  /\ \E k \in Keys : NewKey(k) /\ Send(c, "post2", k)
  /\ UNCHANGED <<first, known, outcome, got, rentalVars>>

(* The same request again: same body, same key.                            *)
SendSecond(c) ==
  /\ pc[c] = "again" /\ Send(c, "post2", under[c][1])
  /\ UNCHANGED <<first, known, outcome, got, rentalVars>>

(* Faulty: a refusal of the repeat taken for the answer to both requests.  *)
SecondFailedFaulty(c) ==
  /\ pc[c] = "post2" /\ c \notin BySpec
  /\ \/ http[c][2] \in Refusals \cup {"limited"} /\ Conclude(c, "refused", {})
     \/ Conclude(c, "unknown", {})
  /\ UNCHANGED <<apiVars, at, first, known, rentalVars>>

(* up(): the repeat failed.  Both requests refused outright is a refusal;  *)
(* otherwise one of them went unanswered and nothing is established (the   *)
(* answer to the second can be lost on the way too).                       *)
SecondFailed(c) ==
  /\ pc[c] = "post2" /\ c \notin BySpec
  /\ \/ /\ first[c] = "limited" /\ http[c][2] \in Refusals \cup {"limited"}
        /\ Conclude(c, "refused", {})
     \/ Conclude(c, "unknown", {})
  /\ UNCHANGED <<apiVars, at, first, known, rentalVars>>

(* rent(): a refusal of the repeat is the key's answer, except one that    *)
(* only refuses the repeat (auth, balance) or says "in progress"; those    *)
(* and a lost answer are looked up once more.                              *)
SecondFailedBySpec(c) ==
  /\ pc[c] = "post2" /\ c \in BySpec
  /\ \/ /\ http[c][2] \in Refusals \ (Denials \cup {"busy"})
        /\ Conclude(c, "refused", {})
     \/ Goto(c, "settle") /\ UNCHANGED <<outcome, got>>
  /\ UNCHANGED <<apiVars, at, first, known, rentalVars>>

NotFoundLast(c) ==
  /\ pc[c] = "settle"
  /\ Conclude(c, "unknown", {})
  /\ UNCHANGED <<apiVars, at, first, known, rentalVars>>

(* _replay_rent(): sent by the MCP server for a confirmed_only rent whose  *)
(* outcome is unknown, on an API that honours the key: under the key that  *)
(* the exception carries.                                                  *)
Replay(c) ==
  /\ pc[c] = "done" /\ outcome[c] = "unknown" /\ c \in Confirmed /\ Idempotent
  /\ Send(c, "replay", under[c][1])
  /\ UNCHANGED <<first, known, outcome, got, rentalVars>>

(* Faulty: any refusal of the replay settles the rent.                     *)
ReplayAnsweredFaulty(c) ==
  /\ pc[c] = "replay"
  /\ \/ /\ http[c][at[c]] = "ok" /\ named[c][at[c]] # {}
        /\ Conclude(c, "created", named[c][at[c]])
     \/ http[c][at[c]] \in Refusals \ {"busy"} /\ Conclude(c, "refused", {})
     \/ Goto(c, "done") /\ UNCHANGED <<outcome, got>>
  /\ UNCHANGED <<apiVars, at, first, known, rentalVars>>

(* Only the stored refusal of the first request proves it rented nothing;  *)
(* anything but that and a named pod, no answer included, leaves the       *)
(* outcome unknown.                                                        *)
ReplayAnswered(c) ==
  /\ pc[c] = "replay"
  /\ \/ /\ http[c][at[c]] = "ok" /\ named[c][at[c]] # {}
        /\ Conclude(c, "created", named[c][at[c]])
     \/ /\ http[c][at[c]] \in {"storedRefusal", "storedDenial"}
        /\ Conclude(c, "refused", {})
     \/ Goto(c, "done") /\ UNCHANGED <<outcome, got>>
  /\ UNCHANGED <<apiVars, at, first, known, rentalVars>>

(* Ctrl-C inside rental(): the finally block still runs.                   *)
Interrupt(c) ==
  /\ c \in Scoped /\ pc[c] \notin Finished \cup {"begin"}
  /\ Conclude(c, "interrupted", {})
  /\ UNCHANGED <<apiVars, at, first, known, rentalVars>>

(* The end of a rental(): the pod the rent returned is deleted, or, when   *)
(* the rent raised after a request left, every new pod of that name on     *)
(* that node.  A DELETE or the listing may fail; that is only warned of.   *)
LeaveRental(c) ==
  /\ c \in Scoped /\ pc[c] = "done"
  /\ \E removed \in SUBSET (IF outcome[c] = "created" THEN got[c]
                            ELSE IF at[c] > 0 /\ canSweep[c] THEN Strays(c) ELSE {}) :
        swept' = [swept EXCEPT ![c] = removed]
  /\ Goto(c, "left")
  /\ UNCHANGED <<apiVars, at, first, known, outcome, got, before, canSweep>>

CallNext(c) ==
  \/ OpenRental(c) \/ FailBefore(c) \/ Snapshot(c) \/ SendFirst(c) \/ Rented(c)
  \/ RefusedFirst(c) \/ NoAnswerFirst(c) \/ FoundByName(c) \/ NotFound(c)
  \/ SendSecond(c) \/ SecondFailed(c) \/ SecondFailedBySpec(c) \/ NotFoundLast(c)
  \/ Replay(c) \/ ReplayAnswered(c)
  \/ Interrupt(c) \/ LeaveRental(c)

Next == (ApiNext /\ UNCHANGED callVars) \/ \E c \in Calls : CallNext(c)

Spec == Init /\ [][Next]_vars

(***************************************************************************)
(* What the callers rely on.                                               *)
(***************************************************************************)

(* A rent reported as refused, or as never sent, rented nothing: no pod of *)
(* the call exists now, and none may ever appear (late requests of the     *)
(* call included), since the caller then rents elsewhere without a check.  *)
RefusedRentedNothing ==
  \A c \in Calls : outcome[c] \in {"refused", "notSent"} => OwnedBy(c) = {}

(* One call bills one pod, however its requests, the repeat after a lost   *)
(* answer and the replays run, time out and answer: they all go under the  *)
(* one key the call drew, and that key is no other call's.                 *)
OnePodPerCall ==
  Idempotent => \A c \in Calls : \A p, q \in OwnedBy(c) : p = q

(* With confirmed_only a pod handed back is the pod this call rented, even *)
(* while other clients create pods of the same name on the same node.      *)
ConfirmedPodIsOurs ==
  \A c \in Confirmed : outcome[c] = "created" => got[c] # {} /\ got[c] \subseteq OwnedBy(c)

(* A pod that bills is never hidden behind a clear answer: once a plain or *)
(* confirmed rent is over, its pod was handed back, or the outcome is      *)
(* "unknown", or the name lookup handed back another client's pod (which   *)
(* confirmed_only excludes).  rental() calls clean up instead.             *)
NoPodUnreported ==
  \A c \in Calls \ (Scoped \cup BySpec) :
    Idempotent /\ pc[c] = "done" /\ OwnedBy(c) # {} =>
      \/ outcome[c] = "unknown"
      \/ got[c] = OwnedBy(c)
      \/ c \notin Confirmed /\ \E p \in got[c] : owner[p] = Other \/ owner[p] \in Calls \ {c}

(* The comment above the snapshot in rental() (client.py:1874): the ids    *)
(* snapshot lets it remove "only a pod that appeared during this call,     *)
(* never an older one that happens to carry the same name".                *)
RentalSparesOlderPods ==
  \A c \in Scoped : swept[c] \cap before[c] = {}

(* The protocol keeps the promise of RentContract: a pod belongs to the    *)
(* contract's `rented`, the outcome is what was said.                      *)
Contract == INSTANCE RentContract WITH
  Calls <- Confirmed,
  rented <- [c \in Confirmed |-> OwnedBy(c)],
  said <- [c \in Confirmed |-> IF outcome[c] = "notSent" THEN "refused" ELSE outcome[c]],
  given <- [c \in Confirmed |-> got[c]]

ContractKept == Contract!ContractSpec
===============================================================================
