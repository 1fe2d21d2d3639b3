------------------------------- MODULE RentApi -------------------------------
(***************************************************************************)
(* The Lium API as the SDK's rent calls see it (the service itself is not   *)
(* part of the repository): rent requests that are on their way, running   *)
(* or answered, the stored answer of an Idempotency-Key, the pods that     *)
(* exist and the pods a listing shows.  Which key a request carries is the *)
(* client's doing; the API knows a repeat by its key alone.                *)
(*                                                                         *)
(* A request that the client stopped waiting for stays where it is: the    *)
(* API may still run it, which is what makes a lost answer dangerous.      *)
(***************************************************************************)
EXTENDS Naturals

CONSTANTS
  Calls,       \* rent calls
  Keys,        \* values of the Idempotency-Key header
  NoKey,       \* in place of the key of a request that has not left
  Pods,        \* pod ids the API may hand out
  MaxPosts,    \* bound: requests one call may send, replays included
  Idempotent,  \* the API honours the key (feature "rent_idempotency")
  BySpec,      \* the calls of Lium.rent(): the API picks the node
  Nobody,      \* owner of an id that is not a pod yet
  Other        \* owner of a pod rented by another client of the account

ASSUME ApiAssumption ==
  /\ MaxPosts \in Nat /\ MaxPosts >= 2
  /\ Idempotent \in BOOLEAN
  /\ BySpec \subseteq Calls
  /\ NoKey \notin Keys
  /\ Nobody \notin Calls /\ Other \notin Calls /\ Nobody # Other

VARIABLES
  http,    \* http[c][n]: what has become of the n-th request of call c
  under,   \* under[c][n]: the Idempotency-Key it carries
  named,   \* named[c][n]: the pod id in its answer, if any
  key,     \* key[k]: the API's record of key k
  kept,    \* kept[k]: the pod id in the answer stored under k, if any
  owner,   \* owner[p]: whose request made pod p
  look,    \* look[p]: how p's row compares with the name and node asked for
  listed   \* pods the listing shows by now

apiVars == <<http, under, named, key, kept, owner, look, listed>>

Attempts == 1..MaxPosts

(* "same": this name on this node; "bare": this name, no node in the row;  *)
(* "elsewhere": this name on another node.  A row of another name matches  *)
(* no lookup and is left out.                                              *)
Looks == {"same", "bare", "elsewhere"}

(* Answers: "limited" is 429, "denied" 401/402/403, "refused" any other    *)
(* 4xx, "error" a 5xx; "stored..." are repeats of a refusal the API marks  *)
(* Idempotent-Replayed, "busy" the idempotency_in_progress and             *)
(* idempotency_outcome_unknown 409s.                                       *)
Status == {"unsent", "sent", "running", "ok", "limited", "denied", "refused",
           "error", "storedRefusal", "storedDenial", "busy"}

OwnedBy(c) == {p \in Pods : owner[p] = c}

ApiTypeOK ==
  /\ http \in [Calls -> [Attempts -> Status]]
  /\ under \in [Calls -> [Attempts -> Keys \cup {NoKey}]]
  /\ named \in [Calls -> [Attempts -> SUBSET Pods]]
  /\ key \in [Keys -> {"free", "pending", "failed", "refused", "made"}]
  /\ kept \in [Keys -> SUBSET Pods]
  /\ owner \in [Pods -> Calls \cup {Nobody, Other}]
  /\ look \in [Pods -> Looks]
  /\ listed \subseteq Pods

ApiInit ==
  /\ http = [c \in Calls |-> [n \in Attempts |-> "unsent"]]
  /\ under = [c \in Calls |-> [n \in Attempts |-> NoKey]]
  /\ named = [c \in Calls |-> [n \in Attempts |-> {}]]
  /\ key = [k \in Keys |-> "free"]
  /\ kept = [k \in Keys |-> {}]
  /\ owner = [p \in Pods |-> Nobody]
  /\ look = [p \in Pods |-> "bare"]
  /\ listed = {}

Answers(c, n, answer) == http' = [http EXCEPT ![c][n] = answer]

(* Turned away before it is looked at: rate limit, authentication or       *)
(* balance check, or a 5xx of the edge.  Nothing ran.                      *)
TurnAway(c, n) ==
  /\ http[c][n] = "sent"
  /\ \E answer \in {"limited", "denied", "error"} : Answers(c, n, answer)
  /\ UNCHANGED <<under, named, key, kept, owner, look, listed>>

(* The rent starts; an API that honours the key takes it only once.        *)
Accept(c, n) ==
  /\ http[c][n] = "sent"
  /\ Idempotent => key[under[c][n]] = "free"
  /\ Answers(c, n, "running")
  /\ key' = IF Idempotent THEN [key EXCEPT ![under[c][n]] = "pending"] ELSE key
  /\ UNCHANGED <<under, named, kept, owner, look, listed>>

(* The key is known: its stored answer, or a 409 while there is none.      *)
Repeat(c, n) ==
  /\ http[c][n] = "sent"
  /\ Idempotent /\ key[under[c][n]] # "free"
  /\ \/ key[under[c][n]] \in {"pending", "failed"} /\ Answers(c, n, "busy") /\ UNCHANGED named
     \/ /\ key[under[c][n]] = "refused"
        /\ \E answer \in {"storedRefusal", "storedDenial"} : Answers(c, n, answer)
        /\ UNCHANGED named
     \/ /\ key[under[c][n]] = "made"
        /\ Answers(c, n, "ok")
        /\ named' = [named EXCEPT ![c][n] = kept[under[c][n]]]
  /\ UNCHANGED <<under, key, kept, owner, look, listed>>

(* The rent makes pod p.  The answer names it, or is a 2xx without an id,  *)
(* or a 5xx: then the key's record is the pod or stays without an answer.  *)
MakePod(c, n, p) ==
  /\ http[c][n] = "running" /\ owner[p] = Nobody
  /\ owner' = [owner EXCEPT ![p] = c]
  /\ \E seen \in (IF c \in BySpec THEN Looks ELSE {"same", "bare"}) :
        look' = [look EXCEPT ![p] = seen]
  /\ \/ \E id \in {{p}, {}} :
          /\ Answers(c, n, "ok")
          /\ named' = [named EXCEPT ![c][n] = id]
          /\ key' = IF Idempotent THEN [key EXCEPT ![under[c][n]] = "made"] ELSE key
          /\ kept' = [kept EXCEPT ![under[c][n]] = id]
     \/ \E record \in {"made", "failed"} :
          /\ Answers(c, n, "error")
          /\ key' = IF Idempotent THEN [key EXCEPT ![under[c][n]] = record] ELSE key
          /\ kept' = [kept EXCEPT ![under[c][n]] = {p}]
          /\ UNCHANGED named
  /\ UNCHANGED <<under, listed>>

(* The rent ends without a pod: refused (and stored), or a 5xx.            *)
EndWithoutPod(c, n) ==
  /\ http[c][n] = "running"
  /\ \/ /\ \E answer \in {"refused", "denied"} : Answers(c, n, answer)
        /\ key' = IF Idempotent THEN [key EXCEPT ![under[c][n]] = "refused"] ELSE key
     \/ /\ Answers(c, n, "error")
        /\ key' = IF Idempotent THEN [key EXCEPT ![under[c][n]] = "failed"] ELSE key
  /\ UNCHANGED <<under, named, kept, owner, look, listed>>

(* Another client of the account rents a pod.                              *)
OtherRents(p) ==
  /\ owner[p] = Nobody
  /\ owner' = [owner EXCEPT ![p] = Other]
  /\ \E seen \in Looks : look' = [look EXCEPT ![p] = seen]
  /\ UNCHANGED <<http, under, named, key, kept, listed>>

(* A pod's row reaches the listing, some time after the pod is made.       *)
Appear(p) ==
  /\ owner[p] # Nobody /\ p \notin listed
  /\ listed' = listed \cup {p}
  /\ UNCHANGED <<http, under, named, key, kept, owner, look>>

ApiNext ==
  \/ \E c \in Calls, n \in Attempts :
        \/ TurnAway(c, n) \/ Accept(c, n) \/ Repeat(c, n) \/ EndWithoutPod(c, n)
        \/ \E p \in Pods : MakePod(c, n, p)
  \/ \E p \in Pods : OtherRents(p) \/ Appear(p)
==============================================================================
