----------------------------- MODULE RentContract -----------------------------
(***************************************************************************)
(* What up(confirmed_only=True) and its replays promise their caller on an *)
(* API that honours the Idempotency-Key, with no request, answer, key or   *)
(* listing in sight: a call rents at most one pod; "refused" is said only  *)
(* of a call that rented nothing and never will; a pod is named only when  *)
(* this very call rented it; anything else is "unknown", and an unknown    *)
(* outcome may still be settled either way.                                *)
(***************************************************************************)
CONSTANTS Calls, Pods

VARIABLES
  rented,  \* rented[c]: the pods made for call c
  said,    \* said[c]: what its caller was told
  given    \* given[c]: the pods its caller was given

contractVars == <<rented, said, given>>

ContractInit ==
  /\ rented = [c \in Calls |-> {}]
  /\ said = [c \in Calls |-> "none"]
  /\ given = [c \in Calls |-> {}]

(* The API makes the call's one pod: before the caller is told anything or *)
(* while it is left in doubt, never after a refusal.                       *)
RentPod(c, p) ==
  /\ said[c] \in {"none", "unknown"} /\ rented[c] = {}
  /\ \A d \in Calls : p \notin rented[d]
  /\ rented' = [rented EXCEPT ![c] = {p}]
  /\ UNCHANGED <<said, given>>

SayRefused(c) ==
  /\ said[c] \in {"none", "unknown"} /\ rented[c] = {}
  /\ said' = [said EXCEPT ![c] = "refused"]
  /\ UNCHANGED <<rented, given>>

SayUnknown(c) ==
  /\ said[c] = "none"
  /\ said' = [said EXCEPT ![c] = "unknown"]
  /\ UNCHANGED <<rented, given>>

GivePod(c) ==
  /\ said[c] \in {"none", "unknown"} /\ rented[c] # {}
  /\ said' = [said EXCEPT ![c] = "created"]
  /\ given' = [given EXCEPT ![c] = rented[c]]
  /\ UNCHANGED rented

ContractNext ==
  \E c \in Calls :
    \/ \E p \in Pods : RentPod(c, p)
    \/ SayRefused(c) \/ SayUnknown(c) \/ GivePod(c)

ContractSpec == ContractInit /\ [][ContractNext]_contractVars
===============================================================================
