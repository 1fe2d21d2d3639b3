----------------------------- MODULE MCMcpRentals -----------------------------
(***************************************************************************)
(* Instances of McpRentals for TLC.                                        *)
(***************************************************************************)
EXTENDS McpRentals, TLC

(* What two processes do beside each other is about the step that sends a  *)
(* rent: such a behaviour ends where no call can take that step any more.  *)
(* One process is followed to the end, across a crash.                     *)
Sending == {"idle", "enter", "adopting", "adopted", "admit", "check", "ready", "submit", "send"}
MaySend == \E r \in Rentals : pc[r] \in Sending
OneProcess ==
  \E s \in Servers : \A t \in Servers \ {s} :
    /\ \A r \in Rentals : server[r] # t
    /\ running[t] = "off" /\ adopter[t] = Nobody /\ ~passing[t]
OneToTheEnd == OneProcess \/ (crashes = 0 /\ MaySend)

RentalSymmetry == Permutations(Rentals)
BothSymmetry == Permutations(Servers) \cup RentalSymmetry
===============================================================================
