-------------------------------- MODULE MCRent --------------------------------
(***************************************************************************)
(* Instances of Rent for TLC: one call of every kind, of which one is made *)
(* in a behaviour, beside the pods other clients rent.  The calls share    *)
(* nothing but the listing, where another call's pod is one more pod of    *)
(* another client.                                                         *)
(***************************************************************************)
EXTENDS Rent, TLC

CONSTANTS plain, confirmed, scoped, bySpec

Started(c) == pc[c] # IF c \in Scoped THEN "begin" ELSE "start"
OneCallOnly == \A c, d \in Calls : Started(c) /\ Started(d) => c = d

Symmetry == {onPods @@ onKeys : onPods \in Permutations(Pods), onKeys \in Permutations(Keys)}
===============================================================================
