-------------------------- MODULE MCDurableDelivery --------------------------
(* Model-checking instances of DurableDelivery.                            *)
EXTENDS DurableDelivery, TLC

CONSTANTS c1, c2, c3, c4, p1, p2

(* Two calls of each process. *)
TwoAndTwo == (c1 :> p1) @@ (c2 :> p1) @@ (c3 :> p2) @@ (c4 :> p2)
TwoCalls == (c1 :> p1) @@ (c2 :> p2)

OneHost == [p \in Procs |-> "pc"]
TwoHosts == (p1 :> "pc") @@ (p2 :> "nas")

(* The fourth call reuses the deliveryId for another payload. *)
Payloads == [e \in Execs |-> IF e = c4 THEN "d2" ELSE "d1"]

(* The first two calls are the same request of one process. *)
Alike == Permutations({c1, c2})
=============================================================================
