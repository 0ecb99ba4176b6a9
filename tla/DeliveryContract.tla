-------------------------- MODULE DeliveryContract --------------------------
(***************************************************************************)
(* What executeDurableDelivery of                                          *)
(* src/src/manager/durableDeliveryIdempotency.ts promises its callers, for *)
(* one deliveryId: whatever the calls, retries, recoveries and crashes, the *)
(* external effect happens at most once, and an answer is true when it is  *)
(* given.  DurableDelivery is shown to implement this specification.       *)
(***************************************************************************)
EXTENDS Naturals

CONSTANT Execs       \* the calls made with the deliveryId

VARIABLES
    effects,         \* how often the external effect has happened
    out              \* the answer of each call, "none" before it is given

contractVars == <<effects, out>>

(* completed, duplicate = false; completed, duplicate = true; the delivery  *)
(* was refused without an effect; and the answers that claim nothing.      *)
NoClaim == {"in_progress", "uncertain", "conflict", "threw"}
Answers == {"sent", "already", "refused"} \cup NoClaim

ContractInit ==
    /\ effects = 0
    /\ out = [e \in Execs |-> "none"]

(* The external effect happens, the only time. *)
TakeEffect ==
    /\ effects = 0
    /\ effects' = 1
    /\ UNCHANGED out

True(a) ==
    /\ a \in {"sent", "already"} => effects = 1
    /\ a = "sent" => \A e \in Execs : out[e] # "sent"
    /\ a = "refused" => effects = 0

(* A call is answered, once, with something true. *)
Answer(e, a) ==
    /\ out[e] = "none"
    /\ True(a)
    /\ out' = [out EXCEPT ![e] = a]
    /\ UNCHANGED effects

(* That the call's answer changes is part of Answer; asked first, it spares *)
(* the model checker a try of every answer.                                *)
ContractNext ==
    \/ TakeEffect
    \/ \E e \in Execs : out'[e] # out[e] /\ \E a \in Answers : Answer(e, a)

ContractSpec == ContractInit /\ [][ContractNext]_contractVars
=============================================================================
