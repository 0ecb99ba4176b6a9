---------------------------- MODULE MCDelivery ----------------------------
(* Model-checking instance of the records that keep something from being   *)
(* done twice: the receipt of a delivery, the agent requests, which keep   *)
(* their own record of what was delivered, and the reservation of a Codex  *)
(* task.  They share no state: a behaviour is one of the part it chooses   *)
(* in its first state.  Of the requests it is one in which two replies     *)
(* compete, or one in which a reply is itself answered.                    *)
EXTENDS MCDurableDelivery, MCAgentRequests, ThreadReservation

VARIABLE part

deliveryVars == <<part, vars, requestVars, reservationVars>>

DeliveryInit ==
    /\ part \in {"receipts", "replies", "answers", "reservation"}
    /\ Init /\ RequestsInit /\ ReservationInit
    /\ part # "receipts" => receipt.digest = "d1"   \* does not matter

DeliveryNext ==
    /\ UNCHANGED part
    /\ \/ /\ part = "receipts" /\ Next
          /\ UNCHANGED <<requestVars, reservationVars>>
       \/ /\ RequestsNext
          /\ \/ part = "replies" /\ call'["c"] = "none"
             \/ part = "answers" /\ call'["b"] = "none" /\ events' <= 1
          /\ UNCHANGED <<vars, reservationVars>>
       \/ /\ part = "reservation" /\ ReservationNext
          /\ UNCHANGED <<vars, requestVars>>

\* The part that moves keeps its types.
RecordsTypeOK ==
    /\ part = "receipts" => DeliveryTypeOK
    /\ part \in {"replies", "answers"} => RequestTypeOK
    /\ part = "reservation" => ReservationTypeOK

DeliverySpec == DeliveryInit /\ [][DeliveryNext]_deliveryVars
=============================================================================
