-------------------------- MODULE MCHeartbeatFence --------------------------
(* Model-checking instance of HeartbeatFence: the receipt directory is      *)
(* shared by machines, and every process has its own.                      *)
EXTENDS HeartbeatFence

OwnMachines == {[p \in Contenders |-> p]}
=============================================================================
