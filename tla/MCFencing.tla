----------------------------- MODULE MCFencing -----------------------------
(* Model-checking instance of what decides who sends: the calls of         *)
(* executeDurableDelivery and the file operations of claim and heartbeat   *)
(* when a receipt changes hands, and the front of agent sends.  They share *)
(* no state: a behaviour is one of the part it chooses in its first state. *)
EXTENDS DurableDelivery, HeartbeatFence, AgentSend, TLC

CONSTANTS c1, c2, p1, p2, p3
VARIABLE part

\* the calls
TwoCalls == (c1 :> p1) @@ (c2 :> p2)
TwoHosts == (p1 :> "pc") @@ (p2 :> "nas")
Payloads == [e \in Execs |-> "d1"]

\* the files: three processes of one machine, or two that each have their own
OneMachine == [p \in Contenders |-> "pc"]
Machines == {OneMachine, TwoHosts}

\* the sends: the same content twice, two contents, a follow-up, a follow-up of the same
\* content
Ask(content, pooled, follow) == [content |-> content, pooled |-> pooled, follow |-> follow]
Twice == [a |-> Ask("x", TRUE, FALSE), b |-> Ask("x", TRUE, FALSE)]
Pairs == {Twice,
          [a |-> Ask("x", TRUE, FALSE), b |-> Ask("y", FALSE, FALSE)],
          [a |-> Ask("x", FALSE, FALSE), b |-> Ask("y", FALSE, TRUE)],
          [a |-> Ask("x", TRUE, TRUE), b |-> Ask("x", TRUE, FALSE)]}

fencingVars == <<part, vars, fenceVars, sendVars>>

FencingInit ==
    /\ part \in {"calls", "files", "sends"}
    /\ Init /\ FenceInit /\ SendInit
    \* does not matter to the other parts
    /\ part # "files" => host = TwoHosts
    /\ part # "sends" => request = Twice

FencingNext ==
    /\ UNCHANGED part
    /\ \/ part = "calls" /\ Next /\ UNCHANGED <<fenceVars, sendVars>>
       \/ part = "files" /\ FenceNext /\ UNCHANGED <<vars, sendVars>>
       \/ part = "sends" /\ SendNext /\ UNCHANGED <<vars, fenceVars>>

\* the fairness of each part
FencingFairness ==
    /\ \A e \in Execs : WF_vars(part = "calls" /\ CallStep(e))
    /\ \A p \in Contenders : /\ WF_fenceVars(part = "files" /\ MainStep(p))
                             /\ WF_fenceVars(part = "files" /\ WorkerStep(p))
    /\ \A s \in Sends : WF_sendVars(part = "sends" /\ SendStep(s))

\* The files and the sends keep their types.
FencingTypeOK == FenceTypeOK /\ SendTypeOK

\* Every call of executeDurableDelivery and every agent send comes to an end, whoever it
\* waits for.
EveryCallReturns == CallsReturn /\ SendsEnd

FencingSpec == FencingInit /\ [][FencingNext]_fencingVars /\ FencingFairness
=============================================================================
