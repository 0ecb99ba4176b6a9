---------------------------- MODULE MCAgentSend ----------------------------
(* Model-checking instance of AgentSend: a reply and a follow-up to it.    *)
EXTENDS AgentSend

ReplyAndFollowUp == {[a |-> [content |-> "x", pooled |-> FALSE, follow |-> FALSE],
                      b |-> [content |-> "y", pooled |-> FALSE, follow |-> TRUE]]}
=============================================================================
