-------------------------- MODULE MCAgentRequests --------------------------
(* Model-checking instance of AgentRequests: a request, a reply that asks  *)
(* back, the reply to that, and a reply that does not ask back.            *)
EXTENDS AgentRequests

AskAndReplies == [ask |-> Nothing, a |-> "ask", b |-> "ask", c |-> "a"]
=============================================================================
