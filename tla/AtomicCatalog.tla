--------------------------- MODULE AtomicCatalog ---------------------------
(***************************************************************************)
(* What the callers of the route catalog may rely on: a mutation changes   *)
(* every config file in one step or not at all, at most once per operation *)
(* id; each caller is answered once, and an answer is true when given.     *)
(***************************************************************************)
CONSTANTS Files, Entries, None
VARIABLES catalog, req, out

Init ==
    /\ catalog = [f \in Files |-> {}]
    /\ req = [e \in Entries |-> None]
    /\ out = [e \in Entries |-> "new"]

Holds(i) == \A f \in Files : i \in catalog[f]
Lacks(i) == \A f \in Files : i \notin catalog[f]

\* The mutation of e takes effect: never once its caller was turned away, but possibly
\* after it was told that the attempts failed or could not be ended.
Merge(e) ==
    /\ out[e] \notin {"new", "busy", "conflict", "lost"}
    /\ req[e].kind = "mutate" /\ Lacks(req[e].id)
    /\ catalog' = [f \in Files |-> catalog[f] \cup {req[e].id}]
    /\ UNCHANGED <<req, out>>

TrueAnswer(e, answer) == answer = "ok" /\ req[e].kind = "mutate" => Holds(req[e].id)

\* callers ask and are answered, several of them at once when the lifecycle stops
Talk ==
    /\ UNCHANGED catalog
    /\ \A e \in Entries :
         /\ req'[e] # req[e] => out[e] = "new"
         /\ out'[e] # out[e] =>
              \/ out[e] = "new" /\ out'[e] \in {"waiting", "busy"}
              \/ out[e] = "waiting" /\ TrueAnswer(e, out'[e])

Next == Talk \/ \E e \in Entries : Merge(e)
Spec == Init /\ [][Next]_<<catalog, req, out>>
=============================================================================
