-------------------------- MODULE MCRouteCatalog --------------------------
(* An upsert; a second one that expects a catalog its caller saw; then the  *)
(* first operation id with another payload, or resolveMutation() of it.     *)
EXTENDS RouteCatalog

MCEntries == 1..3
Ask(kind, i, d, g) == [kind |-> kind, id |-> i, digest |-> d, guarded |-> g]
Upsert(i, d, g) == Ask("mutate", i, d, g)
MCOperations == <<{Upsert("a", "p", FALSE)}, {Upsert("b", "p", TRUE)},
                  {Upsert("a", "q", FALSE), Ask("resolve", "a", "p", FALSE)}>>

\* the capture of start() and two upserts
StartOperations == <<{Ask("capture", "a", "p", FALSE)}, {Upsert("a", "p", FALSE)},
                     {Upsert("b", "p", FALSE)}>>
=============================================================================
