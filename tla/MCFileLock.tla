----------------------------- MODULE MCFileLock -----------------------------
(* Model-checking instances of FileLock: all processes on one host.        *)
EXTENDS FileLock

OneHost == [p \in Clients |-> "pc"]
=============================================================================
