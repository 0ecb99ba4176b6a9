----------------------------- MODULE MCManager -----------------------------
(* Model-checking instance of two parts of the Manager process, its        *)
(* storage mutation pool and its plugin kernel.  They share no state: a    *)
(* behaviour is one of the part it chooses in its first state.             *)
EXTENDS StorageMutationPool, PluginGeneration

VARIABLE part

\* a provider p, its consumer q and an independent r that provides what is required
Rev(p, n, pro, req, keys) ==
    [plugin |-> p, rev |-> n, provides |-> pro, requires |-> req, optional |-> {},
     claims |-> keys]
P(n) == Rev("p", n, {"c"}, {}, {})
Q(n) == Rev("q", n, {}, {"c"}, {"k"})
R(n) == Rev("r", n, {"d"}, {}, {"m"})

StableProfiles == {{P(1), Q(1), R(1)}, {P(2), Q(1), R(2)}, {Q(2), R(1)}, {P(1), Q(2)}}
StableRevisions == UNION StableProfiles

managerVars == <<part, vars, kernelVars>>

ManagerInit == part \in {"pool", "kernel"} /\ PoolInit /\ KernelInit

ManagerNext ==
    /\ UNCHANGED part
    /\ \/ part = "pool" /\ PoolNext /\ UNCHANGED kernelVars
       \/ part = "kernel" /\ KernelNext /\ UNCHANGED vars

\* the fairness of each part
ManagerFairness ==
    /\ WF_vars(part = "pool" /\ Drain)
    /\ WF_vars(part = "pool" /\ TerminateActive("timeout"))
    /\ \A c \in Children : WF_vars(part = "pool" /\ Timer(c))
    /\ WF_kernelVars(part = "kernel" /\ Runtime)

\* Both parts keep their types.
ManagerTypeOK == PoolTypeOK /\ PluginTypeOK

ManagerSpec == ManagerInit /\ [][ManagerNext]_managerVars /\ ManagerFairness
=============================================================================
