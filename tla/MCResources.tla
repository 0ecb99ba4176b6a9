---------------------------- MODULE MCResources ----------------------------
(* Model-checking instance of the parts that guard one resource each: a    *)
(* lock file, the address of the Manager, the state file of the board, the *)
(* lanes of the read workers.  They share no state: a behaviour is one of  *)
(* the part it chooses in its first state.                                 *)
EXTENDS FileLock, InstanceLock, BoardPersistence, ReadWorkerPool

VARIABLE part

OneHost == [p \in Clients |-> "pc"]
\* two lanes and two callers of one pool, one of another
Own == [w \in Lanes |-> IF w = 3 THEN "pages" ELSE "reads"]
Asks == [c \in Readers |-> IF c = "c3" THEN "pages" ELSE "reads"]

resourceVars == <<part, lockVars, instanceVars, boardVars, readVars>>

ResourcesInit ==
    /\ part \in {"lock", "instance", "board", "read"}
    /\ LockInit /\ InstanceInit /\ BoardInit /\ ReadInit
    /\ part # "instance" => unix = FALSE   \* does not matter

ResourcesNext ==
    /\ UNCHANGED part
    /\ \/ /\ part = "lock" /\ LockNext
          /\ UNCHANGED <<instanceVars, boardVars, readVars>>
       \/ /\ part = "instance" /\ InstanceNext
          /\ UNCHANGED <<lockVars, boardVars, readVars>>
       \/ /\ part = "board" /\ BoardNext
          /\ UNCHANGED <<lockVars, instanceVars, readVars>>
       \/ /\ part = "read" /\ ReadNext
          /\ UNCHANGED <<lockVars, instanceVars, boardVars>>

\* the fairness of each part
ResourcesFairness ==
    /\ WF_lockVars(part = "lock" /\ GrowOld)
    /\ \A p \in Clients : WF_lockVars(part = "lock" /\ ClientStep(p))
    /\ \A p \in Managers : WF_instanceVars(part = "instance" /\ ManagerStep(p))
    /\ WF_boardVars(part = "board" /\ TimerFires)
    /\ WF_boardVars(part = "board" /\ (Rename \/ WriteDone \/ WriteFails))
    /\ SF_boardVars(part = "board" /\ Rename)
    /\ SF_boardVars(part = "board" /\ WriteDone)
    /\ WF_readVars(part = "read" /\ EventLoop)

\* Every part keeps its types.
ResourcesTypeOK ==
    LockTypeOK /\ InstanceTypeOK /\ BoardTypeOK /\ ReadTypeOK

\* What a dead process left at the lock file or at the Manager's address gives way: the
\* stale lock goes, and a Manager that starts gets its lease or an answer.
DeadOwnersGiveWay == StaleLockGoesAway /\ StartSucceeds

ResourcesSpec == ResourcesInit /\ [][ResourcesNext]_resourceVars /\ ResourcesFairness
=============================================================================
