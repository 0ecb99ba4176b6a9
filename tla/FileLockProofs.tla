--------------------------- MODULE FileLockProofs ---------------------------
(***************************************************************************)
(* Proofs about FileLock, for any number of processes.                     *)
(*                                                                         *)
(* The lock always has its type.  It excludes when all processes run on    *)
(* one machine, none dies with its lock file on disk and none takes        *)
(* staleMs to fill a new one: then no waiter ever judges a file stale.     *)
(* Two processes are excluded also when they die inside: the race for a     *)
(* stale file needs a second waiter.                                       *)
(***************************************************************************)
EXTENDS FileLock, TLAPS

(* The lock file belongs to the process that is between creating and       *)
(* removing it, and nobody is about to remove a file it judged stale.      *)
LockInv ==
    /\ LockTypeOK
    /\ \A p \in Clients : pc[p] # "judged"
    /\ \A p \in Clients : pc[p] \in {"created", "held", "releasing"} =>
          /\ LockExists
          /\ lock.owner = p
    /\ LockExists =>
          /\ alive[lock.owner]
          /\ pc[lock.owner] \in {"created", "held", "releasing"}
          /\ pc[lock.owner] = "created" => ~lock.old /\ ~lock.written
          /\ pc[lock.owner] # "created" => lock.written

(* The calls keep the shapes of the lock file and of the processes. *)
LEMMA LockTypeStep == LockTypeOK /\ [LockNext]_lockVars => LockTypeOK'
<1> SUFFICES ASSUME LockTypeOK, [LockNext]_lockVars PROVE LockTypeOK'
  OBVIOUS
<1> USE FileLockAssumption DEF LockTypeOK, LockFile, Steps, LockExists
<1>1. CASE UNCHANGED lockVars
  BY <1>1 DEF lockVars
<1>2. CASE GrowOld
  BY <1>2 DEF GrowOld
<1>3. ASSUME NEW p \in Clients, Begin(p) PROVE LockTypeOK'
  BY <1>3 DEF Begin
<1>4. ASSUME NEW p \in Clients, Create(p) PROVE LockTypeOK'
  BY <1>4 DEF Create
<1>5. ASSUME NEW p \in Clients, WriteRecord(p) PROVE LockTypeOK'
  BY <1>5 DEF WriteRecord
<1>6. ASSUME NEW p \in Clients, JudgeStale(p) PROVE LockTypeOK'
  BY <1>6 DEF JudgeStale
<1>7. ASSUME NEW p \in Clients, ReclaimUnlink(p) PROVE LockTypeOK'
  BY <1>7 DEF ReclaimUnlink
<1>8. ASSUME NEW p \in Clients, LockTimeout(p) PROVE LockTypeOK'
  BY <1>8 DEF LockTimeout
<1>9. ASSUME NEW p \in Clients, ReleaseCheck(p) PROVE LockTypeOK'
  BY <1>9 DEF ReleaseCheck
<1>10. ASSUME NEW p \in Clients, ReleaseUnlink(p) PROVE LockTypeOK'
  BY <1>10 DEF ReleaseUnlink
<1>11. ASSUME NEW p \in Clients, Crash(p) PROVE LockTypeOK'
  BY <1>11 DEF Crash
<1> QED
  BY <1>1, <1>2, <1>3, <1>4, <1>5, <1>6, <1>7, <1>8, <1>9, <1>10, <1>11
     DEF LockNext, ClientStep

(* Type correctness of the lock file and of every call of withFileLockSync, *)
(* with crashes and on any machines.                                       *)
THEOREM LockTypeCorrect == LockSpec => []LockTypeOK
<1>1. LockInit => LockTypeOK
  BY DEF LockInit, LockTypeOK, LockFile, Steps
<1> QED
  BY <1>1, LockTypeStep, PTL DEF LockSpec

(* The inductive step of mutual exclusion. *)
LEMMA LockInvStep ==
    ASSUME SingleHost, ~CrashInLock, ~SlowCreate, LockInv, [LockNext]_lockVars
    PROVE  LockInv'
<1>0. LockTypeOK'
  BY LockTypeStep DEF LockInv
<1> USE FileLockAssumption DEF LockInv, LockTypeOK, LockFile, Steps, LockExists
<1>1. CASE UNCHANGED lockVars
  BY <1>1 DEF lockVars
<1>2. CASE GrowOld
  BY <1>0, <1>2 DEF GrowOld
<1>3. ASSUME NEW p \in Clients, Begin(p) PROVE LockInv'
  BY <1>0, <1>3 DEF Begin
<1>4. ASSUME NEW p \in Clients, Create(p) PROVE LockInv'
  <2>1. lock' \in LockFile /\ lock'.owner = p /\ ~lock'.old /\ ~lock'.written
    BY <1>4 DEF Create
  <2>2. lock' # NoLock
    BY <2>1
  <2>3. \A q \in Clients : pc'[q] \in {"created", "held", "releasing"} => q = p
    BY <1>4 DEF Create
  <2>4. pc'[p] = "created" /\ alive'[p] /\ \A q \in Clients : pc'[q] # "judged"
    BY <1>4 DEF Create
  <2> QED
    BY <1>0, <2>1, <2>2, <2>3, <2>4
<1>5. ASSUME NEW p \in Clients, WriteRecord(p) PROVE LockInv'
  <2>1. /\ LockExists /\ lock.owner = p
        /\ lock' = [lock EXCEPT !.written = TRUE, !.old = FALSE]
        /\ pc' = [pc EXCEPT ![p] = "held"] /\ UNCHANGED alive
    BY <1>5 DEF WriteRecord
  <2>2. lock'.owner = p /\ lock'.written /\ lock' # NoLock
    BY <2>1
  <2> QED
    BY <1>0, <2>1, <2>2
(* A file that exists is either new or owned by a live process of this host. *)
<1>6. ASSUME NEW p \in Clients PROVE ~JudgeStale(p)
  BY <1>6 DEF JudgeStale, Reclaimable, OwnerAlive, SingleHost
<1>7. ASSUME NEW p \in Clients PROVE ~ReclaimUnlink(p)
  BY <1>7 DEF ReclaimUnlink
<1>8. ASSUME NEW p \in Clients, LockTimeout(p) PROVE LockInv'
  BY <1>0, <1>8 DEF LockTimeout
<1>9. ASSUME NEW p \in Clients, ReleaseCheck(p) PROVE LockInv'
  BY <1>0, <1>9 DEF ReleaseCheck
<1>10. ASSUME NEW p \in Clients, ReleaseUnlink(p) PROVE LockInv'
  BY <1>0, <1>10 DEF ReleaseUnlink
<1>11. ASSUME NEW p \in Clients, Crash(p) PROVE LockInv'
  BY <1>0, <1>11 DEF Crash
<1> QED
  BY <1>1, <1>2, <1>3, <1>4, <1>5, <1>6, <1>7, <1>8, <1>9, <1>10, <1>11
     DEF LockNext, ClientStep

(* withFileLockSync excludes, for any number of processes of one machine,  *)
(* as long as no process dies with its lock file on disk.                  *)
THEOREM LockExcludes ==
    ASSUME SingleHost, ~CrashInLock, ~SlowCreate
    PROVE  LockSpec => []MutualExclusion
<1>1. LockInit => LockInv
  BY DEF LockInit, LockInv, LockTypeOK, LockFile, Steps, LockExists
<1>2. LockInv /\ [LockNext]_lockVars => LockInv'
  BY LockInvStep
<1>3. LockInv => MutualExclusion
  BY DEF LockInv, MutualExclusion, Holding
<1> QED
  BY <1>1, <1>2, <1>3, PTL DEF LockSpec

-----------------------------------------------------------------------------
(* Crashes while the lock file exists.                                     *)

(* No three processes use the lock path.                                   *)
AtMostTwo == \A p, q, r \in Clients : p = q \/ q = r \/ p = r

(* The file belongs to the live process that is between creating and       *)
(* removing it; a waiter that judged a file stale is alone.                *)
PairInv ==
    /\ LockTypeOK
    /\ \A p \in Clients : alive[p] /\ pc[p] \in {"created", "held", "releasing"} =>
          /\ LockExists
          /\ lock.owner = p
    /\ LockExists /\ alive[lock.owner] =>
          /\ pc[lock.owner] \in {"created", "held", "releasing"}
          /\ pc[lock.owner] = "created" => ~lock.old /\ ~lock.written
          /\ pc[lock.owner] # "created" => lock.written
    /\ \A p, q \in Clients : alive[p] /\ pc[p] = "judged" /\ q # p => ~alive[q]

(* Every step of two processes keeps it.                                   *)
LEMMA PairInvStep ==
    ASSUME SingleHost, ~SlowCreate, AtMostTwo, PairInv, [LockNext]_lockVars
    PROVE  PairInv'
<1>0. LockTypeOK'
  BY LockTypeStep DEF PairInv
<1> USE FileLockAssumption DEF PairInv, LockTypeOK, LockFile, Steps, LockExists
<1>1. CASE UNCHANGED lockVars
  BY <1>1 DEF lockVars
<1>2. CASE GrowOld
  BY <1>0, <1>2 DEF GrowOld
<1>3. ASSUME NEW p \in Clients, Begin(p) PROVE PairInv'
  BY <1>0, <1>3 DEF Begin
<1>4. ASSUME NEW p \in Clients, Create(p) PROVE PairInv'
  <2>0. lock' \in LockFile /\ lock'.owner = p /\ ~lock'.old /\ ~lock'.written
    BY <1>4 DEF Create
  <2>1. lock' # NoLock
    BY <2>0
  <2>2. \A q \in Clients :
            alive'[q] /\ pc'[q] \in {"created", "held", "releasing"} => q = p
    BY <1>4 DEF Create
  <2>3. pc'[p] = "created" /\ alive' = alive /\ \A q \in Clients : q # p => pc'[q] = pc[q]
    BY <1>4 DEF Create
  <2> QED
    BY <1>0, <1>4, <2>0, <2>1, <2>2, <2>3 DEF Create
<1>5. ASSUME NEW p \in Clients, WriteRecord(p) PROVE PairInv'
  <2>1. /\ LockExists /\ lock.owner = p
        /\ lock' = [lock EXCEPT !.written = TRUE, !.old = FALSE]
        /\ pc' = [pc EXCEPT ![p] = "held"] /\ UNCHANGED alive
    BY <1>5 DEF WriteRecord
  <2>2. lock'.owner = p /\ lock'.written /\ lock' # NoLock
    BY <2>1
  <2> QED
    BY <1>0, <2>1, <2>2
(* The owner of a file that can be reclaimed is dead: the other process.   *)
<1>6. ASSUME NEW p \in Clients, JudgeStale(p) PROVE PairInv'
  <2>1. ~alive[lock.owner] /\ lock.owner \in Clients /\ lock.owner # p
    BY <1>6 DEF JudgeStale, Reclaimable, OwnerAlive, SingleHost
  <2>2. \A q \in Clients : q # p => ~alive[q]
    BY <2>1 DEF AtMostTwo
  <2> QED
    BY <1>0, <1>6, <2>1, <2>2 DEF JudgeStale
<1>7. ASSUME NEW p \in Clients, ReclaimUnlink(p) PROVE PairInv'
  BY <1>0, <1>7 DEF ReclaimUnlink
<1>8. ASSUME NEW p \in Clients, LockTimeout(p) PROVE PairInv'
  BY <1>0, <1>8 DEF LockTimeout
<1>9. ASSUME NEW p \in Clients, ReleaseCheck(p) PROVE PairInv'
  BY <1>0, <1>9 DEF ReleaseCheck
<1>10. ASSUME NEW p \in Clients, ReleaseUnlink(p) PROVE PairInv'
  BY <1>0, <1>10 DEF ReleaseUnlink
<1>11. ASSUME NEW p \in Clients, Crash(p) PROVE PairInv'
  BY <1>0, <1>11 DEF Crash
<1> QED
  BY <1>1, <1>2, <1>3, <1>4, <1>5, <1>6, <1>7, <1>8, <1>9, <1>10, <1>11
     DEF LockNext, ClientStep

(* Between two processes of one machine withFileLockSync excludes also when  *)
(* one of them dies inside: the other alone judges the file it left.  With  *)
(* three, two survivors may judge the same file.                           *)
THEOREM TwoExcludeThroughCrashes ==
    ASSUME SingleHost, ~SlowCreate, AtMostTwo
    PROVE  LockSpec => []MutualExclusion
<1>1. LockInit => PairInv
  BY DEF LockInit, PairInv, LockTypeOK, LockFile, Steps, LockExists
<1>2. PairInv /\ [LockNext]_lockVars => PairInv'
  BY PairInvStep
<1>3. PairInv => MutualExclusion
  BY DEF PairInv, MutualExclusion, Holding
<1> QED
  BY <1>1, <1>2, <1>3, PTL DEF LockSpec
=============================================================================
