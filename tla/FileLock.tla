------------------------------ MODULE FileLock ------------------------------
(***************************************************************************)
(* The advisory file lock of src/src/shared/filePersistence.ts:            *)
(* withFileLockSync(lockPath, action) and its helpers.                     *)
(*                                                                         *)
(* A client is an operating-system process.  The call is synchronous, so a *)
(* process has one call in progress at a time and at most one lock file of *)
(* its own on disk; the process therefore stands for the "owner" token     *)
(* (host:pid:uuid) that the code writes into the file.                     *)
(*                                                                         *)
(* The file is created with O_EXCL (openSync "wx") and is empty until the  *)
(* owner record is written.  A waiter that finds a file whose owner is not *)
(* a live process of its own host and whose mtime is staleMs old removes   *)
(* it.  Two points at which the code looks and then acts are two steps     *)
(* here: the staleness judgement and the unlink that follows it, and the   *)
(* ownership check and the unlink of the release.                          *)
(*                                                                         *)
(* Time is one bit of the lock file, "old": its mtime is staleMs ago.      *)
(***************************************************************************)
EXTENDS Naturals, FiniteSets

CONSTANTS
    Clients,      \* the processes that use one lock path
    Host,         \* the machine each of them runs on
    CrashInLock,  \* may a process die while its lock file exists?
    SlowCreate,   \* may creating and filling the file take staleMs?
    NoLock        \* no file at lockPath

LockFile == [owner : Clients, written : BOOLEAN, old : BOOLEAN]

ASSUME FileLockAssumption ==
    /\ CrashInLock \in BOOLEAN
    /\ SlowCreate \in BOOLEAN
    /\ NoLock \notin LockFile

VARIABLES
    lock,    \* the file at lockPath, or NoLock
    pc,      \* where the call of each process stands
    alive    \* is the process running?

lockVars == <<lock, pc, alive>>

Steps == {"idle", "trying", "judged", "created", "held", "releasing"}

(* One host, the environment in which the owner check sees every owner. *)
SingleHost == \A p, q \in Clients : Host[p] = Host[q]

LockExists == lock # NoLock

(* sameHostProcessAlive(record): a record that cannot be read (the file is *)
(* still empty) counts as not alive.                                       *)
OwnerAlive(p) ==
    /\ lock.written
    /\ Host[lock.owner] = Host[p]
    /\ alive[lock.owner]

(* Mutant of Reclaimable: the waiter does not ask whether the owner lives. *)
ReclaimableIgnoringOwner(p) == LockExists /\ lock.old

(* Mutant of Reclaimable: a file without a readable record is kept. *)
ReclaimableIfReadable(p) == LockExists /\ lock.old /\ lock.written /\ ~OwnerAlive(p)

(* reclaimStaleFileLock up to its unlink.  The second read compares owner, *)
(* mtime and size with the first, so both reads saw one file.              *)
Reclaimable(p) == LockExists /\ lock.old /\ ~OwnerAlive(p)

LockInit ==
    /\ lock = NoLock
    /\ pc = [p \in Clients |-> "idle"]
    /\ alive = [p \in Clients |-> TRUE]

-----------------------------------------------------------------------------
(* A process of the program calls withFileLockSync. *)
Begin(p) ==
    /\ alive[p]
    /\ pc[p] = "idle"
    /\ pc' = [pc EXCEPT ![p] = "trying"]
    /\ UNCHANGED <<lock, alive>>

(* openSync(lockPath, "wx") succeeds: the file exists and is empty. *)
Create(p) ==
    /\ alive[p]
    /\ pc[p] = "trying"
    /\ ~LockExists
    /\ lock' = [owner |-> p, written |-> FALSE, old |-> FALSE]
    /\ pc' = [pc EXCEPT ![p] = "created"]
    /\ UNCHANGED alive

(* The owner record is written and synced through the descriptor: when the *)
(* path no longer leads to that file the write is invisible.               *)
WriteRecord(p) ==
    /\ alive[p]
    /\ pc[p] = "created"
    /\ lock' = IF LockExists /\ lock.owner = p
               THEN [lock EXCEPT !.written = TRUE, !.old = FALSE]
               ELSE lock
    /\ pc' = [pc EXCEPT ![p] = "held"]
    /\ UNCHANGED alive

(* EEXIST, and reclaimStaleFileLock decides to remove the file. *)
JudgeStale(p) ==
    /\ alive[p]
    /\ pc[p] = "trying"
    /\ Reclaimable(p)
    /\ pc' = [pc EXCEPT ![p] = "judged"]
    /\ UNCHANGED <<lock, alive>>

(* unlinkSync(lockPath) of the reclaim: whatever file is there now goes;   *)
(* ENOENT counts as reclaimed too.                                         *)
ReclaimUnlink(p) ==
    /\ alive[p]
    /\ pc[p] = "judged"
    /\ lock' = NoLock
    /\ pc' = [pc EXCEPT ![p] = "trying"]
    /\ UNCHANGED alive

(* Mutant of LockTimeout: the call does not end. *)
LockTimeoutStays(p) ==
    /\ alive[p]
    /\ pc[p] = "trying"
    /\ LockExists
    /\ ~Reclaimable(p)
    /\ pc' = [pc EXCEPT ![p] = "waiting"]
    /\ UNCHANGED <<lock, alive>>

(* EEXIST, nothing to reclaim and the deadline passed: the call throws. *)
LockTimeout(p) ==
    /\ alive[p]
    /\ pc[p] = "trying"
    /\ LockExists
    /\ ~Reclaimable(p)
    /\ pc' = [pc EXCEPT ![p] = "idle"]
    /\ UNCHANGED <<lock, alive>>

(* action() has ended; releaseOwnedFileLock reads the record. *)
ReleaseCheck(p) ==
    /\ alive[p]
    /\ pc[p] = "held"
    /\ pc' = [pc EXCEPT ![p] = IF LockExists /\ lock.written /\ lock.owner = p
                               THEN "releasing" ELSE "idle"]
    /\ UNCHANGED <<lock, alive>>

ReleaseUnlink(p) ==
    /\ alive[p]
    /\ pc[p] = "releasing"
    /\ lock' = NoLock
    /\ pc' = [pc EXCEPT ![p] = "idle"]
    /\ UNCHANGED alive

-----------------------------------------------------------------------------
(* The environment: time passes and processes die. *)
GrowOld ==
    /\ LockExists
    /\ ~lock.old
    /\ SlowCreate \/ lock.written \/ ~alive[lock.owner]
    /\ lock' = [lock EXCEPT !.old = TRUE]
    /\ UNCHANGED <<pc, alive>>

Crash(p) ==
    /\ alive[p]
    /\ CrashInLock \/ pc[p] \in {"idle", "trying", "judged"}
    /\ alive' = [alive EXCEPT ![p] = FALSE]
    /\ UNCHANGED <<lock, pc>>

ClientStep(p) ==
    \/ Begin(p)
    \/ Create(p)
    \/ WriteRecord(p)
    \/ JudgeStale(p)
    \/ ReclaimUnlink(p)
    \/ LockTimeout(p)
    \/ ReleaseCheck(p)
    \/ ReleaseUnlink(p)

LockNext == GrowOld \/ \E p \in Clients : ClientStep(p) \/ Crash(p)

LockSpec == LockInit /\ [][LockNext]_lockVars

(* A live process keeps running, and time passes. *)
LockFairness == WF_lockVars(GrowOld) /\ \A p \in Clients : WF_lockVars(ClientStep(p))

FairLockSpec == LockSpec /\ LockFairness

-----------------------------------------------------------------------------
(* Type correctness: the lock file, each process's step and its liveness   *)
(* flag have the shapes filePersistence.ts gives them.                     *)
LockTypeOK ==
    /\ lock \in LockFile \cup {NoLock}
    /\ pc \in [Clients -> Steps]
    /\ alive \in [Clients -> BOOLEAN]

Holding(p) == alive[p] /\ pc[p] = "held"

(* No two live processes run their action() under one lock path together:  *)
(* what every caller of withFileLockSync relies on.                        *)
MutualExclusion ==
    \A p, q \in Clients : Holding(p) /\ Holding(q) => p = q

DeadLock == LockExists /\ ~alive[lock.owner]

(* A lock file left behind by a dead process is removed as long as anyone  *)
(* is left to remove it: the crash recovery of reclaimStaleFileLock.       *)
StaleLockGoesAway == DeadLock ~> (~DeadLock \/ \A p \in Clients : ~alive[p])
=============================================================================
