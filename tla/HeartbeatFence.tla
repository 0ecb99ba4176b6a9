--------------------------- MODULE HeartbeatFence ---------------------------
(***************************************************************************)
(* The receipt heartbeat of src/src/manager/durableDeliveryIdempotency.ts  *)
(* against a contender's claimReceipt, step by step.                       *)
(*                                                                         *)
(* claimReceipt and markOwnedUncertain work under the mutation lock; the   *)
(* heartbeat worker does not take it.  renew() looks whether the lock file *)
(* exists, opens and reads the receipt, re-reads it by path, advances the  *)
(* mtime through its descriptor, re-reads the receipt and looks for the    *)
(* lock again; delivery starts when the first renewal has been published.  *)
(*                                                                         *)
(* Every write replaces the receipt by a rename: the path has a new inode, *)
(* and a descriptor stays with the file it was opened on.  "fresh" says    *)
(* that the mtime plus the lease duration is in the future.                *)
(***************************************************************************)
EXTENDS Naturals

CONSTANTS
    Contenders,     \* the processes that call with one deliveryId
    Topologies,     \* the machines the processes may run on
    First,          \* the process that reserved the receipt
    WorkerMayStall, \* may a running worker miss its lease?
    NoOwner         \* an uncertain receipt, or a free lock

ASSUME FenceAssumption ==
    /\ First \in Contenders
    /\ NoOwner \notin Contenders
    /\ \A t \in Topologies : First \in DOMAIN t /\ DOMAIN t \subseteq Contenders
    /\ WorkerMayStall \in BOOLEAN

VARIABLES
    host,    \* the machine of each process that takes part; never changes
    mutex,   \* who holds the mutation lock
    file,    \* the receipt at its path
    main,    \* the main thread of each process
    worker,  \* its heartbeat worker
    fd,      \* the inode its renewal has opened
    first,   \* is the worker in its first renewal, renew(true)?
    living

fenceVars == <<host, mutex, file, main, worker, fd, first, living>>

FenceInit ==
    /\ host \in Topologies
    /\ mutex = NoOwner
    /\ file = [inode |-> 1, owner |-> First, fresh |-> TRUE]
    /\ main = [p \in Contenders |-> IF p = First THEN "starting" ELSE "idle"]
    /\ worker = [p \in Contenders |-> IF p = First THEN "look" ELSE "off"]
    /\ fd = [p \in Contenders |-> 0]
    /\ first = [p \in Contenders |-> TRUE]
    /\ living = [p \in Contenders |-> p \in DOMAIN host]

Main(p, from, to) ==
    /\ living[p]
    /\ main[p] = from
    /\ main' = [main EXCEPT ![p] = to]

-----------------------------------------------------------------------------
(* The main thread: claimReceipt, then startReceiptHeartbeat. *)

LockMutation(p) ==
    /\ Main(p, "idle", "deciding")
    /\ mutex = NoOwner
    /\ mutex' = p
    /\ UNCHANGED <<host, file, worker, fd, first, living>>

(* Mutant of ExecutionActive: only the lease counts. *)
ExecutionActiveByLease(p) == file.fresh

(* receiptExecutionActive: a live process of this host, or a lease to run. *)
ExecutionActive(p) ==
    \/ living[file.owner] /\ host[file.owner] = host[p]
    \/ file.fresh

(* Under the lock the receipt is read and judged. *)
DecideClaim(p) ==
    /\ Main(p, "deciding", IF file.owner # NoOwner /\ ~ExecutionActive(p)
                           THEN "writing" ELSE "leaving")
    /\ UNCHANGED <<host, mutex, file, worker, fd, first, living>>

(* atomicWriteFileSync *)
Rewritten(owner, fresh) == [inode |-> file.inode + 1, owner |-> owner, fresh |-> fresh]

WriteClaim(p) ==
    /\ Main(p, "writing", "claimed")
    /\ file' = Rewritten(p, TRUE)
    /\ UNCHANGED <<host, mutex, worker, fd, first, living>>

(* The lock is released; the winner starts its heartbeat and waits. *)
UnlockMutation(p) ==
    /\ \/ Main(p, "claimed", "starting") /\ worker' = [worker EXCEPT ![p] = "look"]
       \/ Main(p, "leaving", "done") /\ UNCHANGED worker
    /\ mutex' = NoOwner
    /\ UNCHANGED <<host, file, fd, first, living>>

(* waitForReceiptHeartbeatTransition sees ACTIVE: deliver() may start. *)
StartDelivery(p) ==
    /\ Main(p, "starting", "delivering")
    /\ worker[p] # "failed" /\ ~first[p]
    /\ UNCHANGED <<host, mutex, file, worker, fd, first, living>>

(* Mutant of GiveUp: the uncertain receipt is written without a lease. *)
GiveUpBare(p) ==
    /\ Main(p, "starting", "done")
    /\ worker[p] = "failed" \/ first[p]
    /\ mutex = NoOwner
    /\ file' = IF file.owner = p THEN [inode |-> file.inode + 1, owner |-> NoOwner] ELSE file
    /\ worker' = [worker EXCEPT ![p] = "failed"]
    /\ UNCHANGED <<host, mutex, fd, first, living>>

(* The status is FAILED, or still STARTING at the deadline: the worker is    *)
(* terminated and markOwnedUncertain runs, under the lock.                 *)
GiveUp(p) ==
    /\ Main(p, "starting", "done")
    /\ worker[p] = "failed" \/ first[p]
    /\ mutex = NoOwner
    /\ file' = IF file.owner = p THEN Rewritten(NoOwner, FALSE) ELSE file
    /\ worker' = [worker EXCEPT ![p] = "failed"]
    /\ UNCHANGED <<host, mutex, fd, first, living>>

-----------------------------------------------------------------------------
(* The worker: renew(allowExpired), again and again. *)

(* One step of renew(): when its check fails the worker reports FAILED and ends. *)
Worker(p, from, ok, to) ==
    /\ living[p]
    /\ worker[p] = from
    /\ worker' = [worker EXCEPT ![p] = IF ok THEN to ELSE "failed"]

(* existsSync(mutationLockPath) before anything else. *)
RenewLook(p) ==
    /\ Worker(p, "look", mutex = NoOwner, "open")
    /\ UNCHANGED <<host, mutex, file, main, fd, first, living>>

(* openSync and the first ownedRecord; a later renewal must not be expired. *)
RenewOpen(p) ==
    /\ Worker(p, "open", file.owner = p /\ (first[p] \/ file.fresh), "recheck")
    /\ fd' = [fd EXCEPT ![p] = file.inode]
    /\ UNCHANGED <<host, mutex, file, main, first, living>>

(* sameIdentity and ownedRecord of the file at the path *)
StillOwned(p) == file.inode = fd[p] /\ file.owner = p

(* Identity and owner of the file at the path, once more. *)
RenewRecheck(p) ==
    /\ Worker(p, "recheck", StillOwned(p), "touch")
    /\ UNCHANGED <<host, mutex, file, main, fd, first, living>>

(* Mutant of RenewTouch: the mtime is set by path. *)
RenewTouchPath(p) ==
    /\ Worker(p, "touch", TRUE, "verify")
    /\ file' = [file EXCEPT !.fresh = TRUE]
    /\ UNCHANGED <<host, mutex, main, fd, first, living>>

(* futimesSync(descriptor): once the path has another file, the old one is touched. *)
RenewTouch(p) ==
    /\ Worker(p, "touch", TRUE, "verify")
    /\ file' = IF file.inode = fd[p] THEN [file EXCEPT !.fresh = TRUE] ELSE file
    /\ UNCHANGED <<host, mutex, main, fd, first, living>>

(* Identity and owner after the renewal. *)
RenewVerify(p) ==
    /\ Worker(p, "verify", StillOwned(p), "lookAgain")
    /\ UNCHANGED <<host, mutex, file, main, fd, first, living>>

(* The second existsSync; then the renewal counts and ACTIVE is published. *)
RenewPublish(p) ==
    /\ Worker(p, "lookAgain", mutex = NoOwner, "look")
    /\ first' = [first EXCEPT ![p] = first[p] /\ mutex # NoOwner]
    /\ UNCHANGED <<host, mutex, file, main, fd, living>>

-----------------------------------------------------------------------------
(* The lease runs out: the owner is dead, its worker has not come up yet, or *)
(* (WorkerMayStall) it is slower than its lease.                           *)
LeaseExpires ==
    /\ file.owner # NoOwner /\ file.fresh
    /\ WorkerMayStall \/ ~living[file.owner] \/ first[file.owner]
    /\ file' = [file EXCEPT !.fresh = FALSE]
    /\ UNCHANGED <<host, mutex, main, worker, fd, first, living>>

(* A process dies, outside the mutation lock (FileLock covers the inside). *)
Dies(p) ==
    /\ living[p] /\ mutex # p
    /\ living' = [living EXCEPT ![p] = FALSE]
    /\ UNCHANGED <<host, mutex, file, main, worker, fd, first>>

MainStep(p) ==
    \/ LockMutation(p) \/ DecideClaim(p) \/ WriteClaim(p) \/ UnlockMutation(p)
    \/ StartDelivery(p) \/ GiveUp(p)

WorkerStep(p) ==
    \/ RenewLook(p) \/ RenewOpen(p) \/ RenewRecheck(p) \/ RenewTouch(p)
    \/ RenewVerify(p) \/ RenewPublish(p)

FenceNext == LeaseExpires \/ \E p \in Contenders : MainStep(p) \/ WorkerStep(p) \/ Dies(p)

FenceSpec == FenceInit /\ [][FenceNext]_fenceVars

(* Both threads of a live process keep running. *)
FenceFairness == \A p \in Contenders : WF_fenceVars(MainStep(p)) /\ WF_fenceVars(WorkerStep(p))

FairFenceSpec == FenceSpec /\ FenceFairness

-----------------------------------------------------------------------------
(* Type correctness of the lock, the receipt and the two threads.          *)
FenceTypeOK ==
    /\ mutex \in Contenders \cup {NoOwner}
    /\ file \in [inode : Nat, owner : Contenders \cup {NoOwner}, fresh : BOOLEAN]
    /\ main \in [Contenders -> {"idle", "deciding", "writing", "leaving", "claimed",
                           "starting", "delivering", "done"}]
    /\ worker \in [Contenders -> {"off", "look", "open", "recheck", "touch", "verify",
                             "lookAgain", "failed"}]
    /\ fd \in [Contenders -> Nat]
    /\ first \in [Contenders -> BOOLEAN]
    /\ living \in [Contenders -> BOOLEAN]

(* No two live processes deliver: a contender that judged the receipt        *)
(* expired fences the old owner's renewal, and the other way round.        *)
SoleDeliverer ==
    \A p, q \in Contenders :
        living[p] /\ main[p] = "delivering" /\ living[q] /\ main[q] = "delivering" => p = q

(* On one machine no two live processes deliver, however late a worker is.    *)
SoleDelivererOnOneMachine == (\A p, q \in DOMAIN host : host[p] = host[q]) => SoleDeliverer

(* The worker that renews takes no lock, and a claim may come between any    *)
(* two of its steps.  Still a lease that has run out comes back only through *)
(* the worker of the process that the receipt names, which is running: what *)
(* a replaced owner checked of its own receipt renews no other.            *)
LeaseIsOwn ==
    [][file'.inode = file.inode /\ file'.fresh /\ ~file.fresh
          => \E p \in Contenders :
                file.owner = p /\ living[p] /\ worker[p] = "touch" /\ worker'[p] = "verify"]_fenceVars

=============================================================================
