-------------------------- MODULE BoardPersistence --------------------------
(***************************************************************************)
(* CoalescingMessageProcessingBoardPersistence of                          *)
(* src/src/messageProcessing/persistence.ts: the message-processing board  *)
(* hands over a snapshot of its state after every change; snapshots are    *)
(* coalesced, written one at a time by a worker thread, kept when a write  *)
(* fails, and flushed by stop().                                           *)
(*                                                                         *)
(* Snapshots are numbered in the order in which write() accepts them; 0 is *)
(* no snapshot, and as content of the file what was read at start.  A step *)
(* is one task of the event loop, or the rename in the worker.             *)
(***************************************************************************)
EXTENDS Naturals

CONSTANT MaxWrites   \* how many snapshots the board hands over

ASSUME BoardAssumption == MaxWrites \in Nat

VARIABLES
    latest,     \* the newest snapshot write() has accepted
    disk,       \* the snapshot in the state file
    pending,    \* this.pendingState
    activeWrite,     \* the snapshot of this.activeWrite
    timer,      \* this.flushTimer is set
    acceptsWrites,  \* this.accepting
    stop        \* this.stopPromise: "none", "flushing", "saved" or "failed"

boardVars == <<latest, disk, pending, activeWrite, timer, acceptsWrites, stop>>

(* this.stopped *)
BoardStopped == stop \in {"saved", "failed"}

BoardInit ==
    /\ latest = 0 /\ disk = 0 /\ pending = 0 /\ activeWrite = 0
    /\ timer = FALSE /\ acceptsWrites = TRUE /\ stop = "none"

(* scheduleWrite, for a pending snapshot p while a is being written. *)
Scheduled(p, a) == timer \/ (acceptsWrites /\ a = 0 /\ p # 0)

-----------------------------------------------------------------------------
(* write(state); after stop() it throws. *)
Write ==
    /\ acceptsWrites
    /\ latest < MaxWrites
    /\ latest' = latest + 1
    /\ pending' = latest + 1
    /\ timer' = Scheduled(latest + 1, activeWrite)
    /\ UNCHANGED <<disk, activeWrite, acceptsWrites, stop>>

(* The timer fires and startWrite takes the pending snapshot. *)
TimerFires ==
    /\ timer
    /\ timer' = FALSE
    /\ IF activeWrite = 0 /\ pending # 0
       THEN activeWrite' = pending /\ pending' = 0
       ELSE UNCHANGED <<activeWrite, pending>>
    /\ UNCHANGED <<latest, disk, acceptsWrites, stop>>

(* The worker renames the temporary file over the state file. *)
Rename ==
    /\ activeWrite # 0
    /\ disk # activeWrite
    /\ disk' = activeWrite
    /\ UNCHANGED <<latest, pending, activeWrite, timer, acceptsWrites, stop>>

(* Mutant of WriteDone: a waiting stop() does not look for a successor. *)
WriteDoneOnce ==
    /\ activeWrite # 0 /\ disk = activeWrite
    /\ activeWrite' = 0
    /\ stop' = IF stop = "flushing" THEN "saved" ELSE stop
    /\ timer' = Scheduled(pending, 0)
    /\ UNCHANGED <<latest, disk, pending, acceptsWrites>>

(* Mutant of WriteDone: a snapshot that came meanwhile is not scheduled. *)
WriteDoneIdle ==
    /\ activeWrite # 0 /\ disk = activeWrite
    /\ \/ /\ stop = "flushing" /\ pending # 0
          /\ activeWrite' = pending /\ pending' = 0
          /\ UNCHANGED stop
       \/ /\ ~(stop = "flushing" /\ pending # 0)
          /\ activeWrite' = 0
          /\ stop' = IF stop = "flushing" THEN "saved" ELSE stop
          /\ UNCHANGED pending
    /\ UNCHANGED <<latest, disk, timer, acceptsWrites>>

(* The write has succeeded.  The loop of flush() in a waiting stop() goes  *)
(* on with the snapshot that came meanwhile, or ends; otherwise it is      *)
(* scheduled.                                                              *)
WriteDone ==
    /\ activeWrite # 0 /\ disk = activeWrite
    /\ \/ /\ stop = "flushing" /\ pending # 0
          /\ activeWrite' = pending /\ pending' = 0
          /\ UNCHANGED <<stop, timer>>
       \/ /\ ~(stop = "flushing" /\ pending # 0)
          /\ activeWrite' = 0
          /\ stop' = IF stop = "flushing" THEN "saved" ELSE stop
          /\ timer' = Scheduled(pending, 0)
          /\ UNCHANGED pending
    /\ UNCHANGED <<latest, disk, acceptsWrites>>

(* Mutant of Retained: the failed snapshot replaces a newer one. *)
RetainedOldest == activeWrite

(* What is pending after a failed write. *)
Retained == IF pending = 0 THEN activeWrite ELSE pending

(* The write fails, before or after the rename (the worker, or onCommitted, *)
(* may throw after it): the snapshot is kept unless a newer one is there,   *)
(* and tried again; a waiting stop() rejects.  The finally clause schedules *)
(* the next attempt before the timer callback's catch clause can, so the    *)
(* latter's scheduleWrite(retryDelayMs) finds the timer set.               *)
WriteFails ==
    /\ activeWrite # 0
    /\ activeWrite' = 0
    /\ pending' = Retained
    /\ timer' = Scheduled(Retained, 0)
    /\ stop' = IF stop = "flushing" THEN "failed" ELSE stop
    /\ UNCHANGED <<latest, disk, acceptsWrites>>

(* stop(): no more writes, no timer, and flush() up to its first await.  A *)
(* second stop() joins the first, also when that one has failed.           *)
StopCalled ==
    /\ stop = "none"
    /\ acceptsWrites' = FALSE
    /\ timer' = FALSE
    /\ stop' = IF pending = 0 /\ activeWrite = 0 THEN "saved" ELSE "flushing"
    /\ IF activeWrite = 0 THEN activeWrite' = pending /\ pending' = 0
       ELSE UNCHANGED <<activeWrite, pending>>
    /\ UNCHANGED <<latest, disk>>

(* start() after a stop().  A snapshot that a failed stop() left pending is *)
(* not scheduled again; it waits for the next write() or stop().           *)
Start ==
    /\ BoardStopped
    /\ activeWrite = 0 /\ ~timer
    /\ acceptsWrites' = TRUE
    /\ stop' = "none"
    /\ UNCHANGED <<latest, disk, pending, activeWrite, timer>>

BoardNext == Write \/ TimerFires \/ Rename \/ WriteDone \/ WriteFails \/ StopCalled \/ Start

BoardSpec == BoardInit /\ [][BoardNext]_boardVars

(* Timers fire and a worker thread ends; writes do not fail for ever.      *)
BoardFairness ==
    /\ WF_boardVars(TimerFires)
    /\ WF_boardVars(Rename \/ WriteDone \/ WriteFails)
    /\ SF_boardVars(Rename) /\ SF_boardVars(WriteDone)

FairBoardSpec == BoardSpec /\ BoardFairness

-----------------------------------------------------------------------------
(* Type correctness of the fields of the persistence and of the file.      *)
BoardTypeOK ==
    /\ latest \in Nat /\ disk \in Nat /\ pending \in Nat /\ activeWrite \in Nat
    /\ timer \in BOOLEAN /\ acceptsWrites \in BOOLEAN
    /\ stop \in {"none", "flushing", "saved", "failed"}

(* The newest accepted snapshot is pending, or being written with nothing  *)
(* pending behind it, or on disk: failures, coalescing and restarts never  *)
(* lose it and never put an older one in its place.                        *)
NewestKept ==
    latest = IF pending # 0 THEN pending ELSE IF activeWrite # 0 THEN activeWrite ELSE disk

(* A stop() that resolves has saved the newest snapshot and leaves neither *)
(* a timer nor a worker behind.                                            *)
StopSaves == stop = "saved" => disk = latest /\ activeWrite = 0 /\ pending = 0 /\ ~timer

(* Every snapshot that is scheduled reaches the file, or a newer one does, *)
(* unless the persistence is stopped.                                      *)
ScheduledIsSaved ==
    \A v \in 1..MaxWrites :
        (pending = v /\ (timer \/ activeWrite # 0)) ~> (disk >= v \/ ~acceptsWrites)

(* Every stop() resolves or rejects.                                       *)
StopSettles == (stop = "flushing") ~> BoardStopped

(* The persistence comes to rest: what is scheduled is saved, and stop() ends. *)
BoardSettles == ScheduledIsSaved /\ StopSettles
=============================================================================
