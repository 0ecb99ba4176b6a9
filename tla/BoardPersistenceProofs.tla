----------------------- MODULE BoardPersistenceProofs -----------------------
(***************************************************************************)
(* Theorems about BoardPersistence, for any number of snapshots: the       *)
(* newest snapshot is never lost, a stop() that resolves has saved it, and  *)
(* what is to be saved has a timer or a write under way.                   *)
(***************************************************************************)
EXTENDS BoardPersistence, TLAPS

(* How the stop() promise, the timer and the active write go together: only *)
(* an accepting persistence has a timer, never beside an active write, and  *)
(* a stop() that waits has a write to wait for.                            *)
PhaseInv ==
    /\ acceptsWrites <=> stop = "none"
    /\ timer => acceptsWrites /\ activeWrite = 0
    /\ stop = "flushing" => activeWrite # 0
    /\ BoardStopped => activeWrite = 0

(* The inductive invariant.                                                *)
BoardInv == BoardTypeOK /\ PhaseInv /\ NewestKept /\ StopSaves

(* Every step of the persistence keeps its fields in their types.          *)
LEMMA BoardTypeStep == BoardTypeOK /\ [BoardNext]_boardVars => BoardTypeOK'
<1> SUFFICES ASSUME BoardTypeOK, [BoardNext]_boardVars PROVE BoardTypeOK'
  OBVIOUS
<1> USE DEF BoardTypeOK
<1>1. CASE Write
  BY <1>1 DEF Write, Scheduled
<1>2. CASE TimerFires
  BY <1>2 DEF TimerFires
<1>3. CASE Rename
  BY <1>3 DEF Rename
<1>4. CASE WriteDone
  BY <1>4 DEF WriteDone, Scheduled
<1>5. CASE WriteFails
  BY <1>5 DEF WriteFails, Scheduled, Retained
<1>6. CASE StopCalled
  BY <1>6 DEF StopCalled
<1>7. CASE Start
  BY <1>7 DEF Start
<1>8. CASE UNCHANGED boardVars
  BY <1>8 DEF boardVars
<1>9. QED
  BY <1>1, <1>2, <1>3, <1>4, <1>5, <1>6, <1>7, <1>8 DEF BoardNext

(* Every step keeps the phases of the persistence consistent.              *)
LEMMA PhaseStep == BoardTypeOK /\ PhaseInv /\ [BoardNext]_boardVars => PhaseInv'
<1> SUFFICES ASSUME BoardTypeOK, PhaseInv, [BoardNext]_boardVars PROVE PhaseInv'
  OBVIOUS
<1> USE DEF BoardTypeOK, PhaseInv, BoardStopped
<1>1. CASE Write
  BY <1>1 DEF Write, Scheduled
<1>2. CASE TimerFires
  BY <1>2 DEF TimerFires
<1>3. CASE Rename
  BY <1>3 DEF Rename
<1>4. CASE WriteDone
  BY <1>4 DEF WriteDone, Scheduled
<1>5. CASE WriteFails
  BY <1>5 DEF WriteFails, Scheduled, Retained
<1>6. CASE StopCalled
  BY <1>6 DEF StopCalled
<1>7. CASE Start
  BY <1>7 DEF Start
<1>8. CASE UNCHANGED boardVars
  BY <1>8 DEF boardVars
<1>9. QED
  BY <1>1, <1>2, <1>3, <1>4, <1>5, <1>6, <1>7, <1>8 DEF BoardNext

(* Every step keeps the newest snapshot, and only saves let stop() resolve. *)
LEMMA NewestStep == BoardInv /\ [BoardNext]_boardVars => NewestKept' /\ StopSaves'
<1> SUFFICES ASSUME BoardInv, [BoardNext]_boardVars PROVE NewestKept' /\ StopSaves'
  OBVIOUS
<1> USE DEF BoardInv, BoardTypeOK, PhaseInv, NewestKept, StopSaves, BoardStopped
<1>1. CASE Write
  BY <1>1 DEF Write, Scheduled
<1>2. CASE TimerFires
  BY <1>2 DEF TimerFires
<1>3. CASE Rename
  BY <1>3 DEF Rename
<1>4. CASE WriteDone
  BY <1>4 DEF WriteDone, Scheduled
<1>5. CASE WriteFails
  BY <1>5 DEF WriteFails, Scheduled, Retained
<1>6. CASE StopCalled
  BY <1>6 DEF StopCalled
<1>7. CASE Start
  BY <1>7 DEF Start
<1>8. CASE UNCHANGED boardVars
  BY <1>8 DEF boardVars
<1>9. QED
  BY <1>1, <1>2, <1>3, <1>4, <1>5, <1>6, <1>7, <1>8 DEF BoardNext

(* The inductive invariant holds in every behaviour.                       *)
LEMMA BoardInvariant == BoardSpec => []BoardInv
<1>1. BoardInit => BoardInv
  <2> SUFFICES ASSUME BoardInit PROVE BoardInv
    OBVIOUS
  <2>1. BoardTypeOK
    BY DEF BoardInit, BoardTypeOK
  <2>2. PhaseInv
    BY DEF BoardInit, PhaseInv, BoardStopped
  <2>3. NewestKept /\ StopSaves
    BY DEF BoardInit, NewestKept, StopSaves
  <2>4. QED
    BY <2>1, <2>2, <2>3 DEF BoardInv
<1>2. BoardInv /\ [BoardNext]_boardVars => BoardInv'
  BY BoardTypeStep, PhaseStep, NewestStep DEF BoardInv
<1>3. QED
  BY <1>1, <1>2, PTL DEF BoardSpec

(* Coalescing, failed writes, stop() and start() of the persistence never   *)
(* lose the newest snapshot or put an older one in its place.              *)
THEOREM NewestIsNeverLost == BoardSpec => []NewestKept
<1>1. BoardInv => NewestKept
  BY DEF BoardInv
<1>2. QED
  BY <1>1, BoardInvariant, PTL

(* When stop() resolves, the newest snapshot is in the state file and no    *)
(* timer and no worker is left.                                            *)
THEOREM StopHasSaved == BoardSpec => []StopSaves
<1>1. BoardInv => StopSaves
  BY DEF BoardInv
<1>2. QED
  BY <1>1, BoardInvariant, PTL

(* The persistence keeps its types: what is pending, what the worker writes *)
(* and what is in the file, through failures, stops and restarts.          *)
THEOREM BoardTypeCorrect == BoardSpec => []BoardTypeOK
<1>1. BoardInv => BoardTypeOK
  BY DEF BoardInv
<1>2. QED
  BY <1>1, BoardInvariant, PTL

-----------------------------------------------------------------------------
(* A snapshot that will reach the file without another call: its timer is  *)
(* set, or a write is under way after which it is scheduled.               *)
Scheduling == pending # 0 /\ (timer \/ activeWrite # 0)

(* Nobody is left waiting: a stop() that waits has a write whose end it     *)
(* hears of, and a snapshot once scheduled is, until stop() is called,      *)
(* scheduled, being written, or replaced by a newer one that is: no failed *)
(* write and no order of timer and finally clause drops it.  What the      *)
(* run's BoardSettles adds is that writes do not fail for ever.            *)
THEOREM BoardNeverSleeps ==
    BoardSpec => /\ [](stop = "flushing" => activeWrite # 0)
                 /\ [][Scheduling /\ acceptsWrites' =>
                         Scheduling' \/ (activeWrite' # 0 /\ pending' = 0)]_boardVars
<1>1. BoardInv => (stop = "flushing" => activeWrite # 0)
  BY DEF BoardInv, PhaseInv
<1>2. ASSUME BoardInv, BoardNext, Scheduling, acceptsWrites'
      PROVE  Scheduling' \/ (activeWrite' # 0 /\ pending' = 0)
  <2> USE <1>2 DEF BoardInv, BoardTypeOK, PhaseInv, Scheduling, BoardStopped
  <2>1. CASE Write
    BY <2>1 DEF Write, Scheduled
  <2>2. CASE TimerFires
    BY <2>2 DEF TimerFires
  <2>3. CASE Rename
    BY <2>3 DEF Rename
  <2>4. CASE WriteDone
    BY <2>4 DEF WriteDone, Scheduled
  <2>5. CASE WriteFails
    BY <2>5 DEF WriteFails, Scheduled, Retained
  <2>6. CASE StopCalled
    BY <2>6 DEF StopCalled
  <2>7. CASE Start
    BY <2>7 DEF Start
  <2>8. QED
    BY <1>2, <2>1, <2>2, <2>3, <2>4, <2>5, <2>6, <2>7 DEF BoardNext
<1>3. BoardInv /\ [BoardNext]_boardVars =>
        [Scheduling /\ acceptsWrites' =>
            Scheduling' \/ (activeWrite' # 0 /\ pending' = 0)]_boardVars
  BY <1>2
<1>4. QED
  BY <1>1, <1>3, BoardInvariant, PTL DEF BoardSpec
=============================================================================
