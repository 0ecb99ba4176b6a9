----------------------- MODULE DurableDeliveryProofs -----------------------
(***************************************************************************)
(* Proofs about DurableDelivery, for any number of calls and processes and  *)
(* any options of executeDurableDelivery.  What the receipt's fence ensures  *)
(* is proved on any machines; that the effect happens once is proved for    *)
(* the processes of one machine, where the owner check of                  *)
(* receiptExecutionActive sees every live owner.  Last, that receipts,      *)
(* agent requests and task reservations keep their types side by side      *)
(* (MCDelivery).                                                           *)
(***************************************************************************)
EXTENDS MCDelivery, AgentProofs

(* The part of the type invariant that Return and GoTo touch. *)
CallsTyped ==
    /\ pc \in [Execs -> PC]
    /\ beat \in [Execs -> BOOLEAN]
    /\ out \in [Execs -> Answers \cup {"none"}]

(* A call that returns keeps its type. *)
LEMMA ReturnTyped ==
    ASSUME CallsTyped, NEW e \in Execs, NEW a \in Answers, Return(e, a)
    PROVE  CallsTyped'
BY DEF CallsTyped, Return, PC

(* A call that goes on keeps its type. *)
LEMMA GoToTyped ==
    ASSUME CallsTyped, NEW e \in Execs, NEW s \in PC, GoTo(e, s)
    PROVE  CallsTyped'
BY DEF CallsTyped, GoTo

(* So does a call that decides from the receipt it has read. *)
LEMMA DecideTyped ==
    ASSUME DeliveryTypeOK, NEW e \in Execs, Decide(e)
    PROVE  CallsTyped' /\ sawUncertain' \in [Execs -> BOOLEAN]
<1>1. CallsTyped
  BY DEF DeliveryTypeOK, CallsTyped
<1>2. Replay \in Answers
  BY DEF Replay, Answers
<1>3. (\E a \in Answers : Return(e, a)) \/ GoTo(e, "claiming")
  BY <1>2 DEF Decide, Answers
<1>4. CallsTyped'
  BY <1>1, <1>3, ReturnTyped, GoToTyped DEF PC
<1>5. (receipt.st = "uncertain") \in BOOLEAN
  OBVIOUS
<1>6. sawUncertain' \in [Execs -> BOOLEAN]
  BY <1>5 DEF Decide, DeliveryTypeOK
<1> QED
  BY <1>4, <1>6

(* A settled receipt is a receipt. *)
LEMMA SettledTyped ==
    ASSUME receipt \in Receipts, NoExec \notin Execs, NEW r \in Results
    PROVE  Settled(r) \in Receipts
BY DEF Settled, NoReceipt, Receipts, Results

(* settleOwnedResult keeps the types of the call and of the receipt. *)
LEMMA SettleTyped ==
    ASSUME DeliveryTypeOK, NEW e \in Execs, NEW r \in Results, NEW d \in BOOLEAN,
           Settle(e, r, d)
    PROVE  CallsTyped' /\ receipt' \in Receipts
<1>1. CallsTyped /\ receipt \in Receipts
  BY DEF DeliveryTypeOK, CallsTyped
<1>2. \E a \in Answers : Return(e, a)
  BY DEF Settle, Answers
<1>3. CallsTyped'
  BY <1>1, <1>2, ReturnTyped
<1>4. receipt' \in Receipts
  BY <1>1, SettledTyped, DeliveryAssumption DEF Settle
<1> QED
  BY <1>3, <1>4

(* Every step keeps the shapes of the receipt file and of the calls. *)
LEMMA DeliveryTypeStep == DeliveryTypeOK /\ [Next]_vars => DeliveryTypeOK'
<1> SUFFICES ASSUME DeliveryTypeOK, [Next]_vars PROVE DeliveryTypeOK'
  OBVIOUS
<1>0. CallsTyped
  BY DEF DeliveryTypeOK, CallsTyped
<1> USE DeliveryAssumption DEF DeliveryTypeOK, PC, Answers, Verdicts
<1>1. CASE UNCHANGED vars
  BY <1>1 DEF vars
<1>2. ASSUME NEW e \in Execs, Reserve(e) PROVE DeliveryTypeOK'
  BY <1>2 DEF Reserve, Receipts, GoTo
<1>3. ASSUME NEW e \in Execs, WriteReserved(e) PROVE DeliveryTypeOK'
  BY <1>3 DEF WriteReserved, Receipts, GoTo
<1>4. ASSUME NEW e \in Execs, WriteReservedFails(e) PROVE DeliveryTypeOK'
  BY <1>4 DEF WriteReservedFails, Return
<1>5. ASSUME NEW e \in Execs, ReserveExists(e) PROVE DeliveryTypeOK'
  BY <1>5 DEF ReserveExists, GoTo
<1>6. ASSUME NEW e \in Execs, ReadExisting(e) PROVE DeliveryTypeOK'
  <2>1. CASE Decide(e)
    BY <1>6, <2>1, DecideTyped DEF ReadExisting, CallsTyped
  <2>2. CASE Return(e, "uncertain") /\ UNCHANGED sawUncertain
    BY <1>6, <1>0, <2>2, ReturnTyped DEF ReadExisting, CallsTyped
  <2>3. CASE GoTo(e, "waiting") /\ UNCHANGED sawUncertain
    BY <1>6, <1>0, <2>3, GoToTyped DEF ReadExisting, CallsTyped
  <2> QED
    BY <1>6, <2>1, <2>2, <2>3 DEF ReadExisting
<1>7. ASSUME NEW e \in Execs, WaitEnds(e) PROVE DeliveryTypeOK'
  <2>1. CASE Decide(e)
    BY <1>7, <2>1, DecideTyped DEF WaitEnds, CallsTyped
  <2>2. CASE Return(e, "in_progress") /\ UNCHANGED sawUncertain
    BY <1>7, <1>0, <2>2, ReturnTyped DEF WaitEnds, CallsTyped
  <2>3. CASE GoTo(e, "claiming") /\ UNCHANGED sawUncertain
    BY <1>7, <1>0, <2>3, GoToTyped DEF WaitEnds, CallsTyped
  <2> QED
    BY <1>7, <2>1, <2>2, <2>3 DEF WaitEnds
<1>8. ASSUME NEW e \in Execs, Claim(e) PROVE DeliveryTypeOK'
  BY <1>8 DEF Claim, Receipts, Claimable, GoTo
<1>9. ASSUME NEW e \in Execs, ClaimDenied(e) PROVE DeliveryTypeOK'
  BY <1>9 DEF ClaimDenied, Return, Replay
<1>10. ASSUME NEW e \in Execs, ClaimThrows(e) PROVE DeliveryTypeOK'
  BY <1>10 DEF ClaimThrows, Return
<1>11. ASSUME NEW e \in Execs, StartHeartbeat(e) PROVE DeliveryTypeOK'
  BY <1>11 DEF StartHeartbeat, Receipts, Send
<1>12. ASSUME NEW e \in Execs, HeartbeatRefused(e) PROVE DeliveryTypeOK'
  BY <1>12 DEF HeartbeatRefused, GoTo
<1>13. ASSUME NEW e \in Execs, DeliverResolves(e) PROVE DeliveryTypeOK'
  <2>1. CallsTyped' /\ receipt' \in Receipts
    BY <1>13, SettleTyped DEF DeliverResolves, Results
  <2> QED
    BY <1>13, <2>1 DEF DeliverResolves, CallsTyped
<1>14. ASSUME NEW e \in Execs, DeliverThrows(e) PROVE DeliveryTypeOK'
  BY <1>14 DEF DeliverThrows, GoTo
<1>15. ASSUME NEW e \in Execs, NEW v \in Verdicts \ {"none"}, ReadBack(e, v)
      PROVE  DeliveryTypeOK'
  BY <1>15 DEF ReadBack
<1>16. ASSUME NEW e \in Execs, RecoverCompleted(e) PROVE DeliveryTypeOK'
  <2>1. CASE Settle(e, "ok", claimed[e])
    BY <1>16, <2>1, SettleTyped DEF RecoverCompleted, CallsTyped, Results
  <2>2. CASE GoTo(e, "lastMark") /\ UNCHANGED receipt
    BY <1>16, <1>0, <2>2, GoToTyped DEF RecoverCompleted, CallsTyped
  <2> QED
    BY <1>16, <2>1, <2>2 DEF RecoverCompleted
<1>17. ASSUME NEW e \in Execs, RecoverRetry(e) PROVE DeliveryTypeOK'
  BY <1>17 DEF RecoverRetry, Send
<1>18. ASSUME NEW e \in Execs, RecoverInProgress(e) PROVE DeliveryTypeOK'
  <2>1. CallsTyped'
    BY <1>18, <1>0, ReturnTyped, GoToTyped DEF RecoverInProgress
  <2>2. receipt' \in Receipts
    <3>1. receipt \in Receipts
      BY DEF DeliveryTypeOK
    <3>2. \/ receipt' = receipt
          \/ receipt' = [receipt EXCEPT !.exec = NoExec, !.expired = FALSE]
      BY <1>18 DEF RecoverInProgress
    <3> QED
      BY ONLY <3>1, <3>2 DEF Receipts
  <2> QED
    BY <1>18, <2>1, <2>2 DEF RecoverInProgress, CallsTyped
<1>19. ASSUME NEW e \in Execs, RecoverUncertainly(e) PROVE DeliveryTypeOK'
  BY <1>19 DEF RecoverUncertainly, GoTo
<1>20. ASSUME NEW e \in Execs, Mark(e) PROVE DeliveryTypeOK'
  BY <1>20 DEF Mark, Receipts, Return
<1>21. ASSUME NEW e \in Execs, MarkThrows(e) PROVE DeliveryTypeOK'
  <2>1. CallsTyped'
    BY <1>21, <1>0, ReturnTyped, GoToTyped DEF MarkThrows
  <2> QED
    BY <1>21, <2>1 DEF MarkThrows, CallsTyped
<1>22. ASSUME NEW e \in Execs, Land(e) PROVE DeliveryTypeOK'
  BY <1>22 DEF Land
<1>23. ASSUME NEW e \in Execs, Lose(e) PROVE DeliveryTypeOK'
  BY <1>23 DEF Lose
<1>24. ASSUME NEW e \in Execs, LoseHeartbeat(e) PROVE DeliveryTypeOK'
  BY <1>24 DEF LoseHeartbeat
<1>25. CASE Expire
  BY <1>25 DEF Expire, Receipts
<1>26. ASSUME NEW p \in Procs, Crash(p) PROVE DeliveryTypeOK'
  BY <1>26 DEF Crash
<1> QED
  BY <1>1, <1>2, <1>3, <1>4, <1>5, <1>6, <1>7, <1>8, <1>9, <1>10, <1>11,
     <1>12, <1>13, <1>14, <1>15, <1>16, <1>17, <1>18, <1>19, <1>20, <1>21,
     <1>22, <1>23, <1>24, <1>25, <1>26
     DEF Next, CallStep

(* Type correctness of the protocol, on any machines and with any options. *)
THEOREM DeliveryTypeCorrect == Spec => []DeliveryTypeOK
<1>1. Init => DeliveryTypeOK
  BY DeliveryAssumption DEF Init, DeliveryTypeOK, Receipts, PC, Results, Answers, Verdicts
<1> QED
  BY <1>1, DeliveryTypeStep, PTL DEF Spec

-----------------------------------------------------------------------------
(* What mutateOwnedReceipt guards, on any machines: the inductive invariant *)
(* ReceiptInv says whose the receipt is, and what it promises to whom.     *)

(* The call that made an unreadable file is still there to write it. *)
CreatorInv ==
    \A e \in Execs : pc[e] = "created" => receipt.st = "partial" /\ receipt.exec = e

(* A receipt that names a call brings that call's payload; the call works   *)
(* on it, or has thrown.                                                   *)
NamedInv ==
    receipt.exec # NoExec =>
        /\ receipt.st \in {"partial", "sending"}
        /\ SameDigest(receipt.exec)
        /\ \/ pc[receipt.exec] = "created" /\ receipt.st = "partial"
           \/ pc[receipt.exec] \in Executing \ {"created"} /\ receipt.st = "sending"
           \/ pc[receipt.exec] = "done" /\ out[receipt.exec] = "threw"

(* A call answers when it returns, and answers true. *)
AnswerInv ==
    /\ \A e \in Execs : pc[e] # "done" => out[e] = "none"
    /\ AnswersAgree

ReceiptInv == DeliveryTypeOK /\ CreatorInv /\ NamedInv /\ AnswerInv

(* The fields of a settled receipt, whatever the machines.                  *)
LEMMA SettledReceipt ==
    ASSUME receipt \in Receipts, NEW r \in Results
    PROVE  /\ Settled(r).exec = NoExec
           /\ Settled(r).digest = receipt.digest
           /\ Settled(r).st \in {"completed", "none"}
           /\ r = "ok" => Settled(r).st = "completed" /\ Settled(r).result = "ok"
BY DEF Settled, NoReceipt, Receipts, Results

(* A call that owns the receipt settles it and answers what it then says.    *)
LEMMA SettleKeepsReceipt ==
    ASSUME ReceiptInv, DeliveryTypeOK', NEW e \in Execs, NEW r \in Results,
           NEW d \in BOOLEAN, pc[e] \in Executing \ {"created"}, Settle(e, r, d)
    PROVE  CreatorInv' /\ NamedInv' /\ AnswerInv'
<1> USE DeliveryAssumption
    DEF ReceiptInv, CreatorInv, NamedInv, AnswerInv, AnswersAgree, Executing, SameDigest,
        DeliveryTypeOK, Return
<1>1. CASE Owns(e)
  <2>1. receipt' = Settled(r)
    BY <1>1 DEF Settle
  <2>2. /\ receipt'.exec = NoExec /\ receipt'.digest = receipt.digest
        /\ r = "ok" => receipt'.st = "completed" /\ receipt'.result = "ok"
    BY <2>1, SettledReceipt
  <2>3. /\ receipt.st = "sending" /\ receipt.exec = e /\ receipt.digest = DigestOf[e]
        /\ \A f \in Execs : pc[f] # "created" /\ out[f] \notin {"sent", "already"}
    BY <1>1 DEF Owns
  <2>4. PICK a \in {"sent", "already", "refused"} :
            Return(e, a) /\ (a = "refused" <=> r = "refused")
    BY <1>1 DEF Settle, Results
  <2>5. CreatorInv'
    BY <2>3, <2>4
  <2>6. NamedInv'
    BY <2>2
  <2>7. AnswerInv'
    BY <2>2, <2>3, <2>4 DEF Results
  <2> QED
    BY <2>5, <2>6, <2>7
<1>2. CASE ~Owns(e)
  <2>1. Return(e, "uncertain") /\ receipt' = receipt
    BY <1>2 DEF Settle
  <2>2. receipt.exec # e
    BY <1>2 DEF Owns
  <2> QED
    BY <2>1, <2>2
<1> QED
  BY <1>1, <1>2

(* The inductive step: one case per action. *)
LEMMA ReceiptInvStep == ReceiptInv /\ [Next]_vars => ReceiptInv'
<1> SUFFICES ASSUME ReceiptInv, [Next]_vars PROVE ReceiptInv'
  OBVIOUS
<1>0. DeliveryTypeOK'
  BY DeliveryTypeStep DEF ReceiptInv
<1> USE DeliveryAssumption, <1>0
    DEF ReceiptInv, CreatorInv, NamedInv, AnswerInv, AnswersAgree, Executing, SameDigest,
        DeliveryTypeOK, Receipts, At
<1>1. CASE UNCHANGED vars
  BY <1>1 DEF vars
<1>2. ASSUME NEW e \in Execs, Reserve(e) PROVE ReceiptInv'
  BY <1>2 DEF Reserve, GoTo
<1>3. ASSUME NEW e \in Execs, WriteReserved(e) PROVE ReceiptInv'
  BY <1>3 DEF WriteReserved, GoTo
<1>4. ASSUME NEW e \in Execs, WriteReservedFails(e) PROVE ReceiptInv'
  BY <1>4 DEF WriteReservedFails, Return
<1>5. ASSUME NEW e \in Execs, ReserveExists(e) PROVE ReceiptInv'
  BY <1>5 DEF ReserveExists, GoTo
<1>6. ASSUME NEW e \in Execs, ReadExisting(e) PROVE ReceiptInv'
  BY <1>6 DEF ReadExisting, Readable, Decide, Replay, Return, GoTo
<1>7. ASSUME NEW e \in Execs, WaitEnds(e) PROVE ReceiptInv'
  BY <1>7 DEF WaitEnds, Readable, Decide, Replay, Return, GoTo
<1>8. ASSUME NEW e \in Execs, Claim(e) PROVE ReceiptInv'
  BY <1>8 DEF Claim, Claimable, Readable, GoTo
<1>9. ASSUME NEW e \in Execs, ClaimDenied(e) PROVE ReceiptInv'
  BY <1>9 DEF ClaimDenied, Return, Replay, Readable
<1>10. ASSUME NEW e \in Execs, ClaimThrows(e) PROVE ReceiptInv'
  BY <1>10 DEF ClaimThrows, Return
<1>11. ASSUME NEW e \in Execs, StartHeartbeat(e) PROVE ReceiptInv'
  BY <1>11 DEF StartHeartbeat, Owns
<1>12. ASSUME NEW e \in Execs, HeartbeatRefused(e) PROVE ReceiptInv'
  BY <1>12 DEF HeartbeatRefused, GoTo
<1>13. ASSUME NEW e \in Execs, DeliverResolves(e) PROVE ReceiptInv'
  BY <1>13, SettleKeepsReceipt DEF DeliverResolves, Results
<1>14. ASSUME NEW e \in Execs, DeliverThrows(e) PROVE ReceiptInv'
  BY <1>14 DEF DeliverThrows, GoTo
<1>15. ASSUME NEW e \in Execs, NEW v \in Verdicts \ {"none"}, ReadBack(e, v)
      PROVE  ReceiptInv'
  BY <1>15 DEF ReadBack
<1>16. ASSUME NEW e \in Execs, RecoverCompleted(e) PROVE ReceiptInv'
  <2>1. CASE \E d \in BOOLEAN : Settle(e, "ok", d)
    BY <1>16, <2>1, SettleKeepsReceipt DEF RecoverCompleted, Results
  <2>2. CASE GoTo(e, "lastMark") /\ UNCHANGED receipt
    BY <1>16, <2>2 DEF RecoverCompleted, GoTo
  <2> QED
    BY <1>16, <2>1, <2>2 DEF RecoverCompleted
<1>17. ASSUME NEW e \in Execs, RecoverRetry(e) PROVE ReceiptInv'
  BY <1>17 DEF RecoverRetry
<1>18. ASSUME NEW e \in Execs, RecoverInProgress(e) PROVE ReceiptInv'
  <2>1. CASE Owns(e) /\ Return(e, "in_progress")
    <3>0. ~GoTo(e, "lastMark")
      BY <2>1 DEF Return, GoTo
    <3>1. receipt'.exec = NoExec
      <4>1. receipt' = [receipt EXCEPT !.exec = NoExec, !.expired = FALSE]
        BY <1>18, <2>1, <3>0 DEF RecoverInProgress
      <4> QED
        BY <4>1
    <3>2. \A f \in Execs : pc[f] # "created" /\ out[f] \notin {"sent", "already"}
      BY <2>1 DEF Owns
    <3> QED
      BY <2>1, <3>1, <3>2 DEF Return
  <2>2. CASE ~Owns(e) /\ Return(e, "in_progress")
    BY <1>18, <2>2 DEF RecoverInProgress, Return, Owns
  <2>3. CASE GoTo(e, "lastMark") /\ UNCHANGED receipt
    BY <1>18, <2>3 DEF RecoverInProgress, GoTo
  <2> QED
    BY <1>18, <2>1, <2>2, <2>3 DEF RecoverInProgress
<1>19. ASSUME NEW e \in Execs, RecoverUncertainly(e) PROVE ReceiptInv'
  BY <1>19 DEF RecoverUncertainly, GoTo
<1>20. ASSUME NEW e \in Execs, Mark(e) PROVE ReceiptInv'
  <2>1. CASE Owns(e)
    BY <1>20, <2>1 DEF Mark, Return, Owns
  <2>2. CASE ~Owns(e)
    BY <1>20, <2>2 DEF Mark, Return, Owns
  <2> QED
    BY <2>1, <2>2
<1>21. ASSUME NEW e \in Execs, MarkThrows(e) PROVE ReceiptInv'
  BY <1>21 DEF MarkThrows, Return, GoTo
<1>22. ASSUME NEW e \in Execs, Land(e) PROVE ReceiptInv'
  BY <1>22 DEF Land
<1>23. ASSUME NEW e \in Execs, Lose(e) PROVE ReceiptInv'
  BY <1>23 DEF Lose
<1>24. ASSUME NEW e \in Execs, LoseHeartbeat(e) PROVE ReceiptInv'
  BY <1>24 DEF LoseHeartbeat
<1>25. CASE Expire
  BY <1>25 DEF Expire
<1>26. ASSUME NEW p \in Procs, Crash(p) PROVE ReceiptInv'
  BY <1>26 DEF Crash
<1> QED
  BY <1>1, <1>2, <1>3, <1>4, <1>5, <1>6, <1>7, <1>8, <1>9, <1>10, <1>11, <1>12, <1>13,
     <1>14, <1>15, <1>16, <1>17, <1>18, <1>19, <1>20, <1>21, <1>22, <1>23, <1>24, <1>25, <1>26
     DEF Next, CallStep

(* The invariant of the receipt, on any machines and with any options. *)
LEMMA ReceiptInvariant == Spec => []ReceiptInv
<1>1. Init => ReceiptInv
  <2> SUFFICES ASSUME Init PROVE ReceiptInv
    OBVIOUS
  <2>1. DeliveryTypeOK
    BY DeliveryAssumption DEF Init, DeliveryTypeOK, Receipts, PC, Results, Answers, Verdicts
  <2>2. receipt.exec = NoExec
    BY DEF Init
  <2> QED
    BY <2>1, <2>2 DEF Init, ReceiptInv, CreatorInv, NamedInv, AnswerInv, AnswersAgree
<1> QED
  BY <1>1, ReceiptInvStep, PTL DEF Spec

(* "in_progress" is true: a "sending" receipt that names a live call is     *)
(* being worked on by it, or that call's caller got the error; no answer of *)
(* executeDurableDelivery leaves its own execution behind.                 *)
THEOREM NamedCallIsWorking == Spec => []SendingIsWorkedOn
<1>1. ReceiptInv => SendingIsWorkedOn
  BY DEF ReceiptInv, NamedInv, SendingIsWorkedOn
<1> QED
  BY <1>1, ReceiptInvariant, PTL

(* A call that was told "completed" was told what the receipt says forever, *)
(* also when machines take the receipt over from each other.               *)
THEOREM AnswersStayTrue == Spec => []AnswersAgree
<1>1. ReceiptInv => AnswersAgree
  BY DEF ReceiptInv, AnswerInv
<1> QED
  BY <1>1, ReceiptInvariant, PTL

(* What a step of a call changes in the receipt file: nothing, unless the    *)
(* call makes the file, claims it, or owns it.                             *)
LEMMA WhoWrites ==
    ASSUME NEW e \in Execs, CallStep(e)
    PROVE  \/ receipt' = receipt
           \/ Reserve(e) \/ WriteReserved(e) \/ Claim(e)
           \/ pc[e] \in Executing /\ Owns(e)
BY DEF CallStep, At, WriteReservedFails, ReserveExists, ReadExisting, WaitEnds, ClaimDenied,
       ClaimThrows, StartHeartbeat, HeartbeatRefused, DeliverResolves, DeliverThrows, Settle,
       ReadBack, RecoverCompleted, RecoverRetry, RecoverInProgress, RecoverUncertainly, Mark,
       MarkThrows, Executing

(* A step of a call moves no other call. *)
LEMMA OnlyCallerMoves ==
    ASSUME DeliveryTypeOK, NEW e \in Execs, NEW f \in Execs, f # e, CallStep(f)
    PROVE  pc'[e] = pc[e]
<1>1. pc' = pc \/ \E s \in PC : pc' = [pc EXCEPT ![f] = s]
  <2>1. CASE \E a \in Answers : Return(f, a)
    BY <2>1 DEF Return, PC
  <2>2. CASE \E s \in PC : GoTo(f, s)
    BY <2>2 DEF GoTo
  <2>3. CASE StartHeartbeat(f) \/ RecoverRetry(f) \/ \E v \in Verdicts \ {"none"} : ReadBack(f, v)
    BY <2>3 DEF StartHeartbeat, RecoverRetry, ReadBack, PC
  <2>4. CASE \/ ReadExisting(f) \/ WaitEnds(f) \/ DeliverResolves(f) \/ DeliverThrows(f)
             \/ RecoverCompleted(f) \/ RecoverInProgress(f) \/ MarkThrows(f)
    BY <2>4, <2>1, <2>2 DEF ReadExisting, WaitEnds, DeliverResolves, DeliverThrows,
       RecoverCompleted, RecoverInProgress, MarkThrows, Decide, Settle, Replay, PC, Answers
  <2> QED
    BY <2>1, <2>2, <2>3, <2>4 DEF CallStep, Reserve, WriteReserved, WriteReservedFails,
       ReserveExists, Claim, ClaimDenied, ClaimThrows, HeartbeatRefused, RecoverUncertainly,
       Mark, Replay, PC, Answers
<1> QED
  BY <1>1 DEF DeliveryTypeOK

(* A completed receipt is never changed or removed again, whoever comes     *)
(* late: a replaced execution, a takeover, a heartbeat.                    *)
THEOREM CompletedReceiptIsFinal == Spec => CompletedIsFinal
<1>1. ASSUME ReceiptInv, [Next]_vars, receipt.st = "completed" PROVE receipt' = receipt
  <2>1. ASSUME NEW e \in Execs, CallStep(e) PROVE receipt' = receipt
    BY <1>1, <2>1, WhoWrites
       DEF ReceiptInv, CreatorInv, Reserve, WriteReserved, Claim, Claimable, Owns, At
  <2> QED
    BY <1>1, <2>1 DEF Next, vars, Land, Lose, LoseHeartbeat, Expire, Crash
<1>2. ReceiptInv /\ [Next]_vars => [receipt.st = "completed" => receipt' = receipt]_vars
  BY <1>1
<1> QED
  BY <1>2, ReceiptInvariant, PTL DEF Spec, CompletedIsFinal

(* mutateOwnedReceipt's fence: an execution that was replaced, on whatever  *)
(* machine, never touches the receipt of its replacement.                  *)
THEOREM ReplacedCallKeepsOff == Spec => ReplacementUntouched
<1> DEFINE Fenced == \A e \in Execs :
        pc[e] \in Executing /\ receipt.exec # e /\ pc'[e] # pc[e] => receipt' = receipt
<1>1. ASSUME ReceiptInv, [Next]_vars PROVE Fenced
  <2> SUFFICES ASSUME NEW e \in Execs, pc[e] \in Executing, receipt.exec # e, pc'[e] # pc[e]
               PROVE  receipt' = receipt
    OBVIOUS
  <2>1. CallStep(e)
    BY <1>1, OnlyCallerMoves
       DEF ReceiptInv, Next, vars, Land, Lose, LoseHeartbeat, Expire, Crash
  <2>2. \/ receipt' = receipt
        \/ Reserve(e) \/ WriteReserved(e) \/ Claim(e) \/ Owns(e)
    BY <2>1, WhoWrites
  <2> QED
    BY <1>1, <2>2 DEF ReceiptInv, CreatorInv, Reserve, WriteReserved, Claim, Owns, At, Executing
<1>2. ReceiptInv /\ [Next]_vars => [Fenced]_vars
  BY <1>1
<1> QED
  BY <1>2, ReceiptInvariant, PTL DEF Spec, ReplacementUntouched

-----------------------------------------------------------------------------
(* The inductive invariant, for calls of one machine. *)

(* No effect so far, and none to come from a request already sent. *)
Clean == effects = 0 /\ \A f \in Execs : req[f] # "flying"

(* A live call that is executing is the one the receipt names. *)
OwnershipInv ==
    \A e \in Execs : Live(e) /\ pc[e] \in Executing =>
        /\ receipt.exec = e
        /\ SameDigest(e)
        /\ receipt.st = IF pc[e] = "created" THEN "partial" ELSE "sending"

(* What is known about requests and effects where a request may be sent. *)
FlightInv ==
    /\ effects \in {0, 1}
    /\ \A e \in Execs : req[e] = "flying" => effects = 0
    /\ \A e, f \in Execs : req[e] = "flying" /\ req[f] = "flying" => e = f
    /\ receipt.st = "none" => Clean
    /\ \A e \in Execs : Live(e) =>
          /\ pc[e] \in {"created", "owning"} /\ ~claimed[e] => Clean
          /\ pc[e] = "recovering" /\ verdict[e] = "retry" => Clean
          /\ pc[e] = "recovering" /\ verdict[e] = "completed" => effects = 1
          /\ pc[e] \in {"delivering", "retrying"} =>
                /\ \A f \in Execs : f # e => req[f] # "flying"
                /\ req[e] = "landed" => effects = 1
                /\ req[e] = "lost" => effects = 0

(* What the receipt and the answers say is so. *)
TruthInv ==
    /\ receipt.st = "completed" /\ receipt.result = "ok" => effects = 1
    /\ receipt.st = "completed" /\ receipt.result = "refused" => Clean
    /\ \A e \in Execs : pc[e] # "done" => out[e] = "none"
    /\ \A e \in Execs : pc[e] \in {"start", "created", "reading", "waiting", "claiming",
                                   "owning", "delivering"} => verdict[e] = "none"
    /\ AnswersAgree

DeliveryInv == DeliveryTypeOK /\ OwnershipInv /\ FlightInv /\ TruthInv

(* What settleOwnedResult leaves in the receipt. *)
LEMMA SettledFields ==
    ASSUME receipt \in Receipts
    PROVE  /\ Settled("ok").st = "completed"
           /\ Settled("ok").result = "ok"
           /\ Settled("ok").digest = receipt.digest
           /\ \/ Settled("refused").st = "completed" /\ Settled("refused").result = "refused"
              \/ Settled("refused").st = "none"
BY DEF Settled, NoReceipt, Receipts

(* What releaseOwnedSending leaves in it. *)
LEMMA ReleasedFields ==
    ASSUME receipt \in Receipts
    PROVE  [receipt EXCEPT !.exec = NoExec, !.expired = FALSE].st = receipt.st
BY DEF Receipts

(* The inductive step: one case per action. *)
LEMMA DeliveryInvStep ==
    ASSUME SingleHost, DeliveryInv, [Next]_vars
    PROVE  DeliveryInv'
<1>0. DeliveryTypeOK'
  BY DeliveryTypeStep DEF DeliveryInv
<1> USE DeliveryAssumption, <1>0
    DEF DeliveryInv, OwnershipInv, FlightInv, TruthInv, AnswersAgree, Clean, Executing,
        Live, At, SameDigest, DeliveryTypeOK, Receipts, Results
<1>1. CASE UNCHANGED vars
  BY <1>1 DEF vars
<1>2. ASSUME NEW e \in Execs, Reserve(e) PROVE DeliveryInv'
  BY <1>2 DEF Reserve, GoTo
<1>3. ASSUME NEW e \in Execs, WriteReserved(e) PROVE DeliveryInv'
  <2>1. receipt.exec = e /\ receipt.st = "partial" /\ SameDigest(e)
    BY <1>3 DEF WriteReserved
  <2>2. receipt'.exec = e /\ receipt'.st = "sending" /\ SameDigest(e)'
    BY <1>3, <2>1 DEF WriteReserved, GoTo
  <2>3. OwnershipInv'
    BY <1>3, <2>1, <2>2 DEF WriteReserved, GoTo
  <2>4. FlightInv'
    BY <1>3, <2>2 DEF WriteReserved, GoTo
  <2>5. TruthInv'
    BY <1>3, <2>1, <2>2 DEF WriteReserved, GoTo
  <2> QED
    BY <2>3, <2>4, <2>5
<1>4. ASSUME NEW e \in Execs, WriteReservedFails(e) PROVE DeliveryInv'
  BY <1>4 DEF WriteReservedFails, Return
<1>5. ASSUME NEW e \in Execs, ReserveExists(e) PROVE DeliveryInv'
  BY <1>5 DEF ReserveExists, GoTo
<1>6. ASSUME NEW e \in Execs, ReadExisting(e) PROVE DeliveryInv'
  BY <1>6 DEF ReadExisting, Decide, Replay, Return, GoTo
<1>7. ASSUME NEW e \in Execs, WaitEnds(e) PROVE DeliveryInv'
  BY <1>7 DEF WaitEnds, Decide, Replay, Return, GoTo
<1>8. ASSUME NEW e \in Execs, Claim(e) PROVE DeliveryInv'
  <2>1. \A f \in Execs : Live(f) => pc[f] \notin Executing
    <3> SUFFICES ASSUME NEW f \in Execs, Live(f), pc[f] \in Executing PROVE FALSE
      OBVIOUS
    <3>1. receipt.exec = f /\ (receipt.st = "partial" \/ receipt.st = "sending")
      OBVIOUS
    <3>2. receipt.st = "sending" /\ ~Active(e)
      BY <1>8, <3>1 DEF Claim, Claimable, Readable
    <3>3. HostOf[ProcOf[f]] = HostOf[ProcOf[e]]
      BY DEF SingleHost
    <3> QED
      BY <3>1, <3>2, <3>3 DEF Active
  <2>2. receipt'.exec = e /\ receipt'.st = "sending" /\ SameDigest(e)'
    BY <1>8 DEF Claim, Claimable, GoTo
  <2>3. OwnershipInv'
    BY <1>8, <2>1, <2>2 DEF Claim, GoTo
  <2>4. FlightInv'
    BY <1>8, <2>1, <2>2 DEF Claim, GoTo
  <2>5. TruthInv'
    BY <1>8, <2>2 DEF Claim, Claimable, Readable, GoTo
  <2> QED
    BY <2>3, <2>4, <2>5
<1>9. ASSUME NEW e \in Execs, ClaimDenied(e) PROVE DeliveryInv'
  BY <1>9 DEF ClaimDenied, Return, Replay
<1>10. ASSUME NEW e \in Execs, ClaimThrows(e) PROVE DeliveryInv'
  BY <1>10 DEF ClaimThrows, Return
<1>11. ASSUME NEW e \in Execs, StartHeartbeat(e) PROVE DeliveryInv'
  BY <1>11 DEF StartHeartbeat, Send
<1>12. ASSUME NEW e \in Execs, HeartbeatRefused(e) PROVE DeliveryInv'
  BY <1>12 DEF HeartbeatRefused, GoTo
<1>13. ASSUME NEW e \in Execs, DeliverResolves(e) PROVE DeliveryInv'
  <2>1. Owns(e) /\ verdict' = verdict /\ alive' = alive /\ req' = req /\ effects' = effects
          /\ claimed' = claimed
    BY <1>13 DEF DeliverResolves, Owns
  <2>2. \A f \in Execs : f # e /\ Live(f) => pc[f] \notin Executing
    BY <2>1 DEF Owns
  <2>3. CASE req[e] = "landed" /\ Settle(e, "ok", FALSE)
    <3>0. receipt' = Settled("ok")
      BY <2>1, <2>3 DEF Settle
    <3>1. receipt'.st = "completed" /\ receipt'.result = "ok" /\ SameDigest(e)'
      BY <2>1, <3>0, SettledFields DEF Owns
    <3>2. effects = 1
      BY <1>13, <2>3 DEF DeliverResolves
    <3>3. pc' = [pc EXCEPT ![e] = "done"] /\ out' = [out EXCEPT ![e] = "sent"]
      BY <2>1, <2>3 DEF Settle, Return
    <3>4. \A f \in Execs : out[f] \notin {"sent", "already"}
      BY <2>1 DEF Owns
    <3> QED
      BY <2>1, <2>2, <3>1, <3>2, <3>3, <3>4
  <2>4. CASE req[e] = "lost" /\ Settle(e, "refused", FALSE)
    <3>0. receipt' = Settled("refused")
      BY <2>1, <2>4 DEF Settle
    <3>1. \/ receipt'.st = "completed" /\ receipt'.result = "refused"
          \/ receipt'.st = "none"
      BY <3>0, SettledFields
    <3>2. Clean
      BY <1>13, <2>4 DEF DeliverResolves
    <3>3. pc' = [pc EXCEPT ![e] = "done"] /\ out' = [out EXCEPT ![e] = "refused"]
      BY <2>1, <2>4 DEF Settle, Return
    <3>4. \A f \in Execs : out[f] \notin {"sent", "already"}
      BY <2>1 DEF Owns
    <3> QED
      BY <2>1, <2>2, <3>1, <3>2, <3>3, <3>4
  <2> QED
    BY <1>13, <2>3, <2>4 DEF DeliverResolves
<1>14. ASSUME NEW e \in Execs, DeliverThrows(e) PROVE DeliveryInv'
  BY <1>14 DEF DeliverThrows, GoTo
<1>15. ASSUME NEW e \in Execs, NEW v \in Verdicts \ {"none"}, ReadBack(e, v)
      PROVE  DeliveryInv'
  <2>1. OwnershipInv'
    BY <1>15 DEF ReadBack
  <2>2. FlightInv'
    <3>1. v = "retry" => Clean
      BY <1>15 DEF ReadBack, InFlight
    <3>2. v = "completed" => effects = 1
      BY <1>15 DEF ReadBack
    <3>3. verdict' = [verdict EXCEPT ![e] = v]
            /\ UNCHANGED <<receipt, pc, claimed, alive, req, effects>>
      BY <1>15 DEF ReadBack
    <3> QED
      BY <3>1, <3>2, <3>3
  <2>3. TruthInv'
    BY <1>15 DEF ReadBack
  <2> QED
    BY <2>1, <2>2, <2>3
<1>16. ASSUME NEW e \in Execs, RecoverCompleted(e) PROVE DeliveryInv'
  <2>1. Owns(e) /\ verdict' = verdict /\ alive' = alive /\ req' = req /\ effects' = effects
          /\ claimed' = claimed /\ effects = 1
    BY <1>16 DEF RecoverCompleted, Owns
  <2>2. \A f \in Execs : f # e /\ Live(f) => pc[f] \notin Executing
    BY <2>1 DEF Owns
  <2>3. CASE Settle(e, "ok", claimed[e])
    <3>0. receipt' = Settled("ok")
      BY <2>1, <2>3 DEF Settle
    <3>1. receipt'.st = "completed" /\ receipt'.result = "ok" /\ SameDigest(e)'
      BY <2>1, <3>0, SettledFields DEF Owns
    <3>2. pc' = [pc EXCEPT ![e] = "done"]
      BY <2>1, <2>3 DEF Settle, Return
    <3>3. PICK a \in {"sent", "already"} : out' = [out EXCEPT ![e] = a]
      BY <2>1, <2>3 DEF Settle, Return
    <3>4. \A f \in Execs : out[f] \notin {"sent", "already"}
      BY <2>1 DEF Owns
    <3> QED
      BY <2>1, <2>2, <3>1, <3>2, <3>3, <3>4
  <2>4. CASE GoTo(e, "lastMark") /\ UNCHANGED receipt
    BY <1>16, <2>1, <2>2, <2>4 DEF RecoverCompleted, GoTo
  <2> QED
    BY <1>16, <2>3, <2>4 DEF RecoverCompleted
<1>17. ASSUME NEW e \in Execs, RecoverRetry(e) PROVE DeliveryInv'
  BY <1>17 DEF RecoverRetry, Send
<1>18. ASSUME NEW e \in Execs, RecoverInProgress(e) PROVE DeliveryInv'
  <2>1. Owns(e)
    BY <1>18 DEF RecoverInProgress, Owns
  <2>2. \A f \in Execs : f # e /\ Live(f) => pc[f] \notin Executing
    BY <2>1 DEF Owns
  <2>3. CASE Return(e, "in_progress")
    <3>0. \/ receipt' = receipt
          \/ receipt' = [receipt EXCEPT !.exec = NoExec, !.expired = FALSE]
      BY <1>18 DEF RecoverInProgress
    <3>1. receipt'.st = receipt.st
      <4>1. CASE receipt' = receipt
        BY <4>1
      <4>2. CASE receipt' = [receipt EXCEPT !.exec = NoExec, !.expired = FALSE]
        BY <4>2, ReleasedFields
      <4> QED
        BY <3>0, <4>1, <4>2
    <3>2. receipt'.st = "sending"
      BY <2>1, <3>1 DEF Owns
    <3> QED
      BY <1>18, <2>1, <2>2, <2>3, <3>2 DEF RecoverInProgress, Return, Owns
  <2>4. CASE GoTo(e, "lastMark") /\ UNCHANGED receipt
    BY <1>18, <2>1, <2>2, <2>4 DEF RecoverInProgress, GoTo
  <2> QED
    BY <1>18, <2>3, <2>4 DEF RecoverInProgress
<1>19. ASSUME NEW e \in Execs, RecoverUncertainly(e) PROVE DeliveryInv'
  BY <1>19 DEF RecoverUncertainly, GoTo
<1>20. ASSUME NEW e \in Execs, Mark(e) PROVE DeliveryInv'
  BY <1>20 DEF Mark, Return
<1>21. ASSUME NEW e \in Execs, MarkThrows(e) PROVE DeliveryInv'
  BY <1>21 DEF MarkThrows, Return, GoTo
<1>22. ASSUME NEW e \in Execs, Land(e) PROVE DeliveryInv'
  BY <1>22 DEF Land
<1>23. ASSUME NEW e \in Execs, Lose(e) PROVE DeliveryInv'
  BY <1>23 DEF Lose
<1>24. ASSUME NEW e \in Execs, LoseHeartbeat(e) PROVE DeliveryInv'
  BY <1>24 DEF LoseHeartbeat
<1>25. CASE Expire
  BY <1>25 DEF Expire
<1>26. ASSUME NEW p \in Procs, Crash(p) PROVE DeliveryInv'
  BY <1>26 DEF Crash
<1> QED
  BY <1>1, <1>2, <1>3, <1>4, <1>5, <1>6, <1>7, <1>8, <1>9, <1>10, <1>11,
     <1>12, <1>13, <1>14, <1>15, <1>16, <1>17, <1>18, <1>19, <1>20, <1>21,
     <1>22, <1>23, <1>24, <1>25, <1>26
     DEF Next, CallStep

(* The invariant of calls of one machine, crashes included. *)
LEMMA DeliveryInvariant ==
    ASSUME SingleHost
    PROVE  Spec => []DeliveryInv
<1>1. Init => DeliveryInv
  <2> SUFFICES ASSUME Init PROVE DeliveryInv
    OBVIOUS
  <2>1. DeliveryTypeOK
    BY DeliveryAssumption DEF Init, DeliveryTypeOK, Receipts, PC, Results, Answers, Verdicts
  <2>2. receipt.st = "none"
    BY DEF Init
  <2> QED
    BY <2>1, <2>2 DEF Init, DeliveryInv, OwnershipInv, FlightInv, TruthInv, AnswersAgree,
                      Clean, Executing, Live
<1>2. DeliveryInv /\ [Next]_vars => DeliveryInv'
  BY DeliveryInvStep
<1> QED
  BY <1>1, <1>2, PTL DEF Spec

(* One deliveryId has at most one effect: for any number of calls and      *)
(* processes of one machine, any options of executeDurableDelivery, any    *)
(* crashes, lock timeouts and takeovers, if recover() reads truly.         *)
THEOREM DeliveredAtMostOnce ==
    ASSUME SingleHost
    PROVE  Spec => []AtMostOnce
<1>1. DeliveryInv => AtMostOnce
  BY DEF DeliveryInv, FlightInv, AtMostOnce
<1> QED
  BY <1>1, DeliveryInvariant, PTL

(* A takeover never overlaps an execution that still runs. *)
THEOREM TakeoverIsExclusive ==
    ASSUME SingleHost
    PROVE  Spec => []SoleExecutor
<1>1. DeliveryInv => SoleExecutor
  BY DEF DeliveryInv, OwnershipInv, SoleExecutor
<1> QED
  BY <1>1, DeliveryInvariant, PTL

(* On one machine a delivering call keeps its receipt, also during the      *)
(* retry, when its heartbeat has stopped: what two machines do not have.    *)
THEOREM OneMachineFences ==
    ASSUME SingleHost
    PROVE  Spec => []DeliveringIsFenced
<1>1. DeliveryInv => DeliveringIsFenced
  BY DEF DeliveryInv, OwnershipInv, DeliveringIsFenced, Executing, Owns
<1> QED
  BY <1>1, DeliveryInvariant, PTL

-----------------------------------------------------------------------------
(* The refinement of DeliveryContract. *)

(* A call that returns, having said something true, makes the contract's     *)
(* Answer step.                                                            *)
LEMMA ReturnAnswers ==
    ASSUME DeliveryInv, NEW e \in Execs, NEW a \in Answers, pc[e] # "done",
           Return(e, a), effects' = effects, Promise!True(a)
    PROVE  Promise!ContractNext
<1>1. out[e] = "none"
  BY DEF DeliveryInv, TruthInv
<1>2. Promise!Answer(e, a)
  BY <1>1 DEF Promise!Answer, Return
<1>3. out'[e] # out[e]
  BY <1>1 DEF DeliveryInv, DeliveryTypeOK, Return, Answers
<1> QED
  BY <1>2, <1>3 DEF Promise!ContractNext, Promise!Answers, Promise!NoClaim, Answers

(* Answering "in_progress", "uncertain", "conflict" or with an error        *)
(* claims nothing.                                                         *)
LEMMA NothingClaimed ==
    ASSUME NEW a \in {"in_progress", "uncertain", "conflict", "threw"}
    PROVE  Promise!True(a)
BY DEF Promise!True

(* Replaying a completed receipt is true. *)
LEMMA ReplayTrue ==
    ASSUME DeliveryInv, receipt.st = "completed"
    PROVE  Replay \in Answers /\ Promise!True(Replay)
<1>1. receipt.result \in {"ok", "refused"}
  BY DEF DeliveryInv, DeliveryTypeOK, Receipts, Results
<1> QED
  BY <1>1 DEF DeliveryInv, TruthInv, Clean, Replay, Answers, Promise!True

(* Settling an owned receipt is true when the effect is there, or cannot be. *)
LEMMA SettleAnswers ==
    ASSUME DeliveryInv, NEW e \in Execs, NEW r \in Results, NEW d \in BOOLEAN,
           pc[e] # "done", Settle(e, r, d), effects' = effects, Owns(e),
           effects = IF r = "ok" THEN 1 ELSE 0
    PROVE  Promise!ContractNext
<1>1. \A f \in Execs : out[f] # "sent"
  BY DEF DeliveryInv, TruthInv, AnswersAgree, Owns
<1>2. PICK a \in {"sent", "already", "refused"} :
          Return(e, a) /\ (a = "refused" <=> r = "refused")
  BY DEF Settle, Results
<1>3. Promise!True(a)
  BY <1>1, <1>2 DEF Promise!True, Results
<1> QED
  BY <1>2, <1>3, ReturnAnswers DEF Answers

(* Deciding from the receipt just read answers truly, or goes on silently. *)
LEMMA DecideAnswers ==
    ASSUME DeliveryInv, NEW e \in Execs, pc[e] # "done", Decide(e), effects' = effects
    PROVE  Promise!ContractNext \/ UNCHANGED <<effects, out>>
<1>1. CASE receipt.st = "completed" /\ Return(e, Replay)
  BY <1>1, ReplayTrue, ReturnAnswers
<1>2. CASE \E a \in {"conflict", "uncertain", "in_progress"} : Return(e, a)
  BY <1>2, NothingClaimed, ReturnAnswers DEF Answers
<1>3. CASE GoTo(e, "claiming")
  BY <1>3 DEF GoTo
<1> QED
  BY <1>1, <1>2, <1>3 DEF Decide

(* Every step of the protocol is a step of the contract, or hidden from it. *)
LEMMA ContractStep ==
    ASSUME DeliveryInv, [Next]_vars
    PROVE  Promise!ContractNext \/ UNCHANGED <<effects, out>>
<1>1. CASE UNCHANGED vars
  BY <1>1 DEF vars
<1>2. ASSUME NEW e \in Execs, Reserve(e)
      PROVE  Promise!ContractNext \/ UNCHANGED <<effects, out>>
  BY <1>2 DEF Reserve, GoTo
<1>3. ASSUME NEW e \in Execs, WriteReserved(e)
      PROVE  Promise!ContractNext \/ UNCHANGED <<effects, out>>
  BY <1>3 DEF WriteReserved, GoTo
<1>4. ASSUME NEW e \in Execs, WriteReservedFails(e)
      PROVE  Promise!ContractNext \/ UNCHANGED <<effects, out>>
  BY <1>4, NothingClaimed, ReturnAnswers DEF WriteReservedFails, At, Answers
<1>5. ASSUME NEW e \in Execs, ReserveExists(e)
      PROVE  Promise!ContractNext \/ UNCHANGED <<effects, out>>
  BY <1>5 DEF ReserveExists, GoTo
<1>6. ASSUME NEW e \in Execs, ReadExisting(e)
      PROVE  Promise!ContractNext \/ UNCHANGED <<effects, out>>
  <2>1. CASE Decide(e)
    BY <1>6, <2>1, DecideAnswers DEF ReadExisting, At
  <2>2. CASE Return(e, "uncertain")
    BY <1>6, <2>2, NothingClaimed, ReturnAnswers DEF ReadExisting, At, Answers
  <2> QED
    BY <1>6, <2>1, <2>2 DEF ReadExisting, GoTo
<1>7. ASSUME NEW e \in Execs, WaitEnds(e)
      PROVE  Promise!ContractNext \/ UNCHANGED <<effects, out>>
  <2>1. CASE Decide(e)
    BY <1>7, <2>1, DecideAnswers DEF WaitEnds, At
  <2>2. CASE Return(e, "in_progress")
    BY <1>7, <2>2, NothingClaimed, ReturnAnswers DEF WaitEnds, At, Answers
  <2> QED
    BY <1>7, <2>1, <2>2 DEF WaitEnds, GoTo
<1>8. ASSUME NEW e \in Execs, Claim(e)
      PROVE  Promise!ContractNext \/ UNCHANGED <<effects, out>>
  BY <1>8 DEF Claim, Claimable, GoTo
<1>9. ASSUME NEW e \in Execs, ClaimDenied(e)
      PROVE  Promise!ContractNext \/ UNCHANGED <<effects, out>>
  <2>1. CASE receipt.st = "completed" /\ Return(e, Replay)
    BY <1>9, <2>1, ReplayTrue, ReturnAnswers DEF ClaimDenied, At
  <2>2. CASE \E a \in {"conflict", "uncertain", "in_progress"} : Return(e, a)
    BY <1>9, <2>2, NothingClaimed, ReturnAnswers DEF ClaimDenied, At, Answers
  <2> QED
    BY <1>9, <2>1, <2>2 DEF ClaimDenied
<1>10. ASSUME NEW e \in Execs, ClaimThrows(e)
      PROVE  Promise!ContractNext \/ UNCHANGED <<effects, out>>
  BY <1>10, NothingClaimed, ReturnAnswers DEF ClaimThrows, At, Answers
<1>11. ASSUME NEW e \in Execs, StartHeartbeat(e)
      PROVE  Promise!ContractNext \/ UNCHANGED <<effects, out>>
  BY <1>11 DEF StartHeartbeat, Send
<1>12. ASSUME NEW e \in Execs, HeartbeatRefused(e)
      PROVE  Promise!ContractNext \/ UNCHANGED <<effects, out>>
  BY <1>12 DEF HeartbeatRefused, GoTo
<1>13. ASSUME NEW e \in Execs, DeliverResolves(e)
      PROVE  Promise!ContractNext \/ UNCHANGED <<effects, out>>
  <2>1. Owns(e)
    BY <1>13 DEF DeliverResolves, At, Owns, DeliveryInv, OwnershipInv, Executing
  <2>2. CASE req[e] = "landed" /\ Settle(e, "ok", FALSE)
    <3>1. effects = 1
      BY <1>13, <2>2 DEF DeliverResolves, At, DeliveryInv, FlightInv
    <3> QED
      BY <1>13, <2>1, <2>2, <3>1, SettleAnswers DEF DeliverResolves, At, Results
  <2>3. CASE req[e] = "lost" /\ Settle(e, "refused", FALSE)
    <3>1. effects = 0
      BY <1>13, <2>3 DEF DeliverResolves, At, DeliveryInv, FlightInv
    <3> QED
      BY <1>13, <2>1, <2>3, <3>1, SettleAnswers DEF DeliverResolves, At, Results
  <2> QED
    BY <1>13, <2>2, <2>3 DEF DeliverResolves
<1>14. ASSUME NEW e \in Execs, DeliverThrows(e)
      PROVE  Promise!ContractNext \/ UNCHANGED <<effects, out>>
  BY <1>14 DEF DeliverThrows, GoTo
<1>15. ASSUME NEW e \in Execs, NEW v \in Verdicts \ {"none"}, ReadBack(e, v)
      PROVE  Promise!ContractNext \/ UNCHANGED <<effects, out>>
  BY <1>15 DEF ReadBack
<1>16. ASSUME NEW e \in Execs, RecoverCompleted(e)
      PROVE  Promise!ContractNext \/ UNCHANGED <<effects, out>>
  <2>1. Owns(e) /\ effects = 1 /\ claimed[e] \in BOOLEAN
    BY <1>16 DEF RecoverCompleted, At, Owns, DeliveryInv, DeliveryTypeOK, OwnershipInv,
                  FlightInv, Executing
  <2>2. CASE Settle(e, "ok", claimed[e])
    BY <1>16, <2>1, <2>2, SettleAnswers DEF RecoverCompleted, At, Results
  <2> QED
    BY <1>16, <2>2 DEF RecoverCompleted, GoTo
<1>17. ASSUME NEW e \in Execs, RecoverRetry(e)
      PROVE  Promise!ContractNext \/ UNCHANGED <<effects, out>>
  BY <1>17 DEF RecoverRetry, Send
<1>18. ASSUME NEW e \in Execs, RecoverInProgress(e)
      PROVE  Promise!ContractNext \/ UNCHANGED <<effects, out>>
  <2>1. CASE Return(e, "in_progress")
    BY <1>18, <2>1, NothingClaimed, ReturnAnswers DEF RecoverInProgress, At, Answers
  <2> QED
    BY <1>18, <2>1 DEF RecoverInProgress, GoTo
<1>19. ASSUME NEW e \in Execs, RecoverUncertainly(e)
      PROVE  Promise!ContractNext \/ UNCHANGED <<effects, out>>
  BY <1>19 DEF RecoverUncertainly, GoTo
<1>20. ASSUME NEW e \in Execs, Mark(e)
      PROVE  Promise!ContractNext \/ UNCHANGED <<effects, out>>
  BY <1>20, NothingClaimed, ReturnAnswers DEF Mark, At, Answers
<1>21. ASSUME NEW e \in Execs, MarkThrows(e)
      PROVE  Promise!ContractNext \/ UNCHANGED <<effects, out>>
  <2>1. CASE At(e, "lastMark") /\ Return(e, "threw")
    BY <1>21, <2>1, NothingClaimed, ReturnAnswers DEF MarkThrows, At, Answers
  <2> QED
    BY <1>21, <2>1 DEF MarkThrows, GoTo
<1>22. ASSUME NEW e \in Execs, Land(e)
      PROVE  Promise!ContractNext \/ UNCHANGED <<effects, out>>
  <2>1. effects = 0
    BY <1>22 DEF Land, DeliveryInv, FlightInv
  <2> QED
    BY <1>22, <2>1 DEF Land, Promise!TakeEffect, Promise!ContractNext
<1>23. ASSUME NEW e \in Execs, Lose(e)
      PROVE  Promise!ContractNext \/ UNCHANGED <<effects, out>>
  BY <1>23 DEF Lose
<1>24. ASSUME NEW e \in Execs, LoseHeartbeat(e)
      PROVE  Promise!ContractNext \/ UNCHANGED <<effects, out>>
  BY <1>24 DEF LoseHeartbeat
<1>25. CASE Expire
  BY <1>25 DEF Expire
<1>26. ASSUME NEW p \in Procs, Crash(p)
      PROVE  Promise!ContractNext \/ UNCHANGED <<effects, out>>
  BY <1>26 DEF Crash
<1> QED
  BY <1>1, <1>2, <1>3, <1>4, <1>5, <1>6, <1>7, <1>8, <1>9, <1>10, <1>11,
     <1>12, <1>13, <1>14, <1>15, <1>16, <1>17, <1>18, <1>19, <1>20, <1>21,
     <1>22, <1>23, <1>24, <1>25, <1>26
     DEF Next, CallStep

(* Calls of one machine keep the contract: the detailed protocol, with      *)
(* takeovers, crashes and failing file operations, implements the abstract *)
(* one.                                                                    *)
THEOREM ContractKept ==
    ASSUME SingleHost
    PROVE  Spec => KeepsContract
<1>1. Init => Promise!ContractInit
  BY DEF Init, Promise!ContractInit
<1>2. DeliveryInv /\ [Next]_vars => [Promise!ContractNext]_(Promise!contractVars)
  BY ContractStep DEF Promise!contractVars
<1> QED
  BY <1>1, <1>2, DeliveryInvariant, PTL DEF Spec, KeepsContract, Promise!ContractSpec

-----------------------------------------------------------------------------
(* The records of what was delivered and created, together.                *)

(* What is proved of the receipt protocol, of the agent requests and of the  *)
(* reservations holds when all of them run.                                 *)
LEMMA RecordsRunTogether == DeliverySpec => Spec /\ RequestsSpec /\ ReservationSpec
<1>1. DeliveryInit => Init /\ RequestsInit /\ ReservationInit
  BY DEF DeliveryInit
<1>2. [DeliveryNext]_deliveryVars =>
          [Next]_vars /\ [RequestsNext]_requestVars /\ [ReservationNext]_reservationVars
  BY DEF DeliveryNext, deliveryVars
<1>3. QED
  BY <1>1, <1>2, PTL DEF DeliverySpec, Spec, RequestsSpec, ReservationSpec

(* Type correctness of the receipt with its calls, of the request store and *)
(* of the reservation file.                                                *)
THEOREM RecordsTypeCorrect == DeliverySpec => []RecordsTypeOK
<1>1. DeliveryTypeOK /\ RequestTypeOK /\ ReservationTypeOK => RecordsTypeOK
  BY DEF RecordsTypeOK
<1>2. QED
  BY <1>1, RecordsRunTogether, DeliveryTypeCorrect, RequestTypeCorrect, ReservationTypeCorrect, PTL
=============================================================================
