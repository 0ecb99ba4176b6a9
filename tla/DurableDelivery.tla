--------------------------- MODULE DurableDelivery ---------------------------
(***************************************************************************)
(* executeDurableDelivery of src/src/manager/durableDeliveryIdempotency.ts *)
(* for one deliveryId: concurrent calls from several processes, the receipt *)
(* file they share, the external request they may send, and crashes.       *)
(*                                                                         *)
(* A call is named by its executionId.  What the code does under the       *)
(* receipt's mutation lock (claimReceipt, mutateOwnedReceipt) is one step:  *)
(* FileLock models the lock itself and HeartbeatFence the heartbeat's      *)
(* unlocked look at it.  An await is a point between two steps.  Calls of   *)
(* one process interleave at least as freely here as in its event loop.    *)
(*                                                                         *)
(* Time is one bit of the receipt, "expired": its lease has run out, which *)
(* happens only while no heartbeat of the owner renews it.                 *)
(***************************************************************************)
EXTENDS Naturals

CONSTANTS
    Execs,            \* the calls made with the deliveryId
    Procs,            \* the processes that make them
    ProcOf, HostOf,   \* the process of a call, the machine of a process
    DigestOf,         \* the digest of the payload a call brings
    HasRecover,       \* options.recover is given
    RecoverUncertain, \* options.recoverExistingUncertain
    Retryable,        \* options.retryableRejection accepts a refusal
    IOMayFail,        \* may a lock wait or a file operation throw?
    BeatMayFail,      \* may a running heartbeat worker give up?
    NoExec            \* no executionId in the receipt

ASSUME DeliveryAssumption ==
    /\ ProcOf \in [Execs -> Procs]
    /\ HasRecover \in BOOLEAN /\ RecoverUncertain \in BOOLEAN
    /\ Retryable \in BOOLEAN /\ IOMayFail \in BOOLEAN /\ BeatMayFail \in BOOLEAN
    /\ NoExec \notin Execs

VARIABLES
    receipt,   \* the receipt file
    pc,        \* where each call stands
    claimed,   \* recoverFirst: the call took over an earlier receipt
    sawUncertain, \* existing.state === "uncertain" when the call decided to claim
    verdict,   \* what recover() read back, not yet acted on
    beat,      \* is the call's heartbeat worker renewing the lease?
    alive,     \* is the process running?
    req,       \* the external request a call sent
    effects,   \* how often a request has taken effect
    out        \* the answer of each call

vars == <<receipt, pc, claimed, sawUncertain, verdict, beat, alive, req, effects, out>>

PC == {"start", "created", "reading", "waiting", "claiming", "owning", "delivering",
       "retrying", "recovering", "marking", "lastMark", "done"}

(* The steps of reserveReceipt after its open and of executeClaimedDelivery. *)
Executing == {"created", "owning", "delivering", "retrying", "recovering",
              "marking", "lastMark"}

Results == {"ok", "refused"}
Answers == {"sent", "already", "refused", "in_progress", "uncertain", "conflict", "threw"}
Verdicts == {"none", "completed", "retry", "in_progress", "uncertain"}

(* "partial" is a file that openSync "wx" made and that parseReceipt cannot *)
(* read yet; its exec is the call that is writing it.                      *)
Receipts == [st : {"none", "partial", "sending", "completed", "uncertain"},
             exec : Execs \cup {NoExec},
             digest : {DigestOf[e] : e \in Execs},
             result : Results,
             expired : BOOLEAN]

Live(e) == alive[ProcOf[e]]
At(e, step) == Live(e) /\ pc[e] = step

SingleHost == \A p, q \in Procs : HostOf[p] = HostOf[q]

(* readDurableDeliveryReceipt returns something. *)
Readable == receipt.st \notin {"none", "partial"}

SameDigest(e) == receipt.digest = DigestOf[e]

(* receiptExecutionActive, asked by call e. *)
Active(e) ==
    /\ receipt.st = "sending"
    /\ receipt.exec # NoExec
    /\ \/ Live(receipt.exec) /\ HostOf[ProcOf[receipt.exec]] = HostOf[ProcOf[e]]
       \/ ~receipt.expired

(* Mutant of Owns: the executionId is not compared. *)
OwnsAnySending(e) == receipt.st = "sending" /\ SameDigest(e)

(* The test of mutateOwnedReceipt, and of the heartbeat's ownedRecord. *)
Owns(e) == receipt.st = "sending" /\ receipt.exec = e /\ SameDigest(e)

NoReceipt(r) == [r EXCEPT !.st = "none", !.exec = NoExec, !.expired = FALSE]

Init ==
    /\ \E e \in Execs :
          receipt = [st |-> "none", exec |-> NoExec, digest |-> DigestOf[e],
                     result |-> "ok", expired |-> FALSE]
    /\ pc = [e \in Execs |-> "start"]
    /\ claimed = [e \in Execs |-> FALSE]
    /\ sawUncertain = [e \in Execs |-> FALSE]
    /\ verdict = [e \in Execs |-> "none"]
    /\ beat = [e \in Execs |-> FALSE]
    /\ alive = [p \in Procs |-> TRUE]
    /\ req = [e \in Execs |-> "none"]
    /\ effects = 0
    /\ out = [e \in Execs |-> "none"]

-----------------------------------------------------------------------------
(* How a call ends and how it goes on. *)

(* The call returns; the finally clause stops its heartbeat. *)
Return(e, a) ==
    /\ pc' = [pc EXCEPT ![e] = "done"]
    /\ out' = [out EXCEPT ![e] = a]
    /\ beat' = [beat EXCEPT ![e] = FALSE]

GoTo(e, step) ==
    /\ pc' = [pc EXCEPT ![e] = step]
    /\ UNCHANGED <<out, beat>>

(* Mutant of Replay: the stored result is handed out as the answer. *)
ReplayRaw == receipt.result

(* The answer that replays a completed receipt. *)
Replay == IF receipt.result = "ok" THEN "already" ELSE "refused"

-----------------------------------------------------------------------------
(* executeDurableDelivery up to executeClaimedDelivery. *)

(* reserveReceipt: openSync(filePath, "wx") makes the receipt file. *)
Reserve(e) ==
    /\ At(e, "start")
    /\ receipt.st = "none"
    /\ receipt' = [receipt EXCEPT !.st = "partial", !.exec = e,
                                  !.digest = DigestOf[e], !.expired = FALSE]
    /\ GoTo(e, "created")
    /\ UNCHANGED <<claimed, sawUncertain, verdict, alive, req, effects>>

(* The first "sending" receipt is written and synced. *)
WriteReserved(e) ==
    /\ At(e, "created")
    /\ receipt' = [receipt EXCEPT !.st = "sending"]
    /\ GoTo(e, "owning")
    /\ UNCHANGED <<claimed, sawUncertain, verdict, alive, req, effects>>

(* The write throws; the unreadable file stays. *)
WriteReservedFails(e) ==
    /\ At(e, "created")
    /\ IOMayFail
    /\ Return(e, "threw")
    /\ UNCHANGED <<receipt, claimed, sawUncertain, verdict, alive, req, effects>>

(* openSync answers EEXIST. *)
ReserveExists(e) ==
    /\ At(e, "start")
    /\ receipt.st # "none"
    /\ GoTo(e, "reading")
    /\ UNCHANGED <<receipt, claimed, sawUncertain, verdict, alive, req, effects>>

(* What the call does with the receipt it has just read: answer from it, or *)
(* go on to claim it.                                                      *)
Decide(e) ==
    /\ sawUncertain' = [sawUncertain EXCEPT ![e] = receipt.st = "uncertain"]
    /\ IF ~SameDigest(e) THEN Return(e, "conflict")
       ELSE IF receipt.st = "completed" THEN Return(e, Replay)
       ELSE IF receipt.st = "uncertain" /\ ~(RecoverUncertain /\ HasRecover)
         THEN Return(e, "uncertain")
       ELSE IF receipt.st = "sending" /\ ~HasRecover THEN Return(e, "in_progress")
       ELSE GoTo(e, "claiming")

(* The first look at the existing receipt; a live one is waited for. *)
ReadExisting(e) ==
    /\ At(e, "reading")
    /\ \/ ~Readable /\ Return(e, "uncertain") /\ UNCHANGED sawUncertain
       \/ Readable /\ receipt.st = "sending" /\ SameDigest(e)
            /\ GoTo(e, "waiting") /\ UNCHANGED sawUncertain
       \/ Readable /\ ~(receipt.st = "sending" /\ SameDigest(e)) /\ Decide(e)
    /\ UNCHANGED <<receipt, claimed, verdict, alive, req, effects>>

(* waitForTerminal returns, at a terminal receipt or at its deadline; when  *)
(* the receipt is gone the call goes on with the "sending" one it saw.     *)
WaitEnds(e) ==
    /\ At(e, "waiting")
    /\ \/ Readable /\ Decide(e)
       \/ ~Readable /\ HasRecover /\ GoTo(e, "claiming") /\ UNCHANGED sawUncertain
       \/ ~Readable /\ ~HasRecover /\ Return(e, "in_progress") /\ UNCHANGED sawUncertain
    /\ UNCHANGED <<receipt, claimed, verdict, alive, req, effects>>

(* Mutant of Claimable: an execution that still runs does not protect it. *)
ClaimableThoughActive(e) ==
    /\ Readable
    /\ SameDigest(e)
    /\ receipt.st # "completed"
    /\ receipt.st = "uncertain" => sawUncertain[e] /\ RecoverUncertain

(* Mutant of Claimable: any uncertain receipt may be taken over. *)
ClaimableWhateverState(e) ==
    /\ Readable
    /\ SameDigest(e)
    /\ ~Active(e)

(* The conditions of claimReceipt. *)
Claimable(e) ==
    /\ Readable
    /\ SameDigest(e)
    /\ receipt.st # "completed"
    /\ receipt.st = "uncertain" => sawUncertain[e] /\ RecoverUncertain
    /\ ~Active(e)

(* claimReceipt takes the receipt over. *)
Claim(e) ==
    /\ At(e, "claiming")
    /\ Claimable(e)
    /\ receipt' = [receipt EXCEPT !.st = "sending", !.exec = e, !.expired = FALSE]
    /\ claimed' = [claimed EXCEPT ![e] = TRUE]
    /\ GoTo(e, "owning")
    /\ UNCHANGED <<sawUncertain, verdict, alive, req, effects>>

(* claimReceipt leaves it: the call answers from what it read there. *)
ClaimDenied(e) ==
    /\ At(e, "claiming")
    /\ ~Claimable(e)
    /\ Return(e, IF ~Readable THEN "uncertain"
                 ELSE IF ~SameDigest(e) THEN "conflict"
                 ELSE IF receipt.st = "completed" THEN Replay
                 ELSE IF receipt.st = "uncertain" THEN "uncertain"
                 ELSE "in_progress")
    /\ UNCHANGED <<receipt, claimed, sawUncertain, verdict, alive, req, effects>>

(* The mutation lock is not granted in time, or the write throws. *)
ClaimThrows(e) ==
    /\ At(e, "claiming")
    /\ IOMayFail
    /\ Return(e, "threw")
    /\ UNCHANGED <<receipt, claimed, sawUncertain, verdict, alive, req, effects>>

-----------------------------------------------------------------------------
(* executeClaimedDelivery. *)

(* options.deliver() is called: a request leaves. *)
Send(e) == req' = [req EXCEPT ![e] = "flying"]

(* Mutant of StartHeartbeat: a takeover delivers without recovering first. *)
StartHeartbeatDeliverFirst(e) ==
    /\ At(e, "owning")
    /\ Owns(e)
    /\ receipt' = [receipt EXCEPT !.expired = FALSE]
    /\ beat' = [beat EXCEPT ![e] = TRUE]
    /\ pc' = [pc EXCEPT ![e] = "delivering"]
    /\ Send(e)
    /\ UNCHANGED <<claimed, sawUncertain, verdict, alive, effects, out>>

(* startReceiptHeartbeat: the worker's first renew(true) proves ownership.  *)
(* Then a takeover asks recover() and a fresh reservation delivers.        *)
StartHeartbeat(e) ==
    /\ At(e, "owning")
    /\ Owns(e)
    /\ receipt' = [receipt EXCEPT !.expired = FALSE]
    /\ beat' = [beat EXCEPT ![e] = TRUE]
    /\ pc' = [pc EXCEPT ![e] = IF claimed[e] THEN "recovering" ELSE "delivering"]
    /\ IF claimed[e] THEN UNCHANGED req ELSE Send(e)
    /\ UNCHANGED <<claimed, sawUncertain, verdict, alive, effects, out>>

(* The proof fails or does not come in time. *)
HeartbeatRefused(e) ==
    /\ At(e, "owning")
    /\ ~Owns(e) \/ IOMayFail
    /\ GoTo(e, "lastMark")
    /\ UNCHANGED <<receipt, claimed, sawUncertain, verdict, alive, req, effects>>

(* Mutant of Settled: a refusal is not told apart from a success. *)
SettledOptimistically(r) == [receipt EXCEPT !.st = "completed", !.exec = NoExec,
                                            !.result = "ok", !.expired = FALSE]

(* The receipt settleOwnedResult leaves: a retryable refusal removes it. *)
Settled(r) ==
    IF r = "refused" /\ Retryable THEN NoReceipt(receipt)
    ELSE [receipt EXCEPT !.st = "completed", !.exec = NoExec,
                         !.result = r, !.expired = FALSE]

(* Mutant of Settle: ownership is not checked again. *)
SettleUnchecked(e, r, duplicate) ==
    /\ receipt' = Settled(r)
    /\ Return(e, IF r = "refused" THEN r ELSE IF duplicate THEN "already" ELSE "sent")

(* settleOwnedResult: commit the result, if the call still owns the receipt. *)
Settle(e, r, duplicate) ==
    IF Owns(e)
    THEN /\ receipt' = Settled(r)
         /\ Return(e, IF r = "refused" THEN r ELSE IF duplicate THEN "already" ELSE "sent")
    ELSE /\ Return(e, "uncertain")
         /\ UNCHANGED receipt

(* deliver() resolves, with what became of its request. *)
DeliverResolves(e) ==
    /\ At(e, "delivering") \/ At(e, "retrying")
    /\ \/ req[e] = "landed" /\ Settle(e, "ok", FALSE)
       \/ req[e] = "lost" /\ Settle(e, "refused", FALSE)
    /\ UNCHANGED <<claimed, sawUncertain, verdict, alive, req, effects>>

(* Mutant of DeliverThrows: a failed retry is followed by another one. *)
DeliverThrowsRetryAgain(e) ==
    /\ At(e, "delivering") \/ At(e, "retrying")
    /\ GoTo(e, IF HasRecover THEN "recovering" ELSE "marking")
    /\ UNCHANGED <<receipt, claimed, sawUncertain, verdict, alive, req, effects>>

(* deliver() throws, whatever became of the request, or settling its result *)
(* does: the catch clauses treat both alike.                               *)
DeliverThrows(e) ==
    /\ \/ At(e, "delivering") /\ GoTo(e, IF HasRecover THEN "recovering" ELSE "marking")
       \/ At(e, "retrying") /\ GoTo(e, "lastMark")
    /\ UNCHANGED <<receipt, claimed, sawUncertain, verdict, alive, req, effects>>

InFlight == \E e \in Execs : req[e] = "flying"

(* options.recover() reads the destination.  The destination is outside the *)
(* program; its readback is taken to be authoritative: "completed" only     *)
(* after the effect, "retry" (missing) only when there is none and none to  *)
(* come.  A thrown error is "uncertain".                                   *)
ReadBack(e, v) ==
    /\ At(e, "recovering")
    /\ verdict[e] = "none"
    /\ v = "completed" => effects > 0
    /\ v = "retry" => effects = 0 /\ ~InFlight
    /\ verdict' = [verdict EXCEPT ![e] = v]
    /\ UNCHANGED <<receipt, pc, claimed, sawUncertain, beat, alive, req, effects, out>>

(* completed: the earlier delivery is committed. *)
RecoverCompleted(e) ==
    /\ At(e, "recovering") /\ verdict[e] = "completed"
    /\ \/ Settle(e, "ok", claimed[e])
       \/ IOMayFail /\ GoTo(e, "lastMark") /\ UNCHANGED receipt
    /\ UNCHANGED <<claimed, sawUncertain, verdict, alive, req, effects>>

(* retry: "return deliverOnce(false)" starts the one retry, and the finally *)
(* clause stops the heartbeat while that retry is still under way.         *)
RecoverRetry(e) ==
    /\ At(e, "recovering") /\ verdict[e] = "retry"
    /\ Send(e)
    /\ pc' = [pc EXCEPT ![e] = "retrying"]
    /\ beat' = [beat EXCEPT ![e] = FALSE]
    /\ UNCHANGED <<receipt, claimed, sawUncertain, verdict, alive, effects, out>>

(* in_progress: releaseOwnedSending gives the receipt up, still "sending". *)
RecoverInProgress(e) ==
    /\ At(e, "recovering") /\ verdict[e] = "in_progress"
    /\ \/ /\ receipt' = IF Owns(e) THEN [receipt EXCEPT !.exec = NoExec, !.expired = FALSE]
                                   ELSE receipt
          /\ Return(e, "in_progress")
       \/ IOMayFail /\ GoTo(e, "lastMark") /\ UNCHANGED receipt
    /\ UNCHANGED <<claimed, sawUncertain, verdict, alive, req, effects>>

(* uncertain, or recover() threw. *)
RecoverUncertainly(e) ==
    /\ At(e, "recovering") /\ verdict[e] = "uncertain"
    /\ GoTo(e, "marking")
    /\ UNCHANGED <<receipt, claimed, sawUncertain, verdict, alive, req, effects>>

(* Mutant of Mark: the receipt stays "sending" with its owner. *)
MarkNothing(e) ==
    /\ At(e, "marking") \/ At(e, "lastMark")
    /\ Return(e, "uncertain")
    /\ UNCHANGED <<receipt, claimed, sawUncertain, verdict, alive, req, effects>>

(* markOwnedUncertain. *)
Mark(e) ==
    /\ At(e, "marking") \/ At(e, "lastMark")
    /\ receipt' = IF Owns(e)
                  THEN [receipt EXCEPT !.st = "uncertain", !.exec = NoExec, !.expired = FALSE]
                  ELSE receipt
    /\ Return(e, "uncertain")
    /\ UNCHANGED <<claimed, sawUncertain, verdict, alive, req, effects>>

(* markOwnedUncertain throws: the outer catch clause tries once more, and   *)
(* then the call throws and leaves the receipt as it is.                   *)
MarkThrows(e) ==
    /\ IOMayFail
    /\ \/ At(e, "marking") /\ GoTo(e, "lastMark")
       \/ At(e, "lastMark") /\ Return(e, "threw")
    /\ UNCHANGED <<receipt, claimed, sawUncertain, verdict, alive, req, effects>>

-----------------------------------------------------------------------------
(* The environment. *)

(* A request reaches the destination, or never will; this outlives its sender. *)
Land(e) ==
    /\ req[e] = "flying"
    /\ req' = [req EXCEPT ![e] = "landed"]
    /\ effects' = effects + 1
    /\ UNCHANGED <<receipt, pc, claimed, sawUncertain, verdict, beat, alive, out>>

Lose(e) ==
    /\ req[e] = "flying"
    /\ req' = [req EXCEPT ![e] = "lost"]
    /\ UNCHANGED <<receipt, pc, claimed, sawUncertain, verdict, beat, alive, effects, out>>

(* renew(false) fails (an I/O error, or a contender's mutation lock was     *)
(* there): the worker ends, and the call is not told.                      *)
LoseHeartbeat(e) ==
    /\ BeatMayFail
    /\ beat[e] /\ Live(e)
    /\ beat' = [beat EXCEPT ![e] = FALSE]
    /\ UNCHANGED <<receipt, pc, claimed, sawUncertain, verdict, alive, req, effects, out>>

(* The lease runs out when nobody renews it. *)
Expire ==
    /\ receipt.st = "sending" /\ receipt.exec # NoExec
    /\ ~receipt.expired
    /\ ~(Live(receipt.exec) /\ beat[receipt.exec])
    /\ receipt' = [receipt EXCEPT !.expired = TRUE]
    /\ UNCHANGED <<pc, claimed, sawUncertain, verdict, beat, alive, req, effects, out>>

Crash(p) ==
    /\ alive[p]
    /\ alive' = [alive EXCEPT ![p] = FALSE]
    /\ UNCHANGED <<receipt, pc, claimed, sawUncertain, verdict, beat, req, effects, out>>

CallStep(e) ==
    \/ Reserve(e) \/ WriteReserved(e) \/ WriteReservedFails(e)
    \/ ReserveExists(e) \/ ReadExisting(e) \/ WaitEnds(e)
    \/ Claim(e) \/ ClaimDenied(e) \/ ClaimThrows(e)
    \/ StartHeartbeat(e) \/ HeartbeatRefused(e)
    \/ DeliverResolves(e) \/ DeliverThrows(e)
    \/ \E v \in Verdicts \ {"none"} : ReadBack(e, v)
    \/ RecoverCompleted(e) \/ RecoverRetry(e)
    \/ RecoverInProgress(e) \/ RecoverUncertainly(e)
    \/ Mark(e) \/ MarkThrows(e)

Next ==
    \/ \E e \in Execs : CallStep(e) \/ Land(e) \/ Lose(e) \/ LoseHeartbeat(e)
    \/ Expire
    \/ \E p \in Procs : Crash(p)

Spec == Init /\ [][Next]_vars

(* deliver(), recover() and the lock waits end, and a live process runs on. *)
Fairness == \A e \in Execs : WF_vars(CallStep(e))

FairSpec == Spec /\ Fairness

-----------------------------------------------------------------------------
(* Type correctness of the receipt file, the calls and the processes of    *)
(* durableDeliveryIdempotency.ts.                                          *)
DeliveryTypeOK ==
    /\ receipt \in Receipts
    /\ pc \in [Execs -> PC]
    /\ claimed \in [Execs -> BOOLEAN]
    /\ sawUncertain \in [Execs -> BOOLEAN]
    /\ verdict \in [Execs -> Verdicts]
    /\ beat \in [Execs -> BOOLEAN]
    /\ alive \in [Procs -> BOOLEAN]
    /\ req \in [Execs -> {"none", "flying", "landed", "lost"}]
    /\ effects \in Nat
    /\ out \in [Execs -> Answers \cup {"none"}]

(* One deliveryId, one external effect, whatever calls, takeovers, retries  *)
(* and crashes happen: the purpose of executeDurableDelivery.              *)
AtMostOnce == effects <= 1

(* No two live calls are between claiming the receipt and settling it: a    *)
(* takeover never overlaps an execution that still runs.                   *)
SoleExecutor ==
    \A e, f \in Execs :
        /\ Live(e) /\ pc[e] \in Executing
        /\ Live(f) /\ pc[f] \in Executing
        => e = f

(* Whoever was told that the delivery is completed was told what the        *)
(* receipt still says, and about its own payload.                          *)
AnswersAgree ==
    \A e \in Execs : out[e] \in {"sent", "already"} =>
        /\ receipt.st = "completed"
        /\ receipt.result = "ok"
        /\ receipt.digest = DigestOf[e]

(* A "sending" receipt that names a call of a live process is still being   *)
(* worked on by that call, so that answering "in_progress" is true; or the  *)
(* call could not even mark it and threw, so that its caller knows.        *)
SendingIsWorkedOn ==
    receipt.st = "sending" /\ receipt.exec # NoExec /\ Live(receipt.exec)
        => pc[receipt.exec] \in Executing \/ out[receipt.exec] = "threw"

(* A call that has lost the receipt to another one never changes it again   *)
(* (mutateOwnedReceipt's fencing): its steps leave the file alone.         *)
ReplacementUntouched ==
    [][\A e \in Execs :
          pc[e] \in Executing /\ receipt.exec # e /\ pc'[e] # pc[e]
              => receipt' = receipt]_vars

(* A live call that is delivering keeps the receipt: its heartbeat fences   *)
(* every contender, on any machine, off the takeover.                      *)
DeliveringIsFenced ==
    \A e \in Execs : Live(e) /\ pc[e] \in {"delivering", "retrying"} => Owns(e)

(* A completed receipt never changes again. *)
CompletedIsFinal == [][receipt.st = "completed" => receipt' = receipt]_vars

(* Every call of executeDurableDelivery ends, or its process does. *)
CallsReturn == \A e \in Execs : (pc[e] # "start") ~> (pc[e] = "done" \/ ~Live(e))

Promise == INSTANCE DeliveryContract WITH Execs <- Execs, effects <- effects, out <- out

(* The protocol implements its contract: the effect happens at most once,   *)
(* and every answer is true when it is given.                              *)
KeepsContract == Promise!ContractSpec
=============================================================================
