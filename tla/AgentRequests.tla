--------------------------- MODULE AgentRequests ---------------------------
(***************************************************************************)
(* Messages between agents that ask for a formal response:                 *)
(* agentRequests/store.ts with its callers, the send handler of            *)
(* agentThreads.ts, the receipt recovery of deliveryRecovery.ts and the    *)
(* reminders of messageProcessingAutomationService.ts.                     *)
(*                                                                         *)
(* A delivery is a message; it may answer a request and may be a request   *)
(* itself, named like the delivery that carries it.  The store is a map in *)
(* memory and a JSON file written as a whole; a write may fail, and the    *)
(* Manager may die and read the file again.  A message on its way arrives  *)
(* or is lost whatever became of its sender.  A send whose target has gone *)
(* and is replaced ends here as a failed one; the replacement is Replace   *)
(* and the second attempt another delivery.                                *)
(***************************************************************************)
EXTENDS Naturals

CONSTANTS Deliveries,
          ReplyTo,      \* the request each delivery answers, or Nothing
          Tracked,      \* deliveries with responsePolicy "required"
          WritesFail,   \* may a write of the JSON file fail?
          MaxEvents,    \* bound on ended turns, replaced tasks and restarts together
          Nothing

ASSUME RequestsAssumption ==
    /\ Nothing \notin Deliveries /\ Tracked \subseteq Deliveries
    /\ ReplyTo \in [Deliveries -> Tracked \cup {Nothing}]
    /\ \A d \in Deliveries \ Tracked : ReplyTo[d] # Nothing
    /\ WritesFail \in BOOLEAN /\ MaxEvents \in Nat

VARIABLES records,    \* the map in memory
          filed,      \* the map in the file
          call,       \* where the send call of each delivery is
          underway, arrived, \* messages on their way, and in their target task
          reminding,  \* the reminder in flight of each request: "no", "sending" or
                      \*   the reserved delivery it looks for
          armed,      \* requests with a timer
          turned,     \* requests whose target ended a turn since the last reminder began
          replaced,   \* requests with a replaced party
          events

requestVars == <<records, filed, call, underway, arrived, reminding, armed, turned,
                 replaced, events>>

IsReply(d) == ReplyTo[d] # Nothing
Absent == [status |-> "absent", reserved |-> Nothing, evidence |-> FALSE,
           answer |-> Nothing, due |-> FALSE]

RequestsInit ==
    /\ records = [q \in Tracked |-> Absent] /\ filed = records
    /\ call = [d \in Deliveries |-> "none"]
    /\ underway = {} /\ arrived = {}
    /\ reminding = [q \in Tracked |-> "no"]
    /\ armed = {} /\ turned = {} /\ replaced = {} /\ events = 0

\* persist: may fail, and then the file stays as it was
Persist(ok) ==
    /\ ok \/ WritesFail
    /\ filed' = IF ok THEN records' ELSE filed

Calls(d, to) == call' = [call EXCEPT ![d] = to]
Schedulable(q, rs) == rs[q].status = "awaiting" /\ rs[q].due
\* refresh, arm: a timer for every request that is due and has no reminder in flight
Refresh == armed' = {q \in Tracked : Schedulable(q, records') /\ reminding[q] = "no"}
\* prepare and bindResponseEvidence run without an await between them
Free == \A d \in Deliveries : call[d] # "prepared"

-----------------------------------------------------------------------------
(* The store *)

Released(r) == [r EXCEPT !.reserved = Nothing, !.evidence = FALSE]

\* mutant: a reservation is not looked at
AcceptsReplyAgain(q) == records[q].status = "awaiting"
AcceptsReply(q) == records[q].status = "awaiting" /\ records[q].reserved = Nothing

Reserved(d) ==
    [q \in Tracked |->
        IF q = ReplyTo[d] THEN [records[q] EXCEPT !.reserved = d]
        ELSE IF q = d THEN [Absent EXCEPT !.status = "pending"]
        ELSE records[q]]

\* commit finds that the reply is recorded already
Recorded(d) == IsReply(d) /\ records[ReplyTo[d]].answer = d
\* commit's checks
CommitThrows(d) ==
    \/ d \in Tracked /\ records[d].status \in {"absent", "cancelled"}
    \/ IsReply(d) /\ ~Recorded(d) /\ records[ReplyTo[d]].reserved # d

\* commit: the answered request is closed, and the request carried is delivered
Committed(d) ==
    IF Recorded(d) THEN records
    ELSE [q \in Tracked |->
             IF q = ReplyTo[d]
             THEN [Absent EXCEPT !.status = "responded", !.answer = d]
             ELSE IF q = d /\ records[q].status = "pending"
             THEN [records[q] EXCEPT !.status = "awaiting"]
             ELSE records[q]]

\* mutant: what could not be written stays in memory
CommitKept(d, ok) == records' = Committed(d) /\ Persist(ok)
\* a failed write is undone in memory
Commit(d, ok) ==
    /\ records' = IF ok THEN Committed(d) ELSE records
    /\ IF Recorded(d) THEN ok /\ UNCHANGED filed ELSE Persist(ok)

Aborted(d) ==
    [q \in Tracked |->
        IF q = ReplyTo[d] /\ records[q].reserved = d THEN Released(records[q])
        ELSE IF q = d /\ records[q].status = "pending" THEN Absent
        ELSE records[q]]
\* abort: stays in memory when the write fails
Abort(d) == \E ok \in BOOLEAN : records' = Aborted(d) /\ Persist(ok)

-----------------------------------------------------------------------------
(* The send handler *)

\* a reply is sent by the task the request has reached
SendCalled(d) ==
    /\ Free /\ call[d] = "none"
    /\ IsReply(d) => ReplyTo[d] \in arrived
    /\ Calls(d, IF IsReply(d) /\ records[ReplyTo[d]].status = "pending"
                THEN "confirming" ELSE "ready")
    /\ UNCHANGED <<records, filed, underway, arrived, reminding, armed, turned,
                   replaced, events>>

\* commit of a request without the request it answers, if any: that one stays open and
\*   reserved until the delivery itself is committed or recovered
OriginalDelivered(q) ==
    [records EXCEPT ![q].status = IF @ = "pending" THEN "awaiting" ELSE @]

\* a reply to a request whose own delivery is not recorded: its receipt is looked up
\*   (in arrived) and recorded first
ConfirmOriginal(d) ==
    LET q == ReplyTo[d] IN
    /\ Free /\ call[d] = "confirming"
    /\ \/ /\ records[q].status \notin {"absent", "cancelled"}
          /\ \E ok \in BOOLEAN :
                /\ records' = IF ok THEN OriginalDelivered(q) ELSE records
                /\ Persist(ok) /\ Calls(d, IF ok THEN "ready" ELSE "refused")
       \/ Calls(d, "refused") /\ UNCHANGED <<records, filed>> \* not readable, or not any more
    /\ UNCHANGED <<underway, arrived, reminding, armed, turned, replaced, events>>

\* prepare; a failed write leaves the reservation in memory
Prepare(d) ==
    /\ Free /\ call[d] = "ready"
    /\ IsReply(d) => AcceptsReply(ReplyTo[d])
    /\ records' = Reserved(d)
    /\ \E ok \in BOOLEAN : Persist(ok) /\ Calls(d, IF ok THEN "prepared" ELSE "refused")
    /\ UNCHANGED <<underway, arrived, reminding, armed, turned, replaced, events>>

\* the request takes no reply, or not this one (parties, workspace, fields)
PrepareRefuses(d) ==
    /\ Free /\ call[d] = "ready" /\ IsReply(d)
    /\ Calls(d, "refused")
    /\ UNCHANGED <<records, filed, underway, arrived, reminding, armed, turned,
                   replaced, events>>

\* bindResponseEvidence, and the message is sent
SendReserved(d) ==
    /\ call[d] = "prepared"
    /\ records' = [q \in Tracked |->
                     IF q = ReplyTo[d] THEN [records[q] EXCEPT !.evidence = TRUE]
                     ELSE records[q]]
    /\ filed' = IF IsReply(d) THEN records' ELSE filed
    /\ Calls(d, "sending") /\ underway' = underway \cup {d}
    /\ UNCHANGED <<arrived, reminding, armed, turned, replaced, events>>

BindFails(d) ==
    /\ call[d] = "prepared" /\ IsReply(d) /\ WritesFail
    /\ Abort(d) /\ Calls(d, "failed")
    /\ UNCHANGED <<underway, arrived, reminding, armed, turned, replaced, events>>

Arrive(d) ==
    /\ d \in underway
    /\ underway' = underway \ {d} /\ arrived' = arrived \cup {d}
    /\ UNCHANGED <<records, filed, call, reminding, armed, turned, replaced, events>>

Vanish(d) ==
    /\ d \in underway /\ underway' = underway \ {d}
    /\ UNCHANGED <<records, filed, call, arrived, reminding, armed, turned, replaced,
                   events>>

\* the target accepted the message: commit, whose errors are only a warning
Accepted(d) ==
    /\ Free /\ call[d] = "sending" /\ d \in arrived
    /\ \/ \E ok \in BOOLEAN : /\ ~CommitThrows(d) /\ Commit(d, ok)
                              /\ Calls(d, IF ok THEN "delivered" ELSE "untracked")
       \/ CommitThrows(d) /\ Calls(d, "untracked") /\ UNCHANGED <<records, filed>>
    /\ Refresh
    /\ UNCHANGED <<underway, arrived, reminding, turned, replaced, events>>

\* CodexDesktopDeliveryUnconfirmedError: the reservation stays
Unconfirmed(d) ==
    /\ Free /\ call[d] = "sending"
    /\ UNCHANGED <<records, filed, underway, arrived, reminding, turned, replaced, events>>
    /\ Calls(d, "unconfirmed") /\ Refresh

\* any other error: the message was not sent
SendFails(d) ==
    /\ Free /\ call[d] = "sending" /\ d \notin arrived
    /\ underway' = underway \ {d}
    /\ Abort(d) /\ Calls(d, "failed")
    /\ UNCHANGED <<arrived, reminding, armed, turned, replaced, events>>

-----------------------------------------------------------------------------
(* Receipt recovery *)

\* mutant: a reservation is evidence enough
RecoverableReserved(d) ==
    IsReply(d) /\ records[ReplyTo[d]].reserved = d /\ ~CommitThrows(d)
\* recoverAgentResponseDelivery finds the message in the requester's task
Recoverable(d) ==
    /\ IsReply(d) /\ d \in arrived
    /\ records[ReplyTo[d]].status = "awaiting"
    /\ records[ReplyTo[d]].reserved = d /\ records[ReplyTo[d]].evidence
    /\ ~CommitThrows(d)

Recover(d) ==
    /\ Free /\ Recoverable(d)
    /\ Commit(d, TRUE)
    /\ UNCHANGED <<call, underway, arrived, reminding, armed, turned, replaced, events>>

-----------------------------------------------------------------------------
(* Reminders *)

\* recordTargetTurnEnded and schedule; when the write fails no timer is set
TurnEnds(q) ==
    /\ Free /\ events < MaxEvents /\ records[q].status = "awaiting"
    /\ events' = events + 1 /\ turned' = turned \cup {q}
    /\ records' = [records EXCEPT ![q].due = TRUE]
    /\ \E ok \in BOOLEAN :
        /\ Persist(ok)
        /\ armed' = IF ~ok THEN armed
                    ELSE IF reminding[q] = "no" THEN armed \cup {q} ELSE armed \ {q}
    /\ UNCHANGED <<call, underway, arrived, reminding, replaced>>

\* runReminder and deliverAgentRequestReminder up to the await
ReminderFires(q) ==
    /\ Free /\ q \in armed /\ armed' = armed \ {q}
    /\ IF Schedulable(q, records)
       THEN /\ reminding' = [reminding EXCEPT ![q] = IF records[q].reserved = Nothing
                                                     THEN "sending" ELSE records[q].reserved]
            /\ turned' = turned \ {q}
       ELSE UNCHANGED <<reminding, turned>>
    /\ UNCHANGED <<records, filed, call, underway, arrived, replaced, events>>

\* recordReminderResult's guard
Remindable(q) == records[q].status = "awaiting"

Rearm(q) == armed' = IF Schedulable(q, records') THEN armed \cup {q} ELSE armed

\* the reminder is over: the request is due again, or until the next turn it is not;
\*   a write that fails on success counts as a failure
RecordResult(q, again) ==
    /\ records' = IF Remindable(q) THEN [records EXCEPT ![q].due = again] ELSE records
    /\ \E ok \in BOOLEAN : /\ ok \/ again
                           /\ IF Remindable(q) THEN Persist(ok) ELSE UNCHANGED filed
    /\ reminding' = [reminding EXCEPT ![q] = "no"]
    /\ Rearm(q)
    /\ UNCHANGED <<call, underway, arrived, turned, replaced, events>>

ReminderEnds(q) ==
    /\ Free /\ reminding[q] = "sending"
    /\ \E again \in BOOLEAN : RecordResult(q, again)

\* recordPendingResponseCheck after the recovery, or recordReminderResult if one failed
CheckEnds(q) ==
    /\ Free /\ reminding[q] \in Deliveries
    /\ \/ RecordResult(q, TRUE)
       \/ LET waits == records[q].status = "awaiting" /\ records[q].reserved = reminding[q] IN
          /\ records' = IF waits THEN [records EXCEPT ![q].due = FALSE] ELSE records
          /\ filed' = IF waits THEN records' ELSE filed
          /\ reminding' = [reminding EXCEPT ![q] = "no"]
          /\ Rearm(q)
          /\ UNCHANGED <<call, underway, arrived, turned, replaced, events>>

-----------------------------------------------------------------------------
(* Maintenance *)

\* cancel: stays in memory when the write fails
Cancel(q) ==
    /\ Free /\ records[q].status \in {"pending", "awaiting"}
    /\ records' = [records EXCEPT ![q] = [Absent EXCEPT !.status = "cancelled"]]
    /\ \E ok \in BOOLEAN : Persist(ok) /\ IF ok THEN Refresh ELSE UNCHANGED armed
    /\ UNCHANGED <<call, underway, arrived, reminding, turned, replaced, events>>

\* reconcileOpenParties: the task of a party is replaced (of the target: remind at once),
\*   or there is no replacement
Replace(q) ==
    /\ Free /\ events < MaxEvents /\ events' = events + 1
    /\ \/ /\ records[q].status \in {"pending", "awaiting"}
          /\ records' = [records EXCEPT ![q] = [Absent EXCEPT !.status = "cancelled"]]
       \/ /\ records[q].status = "awaiting"
          /\ \E due \in {records[q].due, TRUE} :
                records' = [records EXCEPT ![q] = [Released(@) EXCEPT !.due = due]]
    /\ \E ok \in BOOLEAN : Persist(ok)
    /\ replaced' = replaced \cup {q}
    /\ UNCHANGED <<call, underway, arrived, reminding, armed, turned>>

\* the Manager dies and starts again from the file
Reload ==
    /\ events < MaxEvents /\ events' = events + 1
    /\ records' = filed
    /\ call' = [d \in Deliveries |->
                  IF call[d] \in {"confirming", "ready", "prepared", "sending"}
                  THEN "lost" ELSE call[d]]
    /\ reminding' = [q \in Tracked |-> "no"]
    /\ armed' = {q \in Tracked : Schedulable(q, filed)}
    /\ UNCHANGED <<filed, underway, arrived, turned, replaced>>

SendSteps(d) ==
    \/ SendCalled(d) \/ ConfirmOriginal(d) \/ Prepare(d) \/ PrepareRefuses(d)
    \/ SendReserved(d) \/ BindFails(d) \/ Accepted(d) \/ Unconfirmed(d) \/ SendFails(d)

RequestsNext ==
    \/ \E d \in Deliveries : SendSteps(d) \/ Arrive(d) \/ Vanish(d) \/ Recover(d)
    \/ \E q \in Tracked : TurnEnds(q) \/ ReminderFires(q) \/ ReminderEnds(q) \/ CheckEnds(q)
                          \/ Cancel(q) \/ Replace(q)
    \/ Reload

RequestsSpec == RequestsInit /\ [][RequestsNext]_requestVars

-----------------------------------------------------------------------------
\* Type correctness.
RequestTypeOK ==
    /\ {records, filed} \subseteq
         [Tracked -> [status : {"absent", "pending", "awaiting", "responded", "cancelled"},
                      reserved : Deliveries \cup {Nothing}, evidence : BOOLEAN,
                      answer : Deliveries \cup {Nothing}, due : BOOLEAN]]
    /\ call \in [Deliveries -> {"none", "confirming", "ready", "prepared", "sending",
                                "delivered", "untracked", "unconfirmed", "refused",
                                "failed", "lost"}]
    /\ underway \subseteq Deliveries /\ arrived \subseteq Deliveries
    /\ reminding \in [Tracked -> Deliveries \cup {"no", "sending"}]
    /\ armed \subseteq Tracked /\ turned \subseteq Tracked
    /\ replaced \subseteq Tracked /\ events \in Nat

\* What the store says happened: a request that awaits its response has reached its target,
\* and the response of an answered one has reached the requester, through unconfirmed sends,
\* recoveries, failed writes and restarts.
RecordsAreTrue ==
    \A q \in Tracked : /\ records[q].status \in {"awaiting", "responded"} => q \in arrived
                       /\ records[q].status = "responded" => records[q].answer \in arrived

\* A requester gets one reply: two replies to a request reach it only if a party of the
\* request was replaced, which gives up the reservation of a reply on its way.
OneReplyArrives ==
    \A d, e \in arrived : d # e /\ IsReply(d) /\ ReplyTo[d] = ReplyTo[e]
                          => ReplyTo[d] \in replaced

\* A reply that asks for a response itself is tracked once it has closed the request it
\* answers: commit never does one without the other.
FollowUpIsTracked ==
    \A q \in Tracked : LET d == records[q].answer IN
        d \in Tracked => records[d].status \in {"awaiting", "responded", "cancelled"}

\* A request that is answered or cancelled is not due for a reminder, whatever reminder,
\* check or turn was under way when it was closed.
ClosedIsNotDue ==
    \A q \in Tracked : records[q].status \in {"responded", "cancelled"} => ~records[q].due

\* The records agree with what has reached the tasks and with each other.
RecordsAgree == RecordsAreTrue /\ FollowUpIsTracked /\ ClosedIsNotDue

\* An answered request stays answered by the same reply: no late commit of its own
\* delivery, cancellation, replacement or restart opens it again.
AnsweredIsFinal ==
    [][\A q \in Tracked :
        records[q].status = "responded" => records'[q] = records[q]]_requestVars

\* Every turn that ends without a response is followed by a reminder: after a turn that
\* ended later than the last reminder began, an open request is due.
NextReminderScheduled ==
    \A q \in turned : records[q].status = "awaiting" => records[q].due
=============================================================================
