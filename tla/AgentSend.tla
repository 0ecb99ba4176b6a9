----------------------------- MODULE AgentSend -----------------------------
(***************************************************************************)
(* executeIdempotentAgentSend of manager/agentSendIdempotency.ts: what     *)
(* stands in front of executeDurableDelivery when agents reply to one      *)
(* quoted group message.  A recent reply to the message refuses another    *)
(* one, and message-processing agents that send the same content share one *)
(* delivery.  Both tables are in memory; the first is filled again from    *)
(* the receipts after a restart.                                           *)
(*                                                                         *)
(* executeDurableDelivery is taken by what DurableDelivery shows of it: a  *)
(* receipt per send, one delivery, and one retry when the outbox knows     *)
(* nothing of the send.  A send has one call at a time.  A call may take   *)
(* longer than the windows of the two tables: the post has no deadline.    *)
(***************************************************************************)
EXTENDS Naturals

CONSTANTS Sends,       \* delivery ids
          Requests,    \* what may be asked for: [content, pooled, follow] of each send,
                       \*   its payload, is it of a message-processing agent, and
                       \*   allowAdditionalReply
          MaxRestarts, \* bound on Manager restarts
          Nobody,      \* no entry in a table
          Unknown      \* the fingerprint of an entry made from a receipt

ASSUME SendAssumption ==
    /\ MaxRestarts \in Nat /\ Nobody \notin Sends /\ Nobody # Unknown
    /\ \A r \in Requests, s \in Sends : /\ r[s].content \notin {Nobody, Unknown}
                                        /\ {r[s].pooled, r[s].follow} \subseteq BOOLEAN

VARIABLES request,   \* the request of each send; never changes
          sender,    \* where the call of each send is
          lastTry,   \* sends whose one retry was authorised
          receipts,  \* the durable receipt of each
          outbox,    \* what the outbox holds of each
          posted,    \* sends that reached the platform
          recent,    \* recentSuccessfulReplies: the fingerprint of the quoted message
          sharing,   \* recentMessageProcessingSends: who delivers a content
          poster,    \* the send whose delivery a joined call awaits
          overran,   \* history: contents whose entry expired before their delivery ended
          hydrated,
          expired,   \* sends whose receipt is older than the reply window
          restarts

sendVars == <<request, sender, lastTry, receipts, outbox, posted, recent, sharing, poster,
              overran, hydrated, expired, restarts>>

Content == [s \in Sends |-> request[s].content]
Contents == {Content[s] : s \in Sends}
Pooled == {s \in Sends : request[s].pooled}
FollowUps == {s \in Sends : request[s].follow}
Resting == {"none", "answered", "refused"}

SendInit ==
    /\ request \in Requests
    /\ sender = [s \in Sends |-> "none"] /\ lastTry = {}
    /\ receipts = [s \in Sends |-> "none"] /\ outbox = [s \in Sends |-> "none"]
    /\ posted = {} /\ recent = Nobody
    /\ sharing = [k \in Contents |-> Nobody] /\ poster = [s \in Sends |-> Nobody]
    /\ overran = {} /\ hydrated = FALSE /\ expired = {} /\ restarts = 0

Turns(s, to) == sender' = [sender EXCEPT ![s] = to]
Receives(s, state) == receipts' = [receipts EXCEPT ![s] = state]

-----------------------------------------------------------------------------
(* The recent-reply check, up to the first await *)

\* mutant: receipts are not read after a restart
HydratableNone == {}
\* hydrateRecentSuccessfulReplies
Hydratable == {s \in Sends \ expired : receipts[s] = "sent"}

\* readRecentSuccessfulReply finds r
Finds(r) ==
    IF hydrated \/ recent # Nobody \/ Hydratable = {}
    THEN r = recent
    ELSE r = Unknown

Checks(s, r) ==
    /\ sender[s] \in Resting
    /\ IF s \in FollowUps
       THEN r = Nobody /\ UNCHANGED <<recent, hydrated>>
       ELSE Finds(r) /\ recent' = r /\ hydrated' = TRUE

\* the same content is answered with the recent result, any other is a conflict
AnswerRecent(s) ==
    /\ \E r \in Contents \cup {Unknown} :
          /\ Checks(s, r)
          /\ Turns(s, IF r = Content[s] THEN "answered" ELSE "refused")
    /\ UNCHANGED <<request, lastTry, receipts, outbox, posted, sharing, expired, restarts,
                   poster, overran>>

\* executeDurableDelivery reserves the receipt, or finds the one of an earlier call
ReserveSend(s) ==
    /\ Checks(s, Nobody) /\ receipts[s] = "none"
    /\ Receives(s, "sending") /\ Turns(s, "starting")
    /\ UNCHANGED <<request, lastTry, outbox, posted, sharing, expired, restarts, poster,
                   overran>>

FindReceipt(s) ==
    /\ Checks(s, Nobody)
    /\ \/ receipts[s] \in {"sent", "failed"} /\ Turns(s, "settled")
       \/ receipts[s] = "uncertain" /\ Turns(s, "refused")
       \/ receipts[s] = "sending" /\ Turns(s, "recovering")
    /\ UNCHANGED <<request, lastTry, receipts, outbox, posted, sharing, expired, restarts,
                   poster, overran>>

-----------------------------------------------------------------------------
(* deliver: coalesceMessageProcessingContent around handleAgentSend *)

\* mutant: only a delivery that has ended is shared
ShareableSent(s) == /\ s \in Pooled /\ sharing[Content[s]] # Nobody
                    /\ receipts[sharing[Content[s]]] = "sent"
Shareable(s) == s \in Pooled /\ sharing[Content[s]] # Nobody

\* the delivery that is shared is under way, or its result is there
JoinDelivery(s) ==
    LET t == sharing[Content[s]] IN
    /\ sender[s] = "starting" /\ Shareable(s)
    /\ IF sender[t] = "posting"
       THEN Turns(s, "joined") /\ poster' = [poster EXCEPT ![s] = t] /\ UNCHANGED receipts
       ELSE Turns(s, "settled") /\ Receives(s, receipts[t]) /\ UNCHANGED poster
    /\ UNCHANGED <<request, lastTry, outbox, posted, recent, sharing, hydrated,
                   expired, restarts, overran>>

StartPosting(s) ==
    /\ sender[s] = "starting" /\ ~Shareable(s)
    /\ Turns(s, "posting")
    /\ sharing' = IF s \in Pooled THEN [sharing EXCEPT ![Content[s]] = s] ELSE sharing
    /\ UNCHANGED <<request, lastTry, receipts, outbox, posted, recent, hydrated, expired,
                   restarts, poster, overran>>

\* handleAgentSend: the outbox has the request before the platform has the message
RequestSend(s) ==
    /\ sender[s] = "posting" /\ outbox[s] = "none"
    /\ outbox' = [outbox EXCEPT ![s] = "requested"]
    /\ UNCHANGED <<request, sender, lastTry, receipts, posted, recent, sharing, hydrated,
                   expired, restarts, poster, overran>>
Post(s) ==
    /\ sender[s] = "posting" /\ outbox[s] = "requested" /\ s \notin posted
    /\ posted' = posted \cup {s}
    /\ UNCHANGED <<request, sender, lastTry, receipts, outbox, recent, sharing, hydrated,
                   expired, restarts, poster, overran>>

\* the sends whose deliver() is this one, also after its entry has gone
Sharers(s) == {s} \cup {t \in Sends : poster[t] = s}
Leave(s) == poster' = [t \in Sends |-> IF poster[t] = s THEN Nobody ELSE poster[t]]

\* without a result that was sent, the entry of the content goes, whoever's it is by then
Unshare(s) == IF s \in Pooled THEN [sharing EXCEPT ![Content[s]] = Nobody] ELSE sharing

\* deliver() resolves, and every receipt gets the result
Delivered(s, status) ==
    /\ sender[s] = "posting" /\ outbox[s] = "requested"
    /\ status = "sent" => s \in posted
    /\ outbox' = [outbox EXCEPT ![s] = status]
    /\ sharing' = IF status = "sent" THEN sharing ELSE Unshare(s)
    /\ receipts' = [t \in Sends |-> IF t \in Sharers(s) THEN status ELSE receipts[t]]
    /\ sender' = [t \in Sends |-> IF t \in Sharers(s) THEN "settled" ELSE sender[t]]
    /\ Leave(s)
    /\ UNCHANGED <<request, lastTry, posted, recent, hydrated, expired, restarts, overran>>

\* deliver() throws: each call recovers, or has had its retry
DeliveryThrows(s) ==
    /\ sender[s] = "posting"
    /\ sharing' = Unshare(s)
    /\ LET over == Sharers(s) \cap lastTry IN
         /\ receipts' = [t \in Sends |-> IF t \in over THEN "uncertain" ELSE receipts[t]]
         /\ sender' = [t \in Sends |-> IF t \in over THEN "refused"
                                       ELSE IF t \in Sharers(s) THEN "recovering"
                                       ELSE sender[t]]
    /\ Leave(s)
    /\ UNCHANGED <<request, lastTry, outbox, posted, recent, hydrated, expired, restarts,
                   overran>>

\* recover() asks the outbox for this send
AskOutbox(s) ==
    /\ sender[s] = "recovering"
    /\ \/ outbox[s] = "none" /\ Turns(s, "starting")
          /\ lastTry' = lastTry \cup {s} /\ UNCHANGED receipts
       \/ outbox[s] = "requested" /\ Turns(s, "refused") /\ Receives(s, "uncertain")
          /\ UNCHANGED lastTry
       \/ outbox[s] \in {"sent", "failed"} /\ Turns(s, "settled") /\ Receives(s, outbox[s])
          /\ UNCHANGED lastTry
    /\ UNCHANGED <<request, outbox, posted, recent, sharing, hydrated, expired, restarts,
                   poster, overran>>

\* rememberSuccessfulReply
Remembered(s) == IF receipts[s] = "sent" THEN Content[s] ELSE recent

AnswerSend(s) ==
    /\ sender[s] = "settled"
    /\ recent' = Remembered(s)
    /\ Turns(s, IF receipts[s] = "sent" THEN "answered" ELSE "refused")
    /\ UNCHANGED <<request, lastTry, receipts, outbox, posted, sharing, hydrated, expired,
                   restarts, poster, overran>>

-----------------------------------------------------------------------------
(* Time and restarts *)

\* two minutes after a delivery began, whether or not it still runs
SharingExpires(k) ==
    /\ sharing[k] # Nobody
    /\ sharing' = [sharing EXCEPT ![k] = Nobody]
    /\ overran' = IF sender[sharing[k]] = "posting" THEN overran \cup {k} ELSE overran
    /\ UNCHANGED <<request, sender, lastTry, receipts, outbox, posted, recent, poster,
                   hydrated, expired, restarts>>

\* ten minutes after the last reply; a call may still be under way
Ended(s) == receipts[s] = "sent" /\ sender[s] # "settled"
RepliesExpire ==
    /\ recent # Nobody \/ \E s \in Hydratable : Ended(s)
    /\ recent' = Nobody
    /\ expired' = expired \cup {s \in Sends : Ended(s)}
    /\ sharing' = [k \in Contents |->
                     IF sharing[k] \in Sends /\ Ended(sharing[k]) THEN Nobody ELSE sharing[k]]
    /\ UNCHANGED <<request, sender, lastTry, receipts, outbox, posted, poster, overran,
                   hydrated, restarts>>

RestartManager ==
    /\ restarts < MaxRestarts /\ restarts' = restarts + 1
    /\ sender' = [s \in Sends |-> IF sender[s] \in Resting THEN sender[s] ELSE "none"]
    /\ lastTry' = {} /\ recent' = Nobody /\ hydrated' = FALSE
    /\ sharing' = [k \in Contents |-> Nobody] /\ poster' = [s \in Sends |-> Nobody]
    /\ overran' = {}   \* no delivery is left
    /\ UNCHANGED <<request, receipts, outbox, posted, expired>>

SendStep(s) ==
    \/ JoinDelivery(s) \/ StartPosting(s) \/ RequestSend(s) \/ DeliveryThrows(s)
    \/ AskOutbox(s) \/ AnswerSend(s)
    \/ \E status \in {"sent", "failed"} : Delivered(s, status)

SendNext ==
    \/ RepliesExpire \/ RestartManager \/ \E k \in Contents : SharingExpires(k)
    \/ \E s \in Sends :
          SendStep(s) \/ Post(s) \/ AnswerRecent(s) \/ ReserveSend(s) \/ FindReceipt(s)

SendSpec == SendInit /\ [][SendNext]_sendVars
FairSendSpec == SendSpec /\ \A s \in Sends : WF_sendVars(SendStep(s))

-----------------------------------------------------------------------------
\* The calls, the receipts and the tables are well formed.
SendTypeOK ==
    /\ sender \in [Sends -> Resting \cup
                             {"starting", "joined", "posting", "recovering", "settled"}]
    /\ receipts \in [Sends -> {"none", "sending", "sent", "failed", "uncertain"}]
    /\ outbox \in [Sends -> {"none", "requested", "sent", "failed"}]
    /\ recent \in Contents \cup {Nobody, Unknown}
    /\ sharing \in [Contents -> Sends \cup {Nobody}]
    /\ poster \in [Sends -> Sends \cup {Nobody}] /\ overran \subseteq Contents
    /\ lastTry \subseteq Sends /\ posted \subseteq Sends /\ expired \subseteq Sends
    /\ hydrated \in BOOLEAN /\ restarts \in 0..MaxRestarts

\* "Message processing sends with different delivery ids coalesce identical concurrent
\* content": such agents never post the same content at the same time.
OnePosting == \A s, t \in Pooled :
    sender[s] = "posting" /\ sender[t] = "posting" /\ Content[s] = Content[t] => s = t

\* They do not while the entry of the content lasts, through joined deliveries, errors,
\* retries and restarts: two post at once only after a delivery took longer than the two
\* minutes of its entry.
OnePostingInTime == \A s, t \in Pooled :
    sender[s] = "posting" /\ sender[t] = "posting" /\ Content[s] = Content[t]
        => s = t \/ Content[s] \in overran

\* A receipt that says "sent" is true, whichever call it was copied from and whatever
\* expired, failed or restarted in between: its content has reached the platform.
SentIsPosted == \A s \in Sends :
    receipts[s] = "sent" => \E t \in posted : Content[t] = Content[s]

\* While a reply is recent, also one from before a restart, no other reply gets past
\* the check except a follow-up.
RecentReplyBlocks ==
    [][\A s \in Sends \ FollowUps :
          sender[s] \in Resting /\ sender'[s] \in {"starting", "recovering"} =>
              \A t \in Sends \ expired :
                  receipts[t] = "sent" => sender[t] = "settled"]_sendVars

\* Every call ends, also one that waits for the delivery of another.
SendsEnd == \A s \in Sends : (sender[s] \notin Resting) ~> (sender[s] \in Resting)

\* A repeated call of a send that was sent is never refused.
RepeatGetsResult ==
    [][\A s \in Sends : sender[s] \in Resting /\ receipts[s] = "sent"
                            => ~(sender'[s] = "refused" /\ sender[s] # "refused")]_sendVars
=============================================================================
