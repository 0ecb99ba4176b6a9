----------------------------- MODULE AgentProofs -----------------------------
(***************************************************************************)
(* Theorems about what agents send each other and to a group: the front of *)
(* agent sends (AgentSend), for any sends, contents and restarts, with the *)
(* truth of its receipts and the sends that wait for another; the requests *)
(* that ask for a response (AgentRequests), for any deliveries that answer *)
(* each other, failing writes and any number of restarts; and the task of  *)
(* a key (ThreadReservation), for any number of calls.                     *)
(***************************************************************************)
EXTENDS AgentSend, AgentRequests, ThreadReservation, TLAPS

-----------------------------------------------------------------------------
(* The front of agent sends.                                               *)

(* Who posts a content is the one the table names for it, as long as no     *)
(* delivery of the content has outlived its entry.                         *)
SharingInv == \A s \in Pooled :
    sender[s] = "posting" /\ Content[s] \notin overran => sharing[Content[s]] = s

(* When the table of replies has been filled and names none, no reply of    *)
(* the window is done.                                                     *)
RecentInv ==
    hydrated /\ recent = Nobody =>
        \A t \in Sends \ expired : receipts[t] = "sent" => sender[t] = "settled"

SendInv == request \in Requests /\ SendTypeOK /\ SharingInv /\ RecentInv

(* What a call in progress goes by: its receipt is open; one that joined a  *)
(* delivery names it, and it is under way for the same content; an entry of *)
(* the table is a delivery of its content that is under way or was sent;   *)
(* and what says "sent", the outbox or a receipt, is true.                 *)
OpenInv == \A s \in Sends :
    sender[s] \in {"starting", "joined", "posting", "recovering"} => receipts[s] = "sending"

SharedInv == \A k \in Contents : sharing[k] # Nobody =>
    /\ sharing[k] \in Pooled /\ Content[sharing[k]] = k
    /\ sender[sharing[k]] = "posting" \/ receipts[sharing[k]] = "sent"

JoinedInv == \A s \in Sends :
    /\ poster[s] # Nobody => sender[s] = "joined"
    /\ sender[s] = "joined" => /\ poster[s] \in Pooled /\ sender[poster[s]] = "posting"
                               /\ Content[poster[s]] = Content[s]

FrontInv == OpenInv /\ SharedInv /\ JoinedInv /\ SentIsPosted
                /\ \A s \in Sends : outbox[s] = "sent" => s \in posted

(* A content of a send is one, and is a fingerprint of its own.             *)
LEMMA ContentOfSend ==
    ASSUME request \in Requests, NEW s \in Sends
    PROVE  Content[s] \in Contents /\ Content[s] # Nobody
BY SendAssumption DEF Content, Contents

(* Every step keeps the types.                                              *)
LEMMA SendTypeStep ==
    ASSUME request \in Requests, SendTypeOK, [SendNext]_sendVars
    PROVE  SendTypeOK' /\ request' = request /\ Content' = Content /\ Contents' = Contents
<1>0. request' = request
  BY DEF SendNext, sendVars, SendStep, JoinDelivery, StartPosting, RequestSend, DeliveryThrows,
         AskOutbox, AnswerSend, Delivered, Post, AnswerRecent, ReserveSend, FindReceipt,
         RepliesExpire, RestartManager, SharingExpires
<1>1. Content' = Content /\ Contents' = Contents
  BY <1>0 DEF Content, Contents
<1> USE <1>0, <1>1, SendAssumption, ContentOfSend DEF SendTypeOK, Resting, Turns, Receives
<1>2. CASE UNCHANGED sendVars
  BY <1>2 DEF sendVars
<1>3. CASE RepliesExpire \/ RestartManager \/ \E k \in Contents : SharingExpires(k)
  <2>1. CASE RepliesExpire
    BY <2>1 DEF RepliesExpire, Ended
  <2>2. CASE RestartManager
    <3>1. restarts' \in 0 .. MaxRestarts
      BY <2>2 DEF RestartManager
    <3> QED
      BY <2>2, <3>1 DEF RestartManager
  <2>3. CASE \E k \in Contents : SharingExpires(k)
    BY <2>3 DEF SharingExpires
  <2> QED
    BY <1>3, <2>1, <2>2, <2>3
<1>4. ASSUME NEW s \in Sends, Checks(s, Nobody) PROVE recent' \in Contents \cup {Nobody, Unknown} /\ hydrated' \in BOOLEAN
  BY <1>4 DEF Checks
<1>5. ASSUME NEW s \in Sends, Post(s) \/ AnswerRecent(s) \/ ReserveSend(s) \/ FindReceipt(s)
      PROVE  SendTypeOK'
  BY <1>4, <1>5 DEF Post, AnswerRecent, ReserveSend, FindReceipt, Checks
<1>6. ASSUME NEW s \in Sends, JoinDelivery(s) \/ StartPosting(s) \/ RequestSend(s)
      PROVE  SendTypeOK'
  BY <1>6 DEF JoinDelivery, Shareable, StartPosting, RequestSend
<1>7. ASSUME NEW s \in Sends, AskOutbox(s) \/ AnswerSend(s) PROVE SendTypeOK'
  BY <1>7 DEF AskOutbox, AnswerSend, Remembered
<1>8. ASSUME NEW s \in Sends, DeliveryThrows(s) PROVE SendTypeOK'
  BY <1>8 DEF DeliveryThrows, Unshare, Leave
<1>9. ASSUME NEW s \in Sends, NEW status \in {"sent", "failed"}, Delivered(s, status)
      PROVE  SendTypeOK'
  BY <1>9 DEF Delivered, Unshare, Leave
<1> QED
  BY <1>2, <1>3, <1>5, <1>6, <1>7, <1>8, <1>9 DEF SendNext, SendStep

(* Every step keeps who posts a content.                                    *)
LEMMA SharingStep ==
    ASSUME SendInv, FrontInv, [SendNext]_sendVars
    PROVE  SharingInv'
<1>0. /\ SendTypeOK /\ SendTypeOK' /\ SharingInv
      /\ request' = request /\ Content' = Content /\ Contents' = Contents
  BY SendTypeStep DEF SendInv
<1>1. Pooled' = Pooled
  BY <1>0 DEF Pooled
<1>2. \A s \in Sends : Content[s] \in Contents /\ Content[s] # Nobody
  BY ContentOfSend DEF SendInv
<1> USE <1>0, <1>1, <1>2, SendAssumption DEF SendTypeOK, SharingInv, Resting, Turns, Pooled
<1>3. CASE UNCHANGED sendVars
  BY <1>3 DEF sendVars
<1>4. CASE RepliesExpire
  <2>1. /\ sender' = sender /\ overran' = overran
        /\ \A k \in Contents : sharing[k] \in Sends /\ ~Ended(sharing[k]) => sharing'[k] = sharing[k]
    BY <1>4 DEF RepliesExpire
  <2>2. \A s \in Sends : sender[s] = "posting" => receipts[s] = "sending"
    BY DEF FrontInv, OpenInv
  <2> QED
    BY <2>1, <2>2 DEF Ended
<1>4a. CASE RestartManager
  BY <1>4a DEF RestartManager
<1>5. ASSUME NEW k \in Contents, SharingExpires(k) PROVE SharingInv'
  BY <1>5 DEF SharingExpires
<1>6. ASSUME NEW s \in Sends, Post(s) \/ AnswerRecent(s) \/ ReserveSend(s) \/ FindReceipt(s)
      PROVE  SharingInv'
  BY <1>6 DEF Post, AnswerRecent, ReserveSend, FindReceipt
<1>7. ASSUME NEW s \in Sends, StartPosting(s) PROVE SharingInv'
  BY <1>7 DEF StartPosting, Shareable
<1>8. ASSUME NEW s \in Sends,
             JoinDelivery(s) \/ RequestSend(s) \/ AskOutbox(s) \/ AnswerSend(s)
      PROVE  SharingInv'
  BY <1>8 DEF JoinDelivery, RequestSend, AskOutbox, AnswerSend
<1>9. ASSUME NEW s \in Sends, DeliveryThrows(s) PROVE SharingInv'
  BY <1>9 DEF DeliveryThrows, Unshare, Sharers
<1>10. ASSUME NEW s \in Sends, NEW status \in {"sent", "failed"}, Delivered(s, status)
       PROVE  SharingInv'
  BY <1>10 DEF Delivered, Unshare, Sharers
<1> QED
  BY <1>3, <1>4, <1>4a, <1>5, <1>6, <1>7, <1>8, <1>9, <1>10 DEF SendNext, SendStep

(* The check finds nothing recent only if the receipts say so too.          *)
LEMMA NothingRecent ==
    ASSUME SendInv, Finds(Nobody)
    PROVE  \A t \in Sends \ expired : receipts[t] = "sent" => sender[t] = "settled"
<1>1. CASE hydrated
  BY <1>1 DEF SendInv, RecentInv, Finds
<1>2. CASE ~hydrated
  BY <1>2, SendAssumption DEF Finds, Hydratable
<1> QED
  BY <1>1, <1>2

(* Every step keeps the table of replies in line with the receipts.         *)
LEMMA RecentStep ==
    ASSUME SendInv, FrontInv, [SendNext]_sendVars
    PROVE  RecentInv'
<1>0. /\ SendTypeOK /\ RecentInv /\ Content' = Content
  BY SendTypeStep DEF SendInv
<1>1. \A s \in Sends : Content[s] \in Contents /\ Content[s] # Nobody
  BY ContentOfSend DEF SendInv
<1> USE <1>0, <1>1 DEF SendTypeOK, RecentInv, Resting, Turns, Receives
<1>2. CASE UNCHANGED sendVars
  BY <1>2 DEF sendVars
<1>3. CASE RepliesExpire \/ RestartManager \/ \E k \in Contents : SharingExpires(k)
  BY <1>3 DEF RepliesExpire, Ended, Hydratable, RestartManager, SharingExpires
<1>4. ASSUME NEW s \in Sends, NEW r \in Contents \cup {Nobody, Unknown}, Checks(s, r)
      PROVE  hydrated' /\ recent' = Nobody =>
                \A t \in Sends \ expired : receipts[t] = "sent" => sender[t] = "settled"
  BY <1>4, NothingRecent DEF Checks
<1>5. ASSUME NEW s \in Sends, AnswerRecent(s) \/ ReserveSend(s) \/ FindReceipt(s)
      PROVE  RecentInv'
  <2>1. hydrated' /\ recent' = Nobody =>
            \A t \in Sends \ expired : receipts[t] = "sent" => sender[t] = "settled"
    BY <1>4, <1>5 DEF AnswerRecent, ReserveSend, FindReceipt
  <2>2. /\ expired' = expired /\ sender[s] \in Resting
        /\ \A t \in Sends : /\ receipts'[t] = "sent" => receipts[t] = "sent"
                            /\ t # s => sender'[t] = sender[t]
    BY <1>5 DEF AnswerRecent, ReserveSend, FindReceipt, Checks
  <2> QED
    BY <2>1, <2>2
<1>6. ASSUME NEW s \in Sends, Post(s) \/ JoinDelivery(s) \/ StartPosting(s) \/ RequestSend(s)
      PROVE  RecentInv'
  BY <1>6 DEF Post, JoinDelivery, StartPosting, RequestSend
<1>7. ASSUME NEW s \in Sends, AskOutbox(s) \/ AnswerSend(s) PROVE RecentInv'
  BY <1>7 DEF AskOutbox, AnswerSend, Remembered
<1>8. ASSUME NEW s \in Sends, DeliveryThrows(s) PROVE RecentInv'
  <2>1. \A t \in Sends : t \in Sharers(s) => receipts[t] = "sending"
    BY <1>8, SendAssumption DEF DeliveryThrows, Sharers, FrontInv, OpenInv, JoinedInv
  <2>2. \A t \in Sends : /\ receipts'[t] = "sent" => receipts[t] = "sent" /\ t \notin Sharers(s)
                         /\ t \notin Sharers(s) => sender'[t] = sender[t]
    BY <1>8, <2>1 DEF DeliveryThrows
  <2> QED
    BY <1>8, <2>2 DEF DeliveryThrows
<1>9. ASSUME NEW s \in Sends, NEW status \in {"sent", "failed"}, Delivered(s, status)
      PROVE  RecentInv'
  BY <1>9 DEF Delivered, Sharers
<1> QED
  BY <1>2, <1>3, <1>5, <1>6, <1>7, <1>8, <1>9 DEF SendNext, SendStep

(* The end of a delivery takes with it all that joined it, and only those.  *)
LEMMA SharersOfDelivery ==
    ASSUME SendInv, FrontInv, NEW s \in Sends, sender[s] = "posting"
    PROVE  /\ s \in Sharers(s) /\ Sharers(s) \subseteq Sends
           /\ \A t \in Sharers(s) : Content[t] = Content[s] /\ receipts[t] = "sending"
           /\ \A t \in Sends : t \in Sharers(s) <=> t = s \/ poster[t] = s
           /\ \A t \in Sharers(s) : t = s \/ sender[t] = "joined"
<1> USE DEF SendInv, FrontInv, Sharers
<1>1. \A t \in Sharers(s) : t \in Sends /\ (t = s \/ (poster[t] = s /\ sender[t] = "joined"))
  BY SendAssumption DEF JoinedInv
<1>2. \A t \in Sharers(s) : Content[t] = Content[s] /\ receipts[t] = "sending"
  BY <1>1 DEF JoinedInv, OpenInv
<1> QED
  BY <1>1, <1>2

(* Every step keeps them.                                                   *)
LEMMA FrontStep ==
    ASSUME SendInv, FrontInv, [SendNext]_sendVars
    PROVE  FrontInv'
<1>0. /\ SendTypeOK /\ SendTypeOK' /\ SharingInv
      /\ request' = request /\ Content' = Content /\ Contents' = Contents
  BY SendTypeStep DEF SendInv
<1>1. Pooled' = Pooled
  BY <1>0 DEF Pooled
<1>2. /\ \A s \in Sends : Content[s] \in Contents /\ Content[s] # Nobody
      /\ Nobody \notin Sends /\ Pooled \subseteq Sends
  BY ContentOfSend, SendAssumption DEF SendInv, Pooled
<1> USE <1>0, <1>1, <1>2 DEF SendTypeOK, Resting, Turns, Receives,
        FrontInv, OpenInv, SharedInv, JoinedInv, SentIsPosted
<1>3. CASE UNCHANGED sendVars
  BY <1>3 DEF sendVars
<1>4. CASE RepliesExpire
  BY <1>4 DEF RepliesExpire
<1>4a. CASE RestartManager
  BY <1>4a DEF RestartManager
<1>5. ASSUME NEW k \in Contents, SharingExpires(k) PROVE FrontInv'
  BY <1>5 DEF SharingExpires
<1>6. ASSUME NEW s \in Sends, Post(s) \/ RequestSend(s) PROVE FrontInv'
  BY <1>6 DEF Post, RequestSend
<1>7. ASSUME NEW s \in Sends, AnswerRecent(s) \/ ReserveSend(s) \/ FindReceipt(s)
      PROVE  FrontInv'
  BY <1>7 DEF AnswerRecent, ReserveSend, FindReceipt, Checks
<1>8. ASSUME NEW s \in Sends, StartPosting(s) PROVE FrontInv'
  BY <1>8 DEF StartPosting, Shareable
<1>9. ASSUME NEW s \in Sends, JoinDelivery(s) PROVE FrontInv'
  BY <1>9 DEF JoinDelivery, Shareable
<1>10. ASSUME NEW s \in Sends, AskOutbox(s) PROVE FrontInv'
  BY <1>10 DEF AskOutbox
<1>11. ASSUME NEW s \in Sends, AnswerSend(s) PROVE FrontInv'
  BY <1>11 DEF AnswerSend
<1>12. ASSUME NEW s \in Sends, DeliveryThrows(s) PROVE FrontInv'
  BY <1>12, SharersOfDelivery DEF DeliveryThrows, Unshare, Leave
<1>13. ASSUME NEW s \in Sends, NEW status \in {"sent", "failed"}, Delivered(s, status)
       PROVE  FrontInv'
  BY <1>13, SharersOfDelivery DEF Delivered, Unshare, Leave
<1> QED
  BY <1>3, <1>4, <1>4a, <1>5, <1>6, <1>7, <1>8, <1>9, <1>10, <1>11, <1>12, <1>13 DEF SendNext, SendStep

(* The invariant of the front.                                              *)
LEMMA SendInvariant == SendSpec => [](SendInv /\ FrontInv)
<1>1. SendInit => SendInv /\ FrontInv
  <2>0. 0 \in 0 .. MaxRestarts
    BY SendAssumption
  <2>1. SendInit => SendTypeOK
    BY <2>0 DEF SendInit, SendTypeOK, Resting
  <2>2. SendInit => SharingInv
    BY DEF SendInit, SharingInv, Pooled
  <2>3. SendInit => FrontInv
    BY ContentOfSend DEF SendInit, FrontInv, OpenInv, SharedInv, JoinedInv, SentIsPosted
  <2> QED
    BY <2>1, <2>2, <2>3 DEF SendInit, SendInv, RecentInv
<1>2. SendInv /\ FrontInv /\ [SendNext]_sendVars => SendInv' /\ FrontInv'
  <2> SUFFICES ASSUME SendInv, FrontInv, [SendNext]_sendVars PROVE SendInv' /\ FrontInv'
    OBVIOUS
  <2>1. SendTypeOK' /\ request' = request
    BY SendTypeStep DEF SendInv
  <2>2. SharingInv' /\ RecentInv' /\ FrontInv'
    BY SharingStep, RecentStep, FrontStep
  <2> QED
    BY <2>1, <2>2 DEF SendInv
<1> QED
  BY <1>1, <1>2, PTL DEF SendSpec

(* Type correctness of the calls, the receipts and the tables.              *)
THEOREM SendTypeCorrect == SendSpec => []SendTypeOK
<1>1. SendInv => SendTypeOK
  BY DEF SendInv
<1> QED
  BY <1>1, SendInvariant, PTL

(* Message-processing agents never post the same content at the same time,  *)
(* through joined deliveries, errors, retries, expiry and restarts, unless *)
(* a delivery of it has taken longer than the two minutes of its entry.    *)
THEOREM ContentIsPostedOnce == SendSpec => []OnePostingInTime
<1>1. SendInv => OnePostingInTime
  BY DEF SendInv, SharingInv, OnePostingInTime, Pooled
<1> QED
  BY <1>1, SendInvariant, PTL

(* A reply gets past the check only when no other of the window is done,    *)
(* be it one whose receipt a Manager wrote before a restart.                *)
THEOREM NoSecondReply == SendSpec => RecentReplyBlocks
<1>1. ASSUME SendInv, FrontInv, SendNext, NEW s \in Sends \ FollowUps,
             sender[s] \in Resting, sender'[s] \in {"starting", "recovering"}
      PROVE  \A t \in Sends \ expired : receipts[t] = "sent" => sender[t] = "settled"
  <2> USE <1>1 DEF SendInv, SendTypeOK, Resting, Turns
  <2>1. CASE RepliesExpire \/ RestartManager \/ \E k \in Contents : SharingExpires(k)
    BY <2>1 DEF RepliesExpire, RestartManager, SharingExpires
  <2>2. ASSUME NEW u \in Sends, SendStep(u) \/ Post(u) PROVE FALSE
    <3>1. CASE JoinDelivery(u) \/ StartPosting(u) \/ RequestSend(u) \/ AskOutbox(u)
               \/ AnswerSend(u) \/ Post(u)
      BY <3>1 DEF JoinDelivery, StartPosting, RequestSend, AskOutbox, AnswerSend, Post
    <3>2. CASE \E status \in {"sent", "failed"} : Delivered(u, status)
      BY <3>2 DEF Delivered
    <3>3. CASE DeliveryThrows(u)
      <4>1. s \notin Sharers(u)
        BY <3>3, SendAssumption DEF DeliveryThrows, Sharers, FrontInv, JoinedInv
      <4> QED
        BY <3>3, <4>1 DEF DeliveryThrows
    <3> QED
      BY <2>2, <3>1, <3>2, <3>3 DEF SendStep
  <2>3. ASSUME NEW u \in Sends, AnswerRecent(u) PROVE FALSE
    BY <2>3 DEF AnswerRecent
  <2>4. ASSUME NEW u \in Sends, ReserveSend(u) \/ FindReceipt(u) PROVE Finds(Nobody)
    BY <2>4 DEF ReserveSend, FindReceipt, Checks
  <2> QED
    BY <2>1, <2>2, <2>3, <2>4, NothingRecent DEF SendNext
<1>2. SendInv /\ FrontInv /\ [SendNext]_sendVars =>
        [\A s \in Sends \ FollowUps :
          sender[s] \in Resting /\ sender'[s] \in {"starting", "recovering"} =>
              \A t \in Sends \ expired :
                  receipts[t] = "sent" => sender[t] = "settled"]_sendVars
  BY <1>1
<1> QED
  BY <1>2, SendInvariant, PTL DEF SendSpec, RecentReplyBlocks

(* A receipt that says "sent" is true, whichever call it was copied from    *)
(* and whatever came between: its content has reached the platform.        *)
THEOREM SentReceiptIsTrue == SendSpec => []SentIsPosted
<1>1. FrontInv => SentIsPosted
  BY DEF FrontInv
<1> QED
  BY <1>1, SendInvariant, PTL

(* A call that waits for the delivery of another waits for one that is      *)
(* posting, and that never itself waits: calls do not wait in a circle, and *)
(* the end of the one releases all.                                        *)
THEOREM JoinerHasAPoster ==
    SendSpec => [](\A s \in Sends : sender[s] = "joined" =>
        \E t \in Pooled : sender[t] = "posting" /\ Content[t] = Content[s] /\ s \in Sharers(t))
<1>1. SendInv /\ FrontInv => \A s \in Sends : sender[s] = "joined" =>
        \E t \in Pooled : sender[t] = "posting" /\ Content[t] = Content[s] /\ s \in Sharers(t)
  BY DEF FrontInv, JoinedInv, Sharers
<1> QED
  BY <1>1, SendInvariant, PTL

-----------------------------------------------------------------------------
(* Agent requests.                                                         *)

Statuses == {"absent", "pending", "awaiting", "responded", "cancelled"}
Entry == [status : Statuses, reserved : Deliveries \cup {Nothing}, evidence : BOOLEAN,
          answer : Deliveries \cup {Nothing}, due : BOOLEAN]

(* One entry of a store agrees with what has arrived: a reservation and a   *)
(* due reminder are those of an open request.                              *)
EntryInv(q, r, there) ==
    /\ r.reserved # Nothing => r.status = "awaiting"
    /\ r.answer # Nothing => r.status = "responded"
    /\ r.due => r.status = "awaiting"
    /\ r.status \in {"awaiting", "responded"} => q \in there
    /\ r.status = "responded" => r.answer \in there

(* A reply that is tracked itself has been delivered when it is an answer.  *)
AnswersTracked(rs) ==
    \A q \in Tracked : rs[q].answer \in Tracked =>
        rs[rs[q].answer].status \in {"awaiting", "responded", "cancelled"}

StoreInv(rs, there) ==
    /\ rs \in [Tracked -> Entry]
    /\ \A q \in Tracked : EntryInv(q, rs[q], there)
    /\ AnswersTracked(rs)

(* An answer is on file before anyone relies on it.                         *)
FiledInv == \A q \in Tracked : records[q].status = "responded" => filed[q] = records[q]

(* A reply is sent after its request has arrived, by one call at a time.    *)
CallInv ==
    /\ \A d \in Deliveries :
          /\ call[d] \in {"none", "confirming", "ready", "prepared"} => d \notin underway \cup arrived
          /\ IsReply(d) /\ call[d] # "none" => ReplyTo[d] \in arrived
          /\ call[d] = "confirming" => IsReply(d)
          /\ call[d] = "prepared" /\ IsReply(d) => records[ReplyTo[d]].reserved = d
    /\ \A d, e \in Deliveries : call[d] = "prepared" /\ call[e] = "prepared" => d = e

(* What keeps further replies from a request whose reply d is sent.         *)
Held(rs, d) == \/ rs[ReplyTo[d]].reserved = d \/ rs[ReplyTo[d]].answer = d
               \/ rs[ReplyTo[d]].status = "cancelled"

SentInv ==
    /\ \A d \in underway \cup arrived :
          IsReply(d) /\ ReplyTo[d] \notin replaced => Held(records, d) /\ Held(filed, d)
    /\ \A d, e \in underway \cup arrived :
          d # e /\ IsReply(d) /\ ReplyTo[d] = ReplyTo[e] => ReplyTo[d] \in replaced

RequestInv ==
    /\ RequestTypeOK
    /\ StoreInv(records, arrived) /\ StoreInv(filed, arrived)
    /\ FiledInv /\ CallInv /\ SentInv

(* What a step may do to the store: it keeps its entries in order, and what *)
(* is answered.                                                            *)
Keeps(new, there) ==
    /\ StoreInv(new, there)
    /\ \A q \in Tracked : records[q].status = "responded" => new[q] = records[q]
HoldsOn(new, sent, gone) ==
    \A e \in sent : IsReply(e) /\ ReplyTo[e] \notin gone /\ Held(records, e) => Held(new, e)

(* The entry of a delivery that was never tracked or is no more.            *)
LEMMA AbsentEntry == Absent \in Entry
BY DEF Absent, Entry, Statuses

(* A reply answers a tracked request.                                       *)
LEMMA RepliesToTracked ==
    ASSUME NEW d \in Deliveries
    PROVE  /\ IsReply(d) => ReplyTo[d] \in Tracked
           /\ ~IsReply(d) => ReplyTo[d] = Nothing /\ Nothing \notin Tracked
BY RequestsAssumption DEF IsReply

(* commit closes the request that is answered and opens the one carried.    *)
LEMMA CommitKeeps ==
    ASSUME RequestInv, NEW d \in Deliveries, d \in arrived, ~CommitThrows(d),
           IsReply(d) => ReplyTo[d] \in arrived
    PROVE  Keeps(Committed(d), arrived) /\ HoldsOn(Committed(d), underway \cup arrived, replaced)
<1> DEFINE C == Committed(d)
<1>0. /\ records \in [Tracked -> Entry]
      /\ \A q \in Tracked : records[q] \in Entry /\ EntryInv(q, records[q], arrived)
      /\ AnswersTracked(records) /\ SentInv /\ arrived \subseteq Deliveries
  BY DEF RequestInv, StoreInv, RequestTypeOK
<1>1. CASE Recorded(d)
  BY <1>1 DEF Committed, Keeps, HoldsOn, RequestInv
<1>2. CASE ~Recorded(d)
  <2>1. \A q \in Tracked :
           C[q] = IF q = ReplyTo[d] THEN [Absent EXCEPT !.status = "responded", !.answer = d]
                  ELSE IF q = d /\ records[q].status = "pending"
                  THEN [records[q] EXCEPT !.status = "awaiting"]
                  ELSE records[q]
    BY <1>2 DEF Committed
  <2>2. IsReply(d) => ReplyTo[d] \in Tracked /\ records[ReplyTo[d]].reserved = d
    BY <1>2, RepliesToTracked DEF CommitThrows
  <2>3. d \in Tracked => records[d].status \in {"pending", "awaiting", "responded"}
    BY <1>0 DEF CommitThrows, Entry, Statuses
  <2>4. \A q \in Tracked :
           /\ C[q] \in Entry /\ EntryInv(q, C[q], arrived)
           /\ records[q].status = "responded" => C[q] = records[q]
           /\ q # ReplyTo[d] => /\ C[q].reserved = records[q].reserved
                               /\ C[q].answer = records[q].answer
                               /\ C[q].status = IF q = d /\ records[q].status = "pending"
                                                THEN "awaiting" ELSE records[q].status
           /\ q = ReplyTo[d] => C[q].answer = d /\ C[q].status = "responded"
    <3> SUFFICES ASSUME NEW q \in Tracked
                 PROVE  /\ C[q] \in Entry /\ EntryInv(q, C[q], arrived)
                        /\ records[q].status = "responded" => C[q] = records[q]
                        /\ q # ReplyTo[d] =>
                              /\ C[q].reserved = records[q].reserved
                              /\ C[q].answer = records[q].answer
                              /\ C[q].status = IF q = d /\ records[q].status = "pending"
                                               THEN "awaiting" ELSE records[q].status
                        /\ q = ReplyTo[d] => C[q].answer = d /\ C[q].status = "responded"
      OBVIOUS
    <3> HIDE DEF C
    <3>1. CASE q = ReplyTo[d]
      <4>1. IsReply(d)
        BY <3>1, RepliesToTracked
      <4>2. C[q] = [status |-> "responded", reserved |-> Nothing, evidence |-> FALSE,
                    answer |-> d, due |-> FALSE]
        BY <2>1, <3>1 DEF Absent
      <4>3. records[q].status = "awaiting"
        BY <1>0, <2>2, <3>1, <4>1, RequestsAssumption DEF EntryInv
      <4> QED
        BY <3>1, <4>1, <4>2, <4>3, RequestsAssumption DEF Entry, Statuses, EntryInv
    <3>2. CASE q # ReplyTo[d] /\ q = d /\ records[q].status = "pending"
      <4>1. C[q] = [records[q] EXCEPT !.status = "awaiting"] /\ records[q] \in Entry
        BY <1>0, <2>1, <3>2
      <4>2. /\ C[q] \in Entry /\ C[q].status = "awaiting"
            /\ C[q].reserved = records[q].reserved /\ C[q].answer = records[q].answer
            /\ C[q].due = records[q].due
        BY <4>1 DEF Entry, Statuses
      <4> QED
        BY <1>0, <3>2, <4>2 DEF EntryInv
    <3>3. CASE q # ReplyTo[d] /\ ~(q = d /\ records[q].status = "pending")
      BY <1>0, <2>1, <3>3
    <3> QED
      BY <3>1, <3>2, <3>3
  <2>5. C \in [Tracked -> Entry]
    <3>1. C = [q \in Tracked |-> C[q]]
      BY <1>2 DEF Committed
    <3> QED
      BY <2>4, <3>1
  <2> HIDE DEF C
  <2>6. AnswersTracked(C)
    BY <1>0, <2>2, <2>3, <2>4 DEF AnswersTracked
  <2>7. HoldsOn(C, underway \cup arrived, replaced)
    <3> SUFFICES ASSUME NEW e \in underway \cup arrived, IsReply(e),
                        ReplyTo[e] \notin replaced, Held(records, e)
                 PROVE  Held(C, e)
      BY DEF HoldsOn
    <3>1. ReplyTo[e] \in Tracked /\ e # Nothing
      BY RepliesToTracked, RequestsAssumption DEF RequestInv, RequestTypeOK
    <3>2. CASE ReplyTo[e] = ReplyTo[d]
      BY <1>0, <2>2, <2>4, <3>1, <3>2, RequestsAssumption DEF Held, IsReply, EntryInv
    <3>3. CASE ReplyTo[e] # ReplyTo[d]
      BY <2>4, <3>1, <3>3 DEF Held
    <3> QED
      BY <3>2, <3>3
  <2> QED
    BY <2>4, <2>5, <2>6, <2>7 DEF Keeps, StoreInv, C
<1> QED
  BY <1>1, <1>2

(* An open request changes without being answered: it stays in order.       *)
Changes(q, r) ==
    \/ r = records[q]
    \/ /\ r \in Entry /\ EntryInv(q, r, arrived)
       /\ records[q].status # "responded" /\ r.status # "responded"
       /\ q \in arrived /\ records[q].status \in {"awaiting", "cancelled"}
              => r.status \in {"awaiting", "cancelled"}

NothingAnswered(new) ==
    \A q \in Tracked : new[q].status = "responded" => records[q].status = "responded"

(* A change of one record that may be filed keeps the invariant.           *)
LEMMA ChangeKeeps ==
    ASSUME RequestInv, NEW new, new = [q \in Tracked |-> new[q]],
           \A q \in Tracked : Changes(q, new[q])
    PROVE  Keeps(new, arrived) /\ NothingAnswered(new)
<1>0. /\ records \in [Tracked -> Entry]
      /\ \A q \in Tracked : records[q] \in Entry /\ EntryInv(q, records[q], arrived)
      /\ AnswersTracked(records)
  BY DEF RequestInv, StoreInv
<1>1. \A q \in Tracked :
         /\ new[q] \in Entry /\ EntryInv(q, new[q], arrived)
         /\ records[q].status = "responded" => new[q] = records[q]
         /\ new[q].status = "responded" => records[q].status = "responded"
  BY <1>0 DEF Changes
<1>2. new \in [Tracked -> Entry]
  BY <1>1
<1>3. AnswersTracked(new)
  <2> SUFFICES ASSUME NEW q \in Tracked, new[q].answer \in Tracked
               PROVE  new[new[q].answer].status \in {"awaiting", "responded", "cancelled"}
    BY DEF AnswersTracked
  <2>1. new[q].status = "responded" /\ new[q] = records[q]
    BY <1>1, RequestsAssumption DEF EntryInv
  <2>2. /\ new[q].answer \in arrived
        /\ records[new[q].answer].status \in {"awaiting", "responded", "cancelled"}
    BY <1>0, <1>1, <2>1 DEF AnswersTracked, EntryInv
  <2> QED
    BY <2>2 DEF Changes
<1> QED
  BY <1>1, <1>2, <1>3 DEF Keeps, StoreInv, NothingAnswered

(* One entry changes.                                                       *)
LEMMA EntryChange ==
    ASSUME RequestInv, NEW q \in Tracked, NEW r, Changes(q, r)
    PROVE  LET new == [records EXCEPT ![q] = r]
           IN Keeps(new, arrived) /\ NothingAnswered(new)
<1> DEFINE new == [records EXCEPT ![q] = r]
<1>1. records \in [Tracked -> Entry]
  BY DEF RequestInv, StoreInv
<1>2. new = [p \in Tracked |-> new[p]]
  BY <1>1
<1>3. \A p \in Tracked : Changes(p, new[p])
  <2> TAKE p \in Tracked
  <2>1. new[p] = IF p = q THEN r ELSE records[p]
    BY <1>1
  <2> HIDE DEF new
  <2> QED
    BY <2>1 DEF Changes
<1> QED
  BY <1>2, <1>3, ChangeKeeps

(* What a step does to the store and to its file.                           *)
StoreKept ==
    /\ Keeps(records', arrived) /\ arrived \subseteq arrived'
    /\ filed' = records' \/ (filed' = filed /\ NothingAnswered(records'))

(* A step that keeps the store true also keeps what is filed true.         *)
LEMMA KeptStep ==
    ASSUME RequestInv, StoreKept
    PROVE  StoreInv(records', arrived') /\ StoreInv(filed', arrived') /\ FiledInv'
<1>1. ASSUME NEW rs, StoreInv(rs, arrived) PROVE StoreInv(rs, arrived')
  BY <1>1 DEF StoreKept, StoreInv, EntryInv
<1>2. StoreInv(records', arrived') /\ StoreInv(filed', arrived')
  BY <1>1 DEF RequestInv, StoreKept, Keeps
<1>3. filed' = records' => FiledInv'
  BY DEF FiledInv
<1>4. filed' = filed /\ NothingAnswered(records') => FiledInv'
  BY DEF RequestInv, StoreKept, Keeps, FiledInv, NothingAnswered
<1> QED
  BY <1>2, <1>3, <1>4 DEF StoreKept

(* What is sent stays held, if no step sends more.                          *)
LEMMA SentStep ==
    ASSUME RequestInv, HoldsOn(records', underway' \cup arrived', replaced'),
           filed' = records' \/ filed' = filed, replaced \subseteq replaced',
           underway' \cup arrived' \subseteq underway \cup arrived
    PROVE  SentInv'
BY DEF RequestInv, SentInv, HoldsOn, Held

(* The rest of the state keeps its types.                                   *)
RestTypeOK ==
    /\ call \in [Deliveries -> {"none", "confirming", "ready", "prepared", "sending",
                                "delivered", "untracked", "unconfirmed", "refused",
                                "failed", "lost"}]
    /\ underway \subseteq Deliveries /\ arrived \subseteq Deliveries
    /\ reminding \in [Tracked -> Deliveries \cup {"no", "sending"}]
    /\ armed \subseteq Tracked /\ turned \subseteq Tracked
    /\ replaced \subseteq Tracked /\ events \in Nat

(* The types, without and with the records.                                *)
LEMMA RequestTypes ==
    /\ RequestTypeOK <=> RestTypeOK /\ records \in [Tracked -> Entry] /\ filed \in [Tracked -> Entry]
    /\ RequestTypeOK' <=> RestTypeOK' /\ records' \in [Tracked -> Entry] /\ filed' \in [Tracked -> Entry]
BY DEF RequestTypeOK, RestTypeOK, Entry, Statuses

(* The fields besides the records keep their types.                        *)
LEMMA RestTypeStep ==
    ASSUME RequestTypeOK, [RequestsNext]_requestVars
    PROVE  RestTypeOK'
<1>0. RestTypeOK /\ records \in [Tracked -> Entry]
  BY RequestTypes
<1> USE <1>0 DEF RestTypeOK, Calls
<1>1. CASE UNCHANGED requestVars
  BY <1>1 DEF requestVars
<1>2. ASSUME NEW d \in Deliveries,
             SendCalled(d) \/ ConfirmOriginal(d) \/ Prepare(d) \/ PrepareRefuses(d)
      PROVE  RestTypeOK'
  BY <1>2 DEF SendCalled, ConfirmOriginal, Prepare, PrepareRefuses
<1>3. ASSUME NEW d \in Deliveries,
             SendReserved(d) \/ BindFails(d) \/ Accepted(d) \/ Unconfirmed(d) \/ SendFails(d)
      PROVE  RestTypeOK'
  BY <1>3 DEF SendReserved, BindFails, Accepted, Unconfirmed, SendFails, Refresh
<1>4. ASSUME NEW d \in Deliveries, Arrive(d) \/ Vanish(d) \/ Recover(d) PROVE RestTypeOK'
  BY <1>4 DEF Arrive, Vanish, Recover
<1>5. ASSUME NEW q \in Tracked, TurnEnds(q) PROVE RestTypeOK'
  BY <1>5 DEF TurnEnds
<1>6. ASSUME NEW q \in Tracked, ReminderFires(q) PROVE RestTypeOK'
  <2>1. records[q].reserved \in Deliveries \cup {Nothing}
    BY DEF Entry
  <2> QED
    BY <1>6, <2>1 DEF ReminderFires
<1>7. ASSUME NEW q \in Tracked, ReminderEnds(q) \/ CheckEnds(q) PROVE RestTypeOK'
  BY <1>7 DEF ReminderEnds, CheckEnds, RecordResult, Rearm
<1>8. ASSUME NEW q \in Tracked, Cancel(q) \/ Replace(q) PROVE RestTypeOK'
  BY <1>8 DEF Cancel, Replace, Refresh
<1>9. CASE Reload
  BY <1>9 DEF Reload
<1> QED
  BY <1>1, <1>2, <1>3, <1>4, <1>5, <1>6, <1>7, <1>8, <1>9 DEF RequestsNext, SendSteps

(* What is to be shown of a step, its types apart.                          *)
StepKeeps == StoreKept /\ CallInv' /\ SentInv'

(* Steps that leave the store alone.                                        *)
LEMMA QuietStep ==
    ASSUME RequestInv, records' = records, filed' = filed, replaced' = replaced,
           arrived \subseteq arrived', underway' \cup arrived' \subseteq underway \cup arrived,
           CallInv'
    PROVE  StepKeeps
<1>1. StoreKept
  BY DEF StoreKept, Keeps, RequestInv, NothingAnswered
<1>2. SentInv'
  BY DEF RequestInv, SentInv, Held
<1> QED
  BY <1>1, <1>2 DEF StepKeeps

(* Calls, arrivals and a reminder that starts keep the store.              *)
LEMMA QuietSteps ==
    ASSUME RequestInv, NEW d \in Deliveries,
           \/ SendCalled(d) \/ PrepareRefuses(d) \/ Unconfirmed(d) \/ Arrive(d) \/ Vanish(d)
           \/ \E q \in Tracked : ReminderFires(q)
    PROVE  StepKeeps
<1> USE DEF RequestInv, CallInv, RequestTypeOK, Calls
<1>1. CASE SendCalled(d)
  BY <1>1, QuietStep DEF SendCalled, Free
<1>2. CASE PrepareRefuses(d)
  BY <1>2, QuietStep DEF PrepareRefuses, Free
<1>3. CASE Unconfirmed(d)
  BY <1>3, QuietStep DEF Unconfirmed, Free
<1>4. CASE Arrive(d)
  BY <1>4, QuietStep DEF Arrive
<1>5. CASE Vanish(d)
  BY <1>5, QuietStep DEF Vanish
<1>6. CASE \E q \in Tracked : ReminderFires(q)
  BY <1>6, QuietStep DEF ReminderFires
<1> QED
  BY <1>1, <1>2, <1>3, <1>4, <1>5, <1>6

(* Facts of the invariant that the steps below start from.                  *)
LEMMA StoreFacts ==
    ASSUME RequestInv
    PROVE  /\ records \in [Tracked -> Entry]
           /\ \A q \in Tracked : records[q] \in Entry /\ EntryInv(q, records[q], arrived)
           /\ call \in [Deliveries -> {"none", "confirming", "ready", "prepared", "sending",
                                       "delivered", "untracked", "unconfirmed", "refused",
                                       "failed", "lost"}]
           /\ underway \subseteq Deliveries /\ arrived \subseteq Deliveries
           /\ CallInv /\ SentInv
           /\ Nothing \notin Deliveries /\ Nothing \notin Tracked /\ Tracked \subseteq Deliveries
BY RequestsAssumption DEF RequestInv, StoreInv, RequestTypeOK

(* A store that changed in order, written or not, with calls in order and   *)
(* nothing more sent.                                                      *)
LEMMA ChangedStep ==
    ASSUME RequestInv, Keeps(records', arrived), NothingAnswered(records'),
           filed' = records' \/ filed' = filed,
           HoldsOn(records', underway' \cup arrived', replaced'), replaced \subseteq replaced',
           arrived' = arrived, underway' \subseteq underway, CallInv'
    PROVE  StepKeeps
BY SentStep DEF StepKeeps, StoreKept

(* prepare reserves the request that is answered and enters the one carried. *)
LEMMA PrepareStep ==
    ASSUME RequestInv, NEW d \in Deliveries, Prepare(d)
    PROVE  StepKeeps
<1> DEFINE new == Reserved(d)
<1>0. /\ call[d] = "ready" /\ d \notin underway \cup arrived
      /\ \A e \in Deliveries : call[e] # "prepared"
      /\ IsReply(d) => /\ ReplyTo[d] \in Tracked /\ ReplyTo[d] \in arrived
                       /\ records[ReplyTo[d]].status = "awaiting"
                       /\ records[ReplyTo[d]].reserved = Nothing
  BY StoreFacts, RepliesToTracked DEF Prepare, Free, AcceptsReply, CallInv
<1>1. \A q \in Tracked : new[q] = IF q = ReplyTo[d] THEN [records[q] EXCEPT !.reserved = d]
                                  ELSE IF q = d THEN [Absent EXCEPT !.status = "pending"]
                                  ELSE records[q]
  BY DEF Reserved
<1>2. new = [q \in Tracked |-> new[q]]
  BY DEF Reserved
<1> HIDE DEF new
<1>3. ASSUME IsReply(d)
      PROVE  /\ Changes(ReplyTo[d], new[ReplyTo[d]])
             /\ new[ReplyTo[d]].reserved = d /\ new[ReplyTo[d]].status = "awaiting"
             /\ new[ReplyTo[d]].answer = records[ReplyTo[d]].answer
  <2> DEFINE q == ReplyTo[d]
  <2>1. new[q] = [records[q] EXCEPT !.reserved = d] /\ records[q] \in Entry
        /\ EntryInv(q, records[q], arrived) /\ q \in Tracked
    BY <1>0, <1>1, <1>3, StoreFacts
  <2>2. /\ new[q] \in Entry /\ new[q].status = "awaiting" /\ new[q].reserved = d
        /\ new[q].answer = records[q].answer /\ new[q].due = records[q].due
    BY <1>0, <1>3, <2>1 DEF Entry
  <2> QED
    BY <1>0, <1>3, <2>1, <2>2 DEF Changes, EntryInv
<1>4. ASSUME d \in Tracked, ReplyTo[d] # d PROVE Changes(d, new[d])
  <2>1. new[d] = [status |-> "pending", reserved |-> Nothing, evidence |-> FALSE,
                  answer |-> Nothing, due |-> FALSE]
    BY <1>1, <1>4 DEF Absent
  <2>2. EntryInv(d, records[d], arrived) /\ records[d] \in Entry
    BY <1>4, StoreFacts
  <2> QED
    BY <1>0, <2>1, <2>2 DEF Changes, Entry, Statuses, EntryInv
<1>5. \A q \in Tracked : Changes(q, new[q])
  <2> TAKE q \in Tracked
  <2>1. CASE q = ReplyTo[d]
    BY <1>3, <2>1, RepliesToTracked
  <2>2. CASE q # ReplyTo[d] /\ q = d
    BY <1>4, <2>2
  <2>3. CASE q # ReplyTo[d] /\ q # d
    BY <1>1, <2>3 DEF Changes
  <2> QED
    BY <2>1, <2>2, <2>3
<1>6. Keeps(new, arrived) /\ NothingAnswered(new)
  BY <1>2, <1>5, ChangeKeeps
<1>7. HoldsOn(new, underway \cup arrived, replaced)
  <2> SUFFICES ASSUME NEW e \in underway \cup arrived, IsReply(e), ReplyTo[e] \notin replaced,
                      Held(records, e)
               PROVE  Held(new, e)
    BY DEF HoldsOn
  <2>1. e \in Deliveries /\ ReplyTo[e] \in Tracked /\ ReplyTo[e] \in arrived /\ e # Nothing
    BY StoreFacts, RepliesToTracked DEF CallInv
  <2>2. ReplyTo[e] # d
    BY <1>0, <2>1
  <2>3. ReplyTo[e] # ReplyTo[d]
    <3> SUFFICES ASSUME ReplyTo[e] = ReplyTo[d] PROVE FALSE
      OBVIOUS
    <3>1. IsReply(d)
      BY DEF IsReply
    <3>2. EntryInv(ReplyTo[d], records[ReplyTo[d]], arrived)
      BY <2>1, StoreFacts
    <3> QED
      BY <1>0, <2>1, <3>1, <3>2 DEF Held, EntryInv
  <2> QED
    BY <1>1, <2>1, <2>2, <2>3 DEF Held
<1>8. /\ records' = new /\ filed' \in {filed, records'}
      /\ call' = [call EXCEPT ![d] = call'[d]] /\ call'[d] \in {"prepared", "refused"}
      /\ UNCHANGED <<underway, arrived, replaced>>
  BY StoreFacts DEF Prepare, Persist, Calls, new
<1>9. CallInv'
  BY <1>0, <1>3, <1>8, StoreFacts DEF CallInv
<1> QED
  BY <1>6, <1>7, <1>8, <1>9, ChangedStep

(* A sent reply is held, so no other one holds its request.                 *)
LEMMA HolderIsUnique ==
    ASSUME RequestInv, NEW d \in Deliveries, IsReply(d), records[ReplyTo[d]].reserved = d,
           NEW e \in underway \cup arrived, ReplyTo[e] = ReplyTo[d], Held(records, e)
    PROVE  e = d
<1>1. /\ e # Nothing /\ d # Nothing
      /\ EntryInv(ReplyTo[d], records[ReplyTo[d]], arrived)
  BY StoreFacts, RepliesToTracked
<1> QED
  BY <1>1 DEF EntryInv, Held

(* bindResponseEvidence and the send.                                       *)
LEMMA SendReservedStep ==
    ASSUME RequestInv, NEW d \in Deliveries, SendReserved(d)
    PROVE  StepKeeps
<1>0. /\ call[d] = "prepared" /\ \A e \in Deliveries : call[e] = "prepared" => e = d
      /\ IsReply(d) => /\ ReplyTo[d] \in Tracked /\ ReplyTo[d] \in arrived
                       /\ records[ReplyTo[d]].reserved = d
                       /\ records[ReplyTo[d]].status = "awaiting"
  BY StoreFacts, RepliesToTracked DEF SendReserved, CallInv, EntryInv
<1>1. /\ records' = [q \in Tracked |-> IF q = ReplyTo[d] THEN [records[q] EXCEPT !.evidence = TRUE]
                                       ELSE records[q]]
      /\ filed' = IF IsReply(d) THEN records' ELSE filed
      /\ call' = [call EXCEPT ![d] = "sending"] /\ underway' = underway \cup {d}
      /\ UNCHANGED <<arrived, replaced>>
  BY DEF SendReserved, Calls
<1>2. \A q \in Tracked :
         /\ records'[q].reserved = records[q].reserved /\ records'[q].status = records[q].status
         /\ records'[q].answer = records[q].answer /\ records'[q].due = records[q].due
         /\ records'[q] \in Entry
         /\ q # ReplyTo[d] => records'[q] = records[q]
  <2> TAKE q \in Tracked
  <2>1. records[q] \in Entry
    BY StoreFacts
  <2>2. records'[q] = IF q = ReplyTo[d] THEN [records[q] EXCEPT !.evidence = TRUE]
                      ELSE records[q]
    BY <1>1
  <2> QED
    BY ONLY <2>1, <2>2 DEF Entry
<1>3. \A q \in Tracked : Changes(q, records'[q])
  <2> TAKE q \in Tracked
  <2>1. CASE q = ReplyTo[d]
    BY <1>0, <1>2, <2>1, StoreFacts, RepliesToTracked DEF Changes, EntryInv
  <2>2. CASE q # ReplyTo[d]
    BY <1>2, <2>2 DEF Changes
  <2> QED
    BY <2>1, <2>2
<1>4. records' = [q \in Tracked |-> records'[q]]
  BY <1>1
<1>5. Keeps(records', arrived) /\ NothingAnswered(records')
  BY <1>3, <1>4, ChangeKeeps
<1>6. StoreKept
  BY <1>1, <1>5 DEF StoreKept
<1>7. CallInv'
  BY <1>0, <1>1, StoreFacts DEF CallInv
<1>8. SentInv'
  <2>1. ASSUME NEW e \in (underway \cup arrived)', IsReply(e), ReplyTo[e] \notin replaced'
        PROVE  Held(records, e) /\ Held(records', e) /\ Held(filed', e)
    <3>1. ReplyTo[e] \in Tracked
      BY <1>1, <2>1, StoreFacts, RepliesToTracked
    <3>2. CASE e = d
      BY <1>0, <1>1, <1>2, <2>1, <3>1, <3>2 DEF Held
    <3>3. CASE e # d
      <4>1. e \in underway \cup arrived /\ Held(records, e) /\ Held(filed, e)
        BY <1>1, <2>1, <3>3, StoreFacts DEF SentInv
      <4> QED
        BY <1>1, <1>2, <3>1, <4>1 DEF Held
    <3> QED
      BY <3>2, <3>3
  <2>2. ASSUME NEW e \in underway \cup arrived, e # d, IsReply(e), ReplyTo[e] = ReplyTo[d]
        PROVE  ReplyTo[e] \in replaced
    BY <1>0, <1>1, <2>1, <2>2, HolderIsUnique DEF IsReply
  <2>3. ASSUME NEW e \in (underway \cup arrived)', NEW f \in (underway \cup arrived)',
               e # f, IsReply(e), ReplyTo[e] = ReplyTo[f]
        PROVE  ReplyTo[e] \in replaced'
    <3>1. IsReply(f)
      BY <2>3 DEF IsReply
    <3>2. {e, f} \subseteq underway \cup arrived \cup {d}
      BY <1>1, <2>3
    <3>3. CASE e = d \/ f = d
      BY <1>1, <2>2, <2>3, <3>1, <3>2, <3>3
    <3>4. CASE e # d /\ f # d
      BY <1>1, <2>3, <3>2, <3>4, StoreFacts DEF SentInv
    <3> QED
      BY <3>3, <3>4
  <2> QED
    BY ONLY <2>1, <2>3 DEF SentInv, IsReply
<1> QED
  BY <1>6, <1>7, <1>8 DEF StepKeeps

(* abort gives up the reservation of a message that is not sent.            *)
LEMMA AbortKeeps ==
    ASSUME RequestInv, NEW d \in Deliveries
    PROVE  /\ Keeps(Aborted(d), arrived) /\ NothingAnswered(Aborted(d))
           /\ HoldsOn(Aborted(d), (underway \cup arrived) \ {d}, replaced)
<1> DEFINE new == Aborted(d)
<1>1. \A q \in Tracked :
         new[q] = IF q = ReplyTo[d] /\ records[q].reserved = d THEN Released(records[q])
                  ELSE IF q = d /\ records[q].status = "pending" THEN Absent
                  ELSE records[q]
  BY DEF Aborted
<1>2. new = [q \in Tracked |-> new[q]]
  BY DEF Aborted
<1> HIDE DEF new
<1>3. \A q \in Tracked : Changes(q, new[q])
  <2> TAKE q \in Tracked
  <2>0. records[q] \in Entry /\ EntryInv(q, records[q], arrived) /\ d # Nothing
    BY StoreFacts
  <2>1. CASE q = ReplyTo[d] /\ records[q].reserved = d
    <3>1. new[q] = Released(records[q]) /\ records[q].status = "awaiting"
      BY <1>1, <2>0, <2>1 DEF EntryInv
    <3>2. /\ new[q] \in Entry /\ new[q].status = "awaiting" /\ new[q].reserved = Nothing
          /\ new[q].answer = records[q].answer /\ new[q].due = records[q].due
      BY <2>0, <3>1 DEF Entry, Released
    <3> QED
      BY <2>0, <3>1, <3>2 DEF Changes, EntryInv
  <2>2. CASE ~(q = ReplyTo[d] /\ records[q].reserved = d) /\ q = d
             /\ records[q].status = "pending"
    <3>1. new[q] = [status |-> "absent", reserved |-> Nothing, evidence |-> FALSE,
                    answer |-> Nothing, due |-> FALSE]
      BY <1>1, <2>2 DEF Absent
    <3> QED
      BY <2>2, <3>1 DEF Changes, Entry, Statuses, EntryInv
  <2>3. CASE /\ ~(q = ReplyTo[d] /\ records[q].reserved = d)
             /\ ~(q = d /\ records[q].status = "pending")
    BY <1>1, <2>3 DEF Changes
  <2> QED
    BY <2>1, <2>2, <2>3
<1>4. HoldsOn(new, (underway \cup arrived) \ {d}, replaced)
  <2> SUFFICES ASSUME NEW e \in (underway \cup arrived) \ {d}, IsReply(e),
                      ReplyTo[e] \notin replaced, Held(records, e)
               PROVE  Held(new, e)
    BY DEF HoldsOn
  <2>1. /\ e # Nothing /\ ReplyTo[e] \in Tracked
        /\ EntryInv(ReplyTo[e], records[ReplyTo[e]], arrived)
    BY StoreFacts, RepliesToTracked
  <2>2. ~(ReplyTo[e] = ReplyTo[d] /\ records[ReplyTo[e]].reserved = d)
    BY HolderIsUnique DEF IsReply
  <2>3. ~(ReplyTo[e] = d /\ records[ReplyTo[e]].status = "pending")
    BY <2>1 DEF Held, EntryInv
  <2>4. new[ReplyTo[e]] = records[ReplyTo[e]]
    BY <1>1, <2>1, <2>2, <2>3
  <2> QED
    BY <2>4 DEF Held
<1> QED
  BY <1>2, <1>3, <1>4, ChangeKeeps DEF new

(* A binding or a send that fails aborts what it has prepared.             *)
LEMMA AbortSteps ==
    ASSUME RequestInv, NEW d \in Deliveries, BindFails(d) \/ SendFails(d)
    PROVE  StepKeeps
<1>1. /\ records' = Aborted(d) /\ filed' \in {filed, records'}
      /\ call' = [call EXCEPT ![d] = "failed"] /\ UNCHANGED <<arrived, replaced>>
      /\ underway' \subseteq underway /\ d \notin underway' \cup arrived'
  BY StoreFacts DEF BindFails, SendFails, Abort, Persist, Calls, CallInv
<1>2. HoldsOn(records', underway' \cup arrived', replaced')
  BY <1>1, AbortKeeps DEF HoldsOn
<1>3. call[d] # "none" /\ \A e \in Deliveries : e # d => call[e] # "prepared"
  BY StoreFacts DEF BindFails, SendFails, Free, CallInv
<1>4. CallInv'
  BY <1>1, <1>3, StoreFacts DEF CallInv
<1> QED
  BY <1>1, <1>2, <1>4, AbortKeeps, ChangedStep

(* commit, also by a repeated confirmation or a recovery.                   *)
LEMMA CommitStep ==
    ASSUME RequestInv, NEW d \in Deliveries, NEW ok \in BOOLEAN, d \in arrived,
           ~CommitThrows(d), Commit(d, ok), UNCHANGED <<underway, arrived, replaced>>, CallInv'
    PROVE  StepKeeps
<1>1. IsReply(d) => ReplyTo[d] \in arrived
  BY StoreFacts DEF CallInv
<1>2. Keeps(Committed(d), arrived) /\ HoldsOn(Committed(d), underway \cup arrived, replaced)
  BY <1>1, CommitKeeps
<1>3. CASE Recorded(d) \/ ~ok
  <2>1. records' = records /\ filed' = filed
    BY <1>3 DEF Commit, Committed, Persist
  <2> QED
    BY <2>1, QuietStep
<1>4. CASE ~Recorded(d) /\ ok
  <2>1. records' = Committed(d) /\ filed' = records'
    BY <1>4 DEF Commit, Persist
  <2>2. StoreKept
    BY <1>2, <2>1 DEF StoreKept
  <2>3. SentInv'
    BY <1>2, <2>1, SentStep DEF HoldsOn
  <2> QED
    BY <2>2, <2>3 DEF StepKeeps
<1> QED
  BY <1>3, <1>4

(* A request is found in its target's task: it is pending no longer, and     *)
(* what it answers itself is left as it was.                               *)
LEMMA OriginalStep ==
    ASSUME RequestInv, NEW d \in Deliveries, IsReply(d), ReplyTo[d] \in arrived,
           records' = OriginalDelivered(ReplyTo[d]), filed' = records' \/ filed' = filed,
           UNCHANGED <<underway, arrived, replaced>>, CallInv'
    PROVE  StepKeeps
<1> DEFINE q == ReplyTo[d]
           r == [records[q] EXCEPT !.status = IF @ = "pending" THEN "awaiting" ELSE @]
<1>1. /\ q \in Tracked /\ records[q] \in Entry /\ EntryInv(q, records[q], arrived)
      /\ q \in arrived
  BY StoreFacts, RepliesToTracked
<1>2. records' = [records EXCEPT ![q] = r]
  BY DEF OriginalDelivered
<1>3. /\ r \in Entry /\ r.reserved = records[q].reserved /\ r.answer = records[q].answer
      /\ r.due = records[q].due
      /\ r.status = IF records[q].status = "pending" THEN "awaiting" ELSE records[q].status
      /\ records[q].status # "pending" => r = records[q]
  BY <1>1 DEF Entry, Statuses
<1> HIDE DEF q, r
<1>4. Changes(q, r)
  BY <1>1, <1>3 DEF Changes, EntryInv
<1>5. Keeps(records', arrived) /\ NothingAnswered(records')
  BY <1>1, <1>2, <1>4, EntryChange
<1>6. \A p \in Tracked : records'[p] = IF p = q THEN r ELSE records[p]
  BY <1>2, StoreFacts
<1>7. HoldsOn(records', underway \cup arrived, replaced)
  <2> SUFFICES ASSUME NEW e \in underway \cup arrived, IsReply(e), ReplyTo[e] \notin replaced,
                      Held(records, e)
               PROVE  Held(records', e)
    BY DEF HoldsOn
  <2>1. ReplyTo[e] \in Tracked
    BY StoreFacts, RepliesToTracked
  <2> QED
    BY <1>3, <1>6, <2>1 DEF Held
<1> QED
  BY <1>5, <1>7, ChangedStep

(* A delivery that is confirmed, accepted or recovered is committed.       *)
LEMMA CommitSteps ==
    ASSUME RequestInv, NEW d \in Deliveries, ConfirmOriginal(d) \/ Accepted(d) \/ Recover(d)
    PROVE  StepKeeps
<1>0. \A e \in Deliveries : call[e] # "prepared"
  BY DEF ConfirmOriginal, Accepted, Recover, Free
<1>1. CASE ConfirmOriginal(d)
  <2>1. IsReply(d) /\ ReplyTo[d] \in arrived /\ ReplyTo[d] \in Deliveries /\ call[d] = "confirming"
    BY <1>1, StoreFacts DEF ConfirmOriginal, CallInv
  <2>2. UNCHANGED <<underway, arrived, replaced>>
    BY <1>1 DEF ConfirmOriginal
  <2>3. CallInv'
    BY <1>0, <1>1, <2>1, <2>2, StoreFacts DEF ConfirmOriginal, CallInv, Calls
  <2>4. CASE UNCHANGED <<records, filed>>
    BY <2>2, <2>3, <2>4, QuietStep
  <2>5. CASE records' = OriginalDelivered(ReplyTo[d]) /\ (filed' = records' \/ filed' = filed)
    BY <2>1, <2>2, <2>3, <2>5, OriginalStep
  <2> QED
    BY <1>1, <2>4, <2>5 DEF ConfirmOriginal, Persist
<1>2. CASE Accepted(d)
  <2>2. UNCHANGED <<underway, arrived, replaced>> /\ d \in arrived
    BY <1>2 DEF Accepted
  <2>3. CallInv'
    BY <1>0, <1>2, <2>2, StoreFacts DEF Accepted, CallInv, Calls
  <2>4. CASE UNCHANGED <<records, filed>>
    BY <2>2, <2>3, <2>4, QuietStep
  <2>5. CASE ~CommitThrows(d) /\ \E ok \in BOOLEAN : Commit(d, ok)
    BY <2>2, <2>3, <2>5, CommitStep
  <2> QED
    BY <1>2, <2>4, <2>5 DEF Accepted
<1>3. CASE Recover(d)
  <2>1. CallInv'
    BY <1>0, <1>3, StoreFacts DEF Recover, CallInv
  <2> QED
    BY <1>3, <2>1, CommitStep DEF Recover, Recoverable
<1> QED
  BY <1>1, <1>2, <1>3

(* One request changes between the sends.                                   *)
LEMMA OneEntryStep ==
    ASSUME RequestInv, NEW q \in Tracked, NEW r, Changes(q, r), Free,
           records' = [records EXCEPT ![q] = r], filed' \in {filed, records'},
           UNCHANGED <<call, underway, arrived>>, replaced \subseteq replaced',
           \/ q \in replaced' \/ r.status = "cancelled"
           \/ r.reserved = records[q].reserved /\ r.answer = records[q].answer
              /\ r.status = records[q].status
    PROVE  StepKeeps
<1>1. Keeps(records', arrived) /\ NothingAnswered(records')
  BY EntryChange
<1>2. \A p \in Tracked : records'[p] = IF p = q THEN r ELSE records[p]
  BY StoreFacts
<1>3. HoldsOn(records', underway' \cup arrived', replaced')
  <2> SUFFICES ASSUME NEW e \in underway \cup arrived, IsReply(e), ReplyTo[e] \notin replaced',
                      Held(records, e)
               PROVE  Held(records', e)
    BY DEF HoldsOn
  <2>1. ReplyTo[e] \in Tracked
    BY StoreFacts, RepliesToTracked
  <2> QED
    BY <1>2, <2>1 DEF Held
<1>4. CallInv'
  BY StoreFacts DEF CallInv, Free
<1> QED
  BY <1>1, <1>3, <1>4, ChangedStep

(* An open request becomes due, or is no longer.                            *)
LEMMA DueStep ==
    ASSUME RequestInv, NEW q \in Tracked, NEW due \in BOOLEAN, Free,
           records[q].status = "awaiting",
           records' = [records EXCEPT ![q].due = due], filed' \in {filed, records'},
           UNCHANGED <<call, underway, arrived, replaced>>
    PROVE  StepKeeps
<1> DEFINE r == [records[q] EXCEPT !.due = due]
<1>1. records[q] \in Entry /\ EntryInv(q, records[q], arrived)
  BY StoreFacts
<1>2. /\ r \in Entry /\ r.status = "awaiting" /\ r.due = due
      /\ r.reserved = records[q].reserved /\ r.answer = records[q].answer
      /\ r.status = records[q].status
  BY <1>1 DEF Entry
<1>3. records' = [records EXCEPT ![q] = r]
  OBVIOUS
<1> HIDE DEF r
<1>4. Changes(q, r)
  BY <1>1, <1>2 DEF Changes, EntryInv
<1> QED
  BY <1>2, <1>3, <1>4, OneEntryStep

(* The end of a turn and of a reminder.                                     *)
LEMMA ReminderSteps ==
    ASSUME RequestInv, NEW q \in Tracked, TurnEnds(q) \/ ReminderEnds(q) \/ CheckEnds(q)
    PROVE  StepKeeps
<1>0. Free /\ UNCHANGED <<call, underway, arrived, replaced>> /\ CallInv'
  BY StoreFacts DEF TurnEnds, ReminderEnds, CheckEnds, RecordResult, Free, CallInv
<1>1. CASE TurnEnds(q)
  BY <1>0, <1>1, DueStep DEF TurnEnds, Persist
<1>2. ASSUME NEW again \in BOOLEAN, RecordResult(q, again) PROVE StepKeeps
  <2>1. CASE Remindable(q)
    BY <1>0, <1>2, <2>1, DueStep DEF RecordResult, Remindable, Persist
  <2>2. CASE ~Remindable(q)
    BY <1>0, <1>2, <2>2, QuietStep DEF RecordResult
  <2> QED
    BY <2>1, <2>2
<1>3. CASE CheckEnds(q) /\ ~RecordResult(q, TRUE)
  <2> DEFINE waits == records[q].status = "awaiting" /\ records[q].reserved = reminding[q]
  <2>1. /\ records' = IF waits THEN [records EXCEPT ![q].due = FALSE] ELSE records
        /\ filed' = IF waits THEN records' ELSE filed
    BY <1>3 DEF CheckEnds
  <2>2. CASE waits
    BY <1>0, <2>1, <2>2, DueStep
  <2>3. CASE ~waits
    BY <1>0, <2>1, <2>3, QuietStep
  <2> QED
    BY <2>2, <2>3
<1> QED
  BY <1>1, <1>2, <1>3 DEF ReminderEnds

(* A request is cancelled, or passed to the task that replaces a party.     *)
LEMMA MaintenanceSteps ==
    ASSUME RequestInv, NEW q \in Tracked, Cancel(q) \/ Replace(q)
    PROVE  StepKeeps
<1> DEFINE gone == [Absent EXCEPT !.status = "cancelled"]
           moved(due) == [Released(records[q]) EXCEPT !.due = due]
<1>0. /\ Free /\ UNCHANGED <<call, underway, arrived>> /\ replaced \subseteq replaced'
      /\ filed' \in {filed, records'}
  BY DEF Cancel, Replace, Persist
<1>1. records[q] \in Entry /\ EntryInv(q, records[q], arrived)
  BY StoreFacts
<1>2. ASSUME records[q].status \in {"pending", "awaiting"},
             records' = [records EXCEPT ![q] = gone]
      PROVE  StepKeeps
  <2>1. /\ gone \in Entry /\ gone.status = "cancelled" /\ gone.reserved = Nothing
        /\ gone.answer = Nothing /\ gone.due = FALSE
    BY AbsentEntry DEF Absent, Entry, Statuses
  <2> HIDE DEF gone
  <2>2. Changes(q, gone)
    BY <1>2, <2>1 DEF Changes, EntryInv
  <2> QED
    BY <1>0, <1>2, <2>1, <2>2, OneEntryStep
<1>3. ASSUME records[q].status = "awaiting", NEW due \in BOOLEAN, q \in replaced',
             records' = [records EXCEPT ![q] = moved(due)]
      PROVE  StepKeeps
  <2>1. /\ moved(due) \in Entry /\ moved(due).status = "awaiting"
        /\ moved(due).reserved = Nothing /\ moved(due).answer = records[q].answer
    BY <1>1, <1>3 DEF Entry, Released
  <2> HIDE DEF moved
  <2>2. Changes(q, moved(due))
    BY <1>1, <1>3, <2>1 DEF Changes, EntryInv
  <2> QED
    BY <1>0, <1>3, <2>2, OneEntryStep
<1>4. CASE Cancel(q)
  BY <1>2, <1>4 DEF Cancel
<1>5. CASE Replace(q)
  <2>1. records[q].due \in BOOLEAN /\ q \in replaced'
    BY <1>1, <1>5 DEF Entry, Replace
  <2> QED
    BY <1>2, <1>3, <1>5, <2>1 DEF Replace
<1> QED
  BY <1>4, <1>5

(* The Manager starts again: the store is what the file holds.              *)
LEMMA ReloadStep ==
    ASSUME RequestInv, Reload
    PROVE  /\ StoreInv(records', arrived') /\ StoreInv(filed', arrived')
           /\ FiledInv' /\ CallInv' /\ SentInv'
           /\ \A q \in Tracked : records[q].status = "responded" => records'[q] = records[q]
<1>1. /\ records' = filed /\ filed' = filed /\ UNCHANGED <<underway, arrived, replaced>>
      /\ \A d \in Deliveries :
            call'[d] = IF call[d] \in {"confirming", "ready", "prepared", "sending"}
                       THEN "lost" ELSE call[d]
  BY DEF Reload
<1>2. StoreInv(records', arrived') /\ StoreInv(filed', arrived')
  BY <1>1 DEF RequestInv
<1>3. CallInv'
  BY <1>1, StoreFacts DEF CallInv
<1>4. SentInv'
  BY <1>1 DEF RequestInv, SentInv, Held
<1>5. FiledInv'
  BY <1>1 DEF FiledInv
<1>6. \A q \in Tracked : records[q].status = "responded" => records'[q] = records[q]
  BY <1>1 DEF RequestInv, FiledInv
<1> QED
  BY <1>2, <1>3, <1>4, <1>5, <1>6

(* The inductive step, and what is answered stays.                          *)
LEMMA RequestInvStep ==
    ASSUME RequestInv, [RequestsNext]_requestVars
    PROVE  /\ RequestInv'
           /\ \A q \in Tracked : records[q].status = "responded" => records'[q] = records[q]
<1>1. ASSUME StepKeeps
      PROVE  /\ RequestInv'
             /\ \A q \in Tracked : records[q].status = "responded" => records'[q] = records[q]
  <2>1. StoreInv(records', arrived') /\ StoreInv(filed', arrived') /\ FiledInv'
    BY <1>1, KeptStep DEF StepKeeps
  <2>2. RequestTypeOK'
    BY <2>1, RestTypeStep, RequestTypes DEF RequestInv, StoreInv
  <2> QED
    BY <1>1, <2>1, <2>2 DEF RequestInv, StepKeeps, StoreKept, Keeps
<1>2. CASE UNCHANGED requestVars
  <2>1. CallInv'
    BY <1>2, StoreFacts DEF requestVars, CallInv
  <2> QED
    BY <1>1, <1>2, <2>1, QuietStep DEF requestVars
<1>3. ASSUME NEW d \in Deliveries, SendSteps(d) \/ Arrive(d) \/ Vanish(d) \/ Recover(d)
      PROVE  StepKeeps
  BY <1>3, QuietSteps, PrepareStep, SendReservedStep, AbortSteps, CommitSteps DEF SendSteps
<1>4. ASSUME NEW q \in Tracked, ReminderFires(q) PROVE StepKeeps
  BY <1>4, QuietSteps, RequestsAssumption
<1>5. ASSUME NEW q \in Tracked,
             TurnEnds(q) \/ ReminderEnds(q) \/ CheckEnds(q) \/ Cancel(q) \/ Replace(q)
      PROVE  StepKeeps
  BY <1>5, ReminderSteps, MaintenanceSteps
<1>6. CASE Reload
  <2>1. RequestTypeOK'
    BY <1>6, ReloadStep, RestTypeStep, RequestTypes DEF RequestInv, StoreInv
  <2> QED
    BY <1>6, <2>1, ReloadStep DEF RequestInv
<1> QED
  BY <1>1, <1>2, <1>3, <1>4, <1>5, <1>6 DEF RequestsNext

(* The invariant of the agent requests.                                     *)
LEMMA RequestInvariant == RequestsSpec => []RequestInv
<1>1. RequestsInit => RequestInv
  <2> SUFFICES ASSUME RequestsInit PROVE RequestInv
    OBVIOUS
  <2>1. /\ Absent \in Entry /\ Absent.status = "absent" /\ Absent.reserved = Nothing
        /\ Absent.answer = Nothing /\ Absent.due = FALSE
    BY AbsentEntry DEF Absent
  <2>2. \A q \in Tracked : records[q] = Absent
    BY DEF RequestsInit
  <2>3. records \in [Tracked -> Entry] /\ filed = records
    BY <2>1 DEF RequestsInit
  <2>4. RequestTypeOK
    BY <2>3, RequestTypes DEF RequestsInit, RestTypeOK
  <2>5. StoreInv(records, arrived)
    BY <2>1, <2>2, <2>3, RequestsAssumption DEF StoreInv, EntryInv, AnswersTracked
  <2>6. FiledInv /\ CallInv /\ SentInv
    BY <2>3 DEF RequestsInit, FiledInv, CallInv, SentInv
  <2> QED
    BY <2>3, <2>4, <2>5, <2>6 DEF RequestInv
<1>2. RequestInv /\ [RequestsNext]_requestVars => RequestInv'
  BY RequestInvStep
<1> QED
  BY <1>1, <1>2, PTL DEF RequestsSpec

(* Type correctness of the store, the calls, the messages and the reminders. *)
THEOREM RequestTypeCorrect == RequestsSpec => []RequestTypeOK
<1>1. RequestInv => RequestTypeOK
  BY DEF RequestInv
<1> QED
  BY <1>1, RequestInvariant, PTL

(* What the store says happened, a follow-up is tracked, and a closed        *)
(* request is not due: through failed writes, recoveries and restarts.      *)
THEOREM StoreIsTrue == RequestsSpec => []RecordsAgree
<1>1. RequestInv => RecordsAgree
  <2> SUFFICES ASSUME RequestInv PROVE RecordsAgree
    OBVIOUS
  <2>1. \A q \in Tracked : EntryInv(q, records[q], arrived)
    BY StoreFacts
  <2>2. RecordsAreTrue /\ ClosedIsNotDue
    BY <2>1 DEF EntryInv, RecordsAreTrue, ClosedIsNotDue
  <2>3. FollowUpIsTracked
    BY DEF RequestInv, StoreInv, AnswersTracked, FollowUpIsTracked
  <2> QED
    BY <2>2, <2>3 DEF RecordsAgree
<1> QED
  BY <1>1, RequestInvariant, PTL

(* One reply of a request arrives, unless a party of it was replaced.       *)
THEOREM RequesterGetsOneReply == RequestsSpec => []OneReplyArrives
<1>1. RequestInv => OneReplyArrives
  BY DEF RequestInv, SentInv, OneReplyArrives
<1> QED
  BY <1>1, RequestInvariant, PTL

(* An answer is final: nothing opens the request or changes its answer, and *)
(* a restart reads it back, because it is in memory only once it is filed.  *)
THEOREM AnswerIsFinal == RequestsSpec => AnsweredIsFinal
<1>1. RequestInv /\ [RequestsNext]_requestVars =>
        [\A q \in Tracked : records[q].status = "responded" => records'[q] = records[q]]_requestVars
  BY RequestInvStep
<1> QED
  BY <1>1, RequestInvariant, PTL DEF RequestsSpec, AnsweredIsFinal

-----------------------------------------------------------------------------
(* The task of a key.                                                       *)

Working == {"creating"} \cup Stages
RecordStates == {"absent", "unreadable", "reserved", "creating", "completed",
                 "uncertain", "failed_before_create"} \cup Stages

(* The file is a record; what is written is one.                            *)
RecordInv ==
    /\ record \in [state : RecordStates, task : Creators \cup {NoTask}, stale : BOOLEAN]
    /\ ReservationTypeOK

(* One call is at work on the key.                                          *)
AloneInv == \A c, d \in Creators : AtWork(c) /\ AtWork(d) => c = d

(* While it creates, the file tells its stage.                              *)
StageInv == \A c \in Creators : creator[c] \in Working => record.state = creator[c]

(* While it asks whether the stale reservation has a task, nobody has        *)
(* written it anew.                                                        *)
AskInv == \A c \in Creators :
    creator[c] \in {"asking", "missing"} => record.state = "creating" /\ record.stale

(* A task belongs to a call that has got to creating it; unless its creator  *)
(* died without a trace of it, the file keeps further calls out.           *)
TaskInv ==
    /\ \A c \in Creators :
          creator[c] \in {"idle", "asking", "missing", "creating"} => known[c] = NoTask
    /\ \A c \in Creators : creator[c] \in Stages => c \in tasks
    /\ \A c \in tasks :
          /\ creator[c] \notin {"idle", "asking", "missing"}
          /\ \/ Abandoned(c) \/ creator[c] = "creating"
             \/ record.state \in Stages \cup {"completed", "uncertain"}

(* As long as no call is overtaken.                                         *)
TurnInv ==
    RecordInv /\ AloneInv /\ StageInv /\ AskInv /\ TaskInv /\ CreatesOnce /\ AnswerOnFile

(* Whatever is slow and whoever overlaps, the file stays a record.  A task   *)
(* is named by the call that created it.                                    *)
ShapeInv == RecordInv /\ \A c \in Creators : creator[c] \in Stages => c \in tasks

(* The inductive invariant.                                                *)
ReservationInv == ShapeInv /\ (overtaken \/ TurnInv)

(* A call that only looks, moves its own marks or hears of its task.        *)
LEMMA LooksStep ==
    ASSUME ~overtaken', TurnInv, NEW c \in Creators,
           \/ ReturnRecorded(c) \/ Blocked(c) \/ AskMissing(c) \/ ConfirmMissing(c)
    PROVE  TurnInv'
<1> USE ReservationAssumption
        DEF TurnInv, RecordInv, ReservationTypeOK, AloneInv, AtWork, StageInv, AskInv, TaskInv,
            CreatesOnce, AnswerOnFile, Abandoned, Working, Stages, RecordStates, Moves
<1>1. CASE ReturnRecorded(c)
  BY <1>1 DEF ReturnRecorded
<1>2. CASE Blocked(c)
  BY <1>2 DEF Blocked
<1>3. CASE AskMissing(c)
  BY <1>3 DEF AskMissing, StaleCreating
<1>4. CASE ConfirmMissing(c)
  BY <1>4 DEF ConfirmMissing
<1> QED
  BY <1>1, <1>2, <1>3, <1>4

(* A call that takes the key, or gives up on a stale reservation.           *)
LEMMA TakesStep ==
    ASSUME TurnInv, NEW c \in Creators,
           ReserveCreation(c) \/ ReserveAgain(c) \/ NotConfirmed(c)
    PROVE  TurnInv'
<1> USE ReservationAssumption DEF TurnInv, RecordInv, ReservationTypeOK, Stages, Moves
<1>1. CASE ReserveCreation(c)
  <2>0. /\ record' = Reservation("creating", NoTask)
        /\ "creating" \in RecordStates /\ NoTask \in Creators \cup {NoTask}
    BY <1>1 DEF ReserveCreation, Reservable, RecordStates
  <2>1. /\ record' = Reservation("creating", NoTask)
        /\ record'.state = "creating" /\ record'.task = NoTask /\ record'.stale = FALSE
        /\ record' \in [state : RecordStates, task : Creators \cup {NoTask}, stale : BOOLEAN]
    BY <2>0 DEF Reservation
  <2>2. RecordInv'
    BY <1>1, <2>1 DEF ReserveCreation, Reservable
  <2>3. AloneInv' /\ StageInv' /\ AskInv'
    BY <1>1, <2>1 DEF ReserveCreation, Reservable, AloneInv, AtWork, StageInv, AskInv, Working
  <2>4. TaskInv'
    BY <1>1, <2>1 DEF ReserveCreation, Reservable, AloneInv, AtWork, StageInv, AskInv, Working, TaskInv, Abandoned
  <2>5. CreatesOnce' /\ AnswerOnFile'
    BY <1>1, <2>1 DEF ReserveCreation, Reservable, AloneInv, AtWork, StageInv, AskInv, Working, TaskInv, Abandoned,
                      CreatesOnce, AnswerOnFile
  <2> QED
    BY <2>2, <2>3, <2>4, <2>5
<1>2. CASE ReserveAgain(c)
  <2>0. /\ record' = Reservation("creating", NoTask)
        /\ "creating" \in RecordStates /\ NoTask \in Creators \cup {NoTask}
    BY <1>2 DEF ReserveAgain, RecordStates
  <2>1. /\ record' = Reservation("creating", NoTask)
        /\ record'.state = "creating" /\ record'.task = NoTask /\ record'.stale = FALSE
        /\ record' \in [state : RecordStates, task : Creators \cup {NoTask}, stale : BOOLEAN]
    BY <2>0 DEF Reservation
  <2>2. RecordInv'
    BY <1>2, <2>1 DEF ReserveAgain
  <2>3. AloneInv' /\ StageInv' /\ AskInv'
    BY <1>2, <2>1 DEF ReserveAgain, AloneInv, AtWork, StageInv, AskInv, Working
  <2>4. TaskInv'
    BY <1>2, <2>1 DEF ReserveAgain, AloneInv, AtWork, StageInv, AskInv, Working, TaskInv, Abandoned
  <2>5. CreatesOnce' /\ AnswerOnFile'
    BY <1>2, <2>1 DEF ReserveAgain, AloneInv, AtWork, StageInv, AskInv, Working, TaskInv, Abandoned,
                      CreatesOnce, AnswerOnFile
  <2> QED
    BY <2>2, <2>3, <2>4, <2>5
<1>3. CASE NotConfirmed(c)
  <2>0. /\ record' = Reservation("uncertain", NoTask)
        /\ "uncertain" \in RecordStates /\ NoTask \in Creators \cup {NoTask}
    BY <1>3 DEF NotConfirmed, RecordStates
  <2>1. /\ record' = Reservation("uncertain", NoTask)
        /\ record'.state = "uncertain" /\ record'.task = NoTask /\ record'.stale = FALSE
        /\ record' \in [state : RecordStates, task : Creators \cup {NoTask}, stale : BOOLEAN]
    BY <2>0 DEF Reservation
  <2>2. RecordInv'
    BY <1>3, <2>1 DEF NotConfirmed
  <2>3. AloneInv' /\ StageInv' /\ AskInv'
    BY <1>3, <2>1 DEF NotConfirmed, AloneInv, AtWork, StageInv, AskInv, Working
  <2>4. TaskInv'
    BY <1>3, <2>1 DEF NotConfirmed, AloneInv, AtWork, StageInv, AskInv, Working, TaskInv, Abandoned
  <2>5. CreatesOnce' /\ AnswerOnFile'
    BY <1>3, <2>1 DEF NotConfirmed, AloneInv, AtWork, StageInv, AskInv, Working, TaskInv, Abandoned,
                      CreatesOnce, AnswerOnFile
  <2> QED
    BY <2>2, <2>3, <2>4, <2>5
<1> QED
  BY <1>1, <1>2, <1>3

(* create(): the task and its title come to exist.                          *)
LEMMA OutsideStep ==
    ASSUME TurnInv, NEW c \in Creators, TaskStarts(c) \/ NameSet(c)
    PROVE  TurnInv'
<1> USE ReservationAssumption
        DEF TurnInv, RecordInv, ReservationTypeOK, AloneInv, AtWork, StageInv, AskInv, TaskInv,
            CreatesOnce, AnswerOnFile, Abandoned, Working, Stages
<1>1. CASE TaskStarts(c)
  BY <1>1 DEF TaskStarts
<1>2. CASE NameSet(c)
  BY <1>2 DEF NameSet
<1> QED
  BY <1>1, <1>2

(* The next stage of a call.                                                *)
NextStage(s) == CASE s = "creating" -> "thread_created"
                  [] s = "thread_created" -> "naming"
                  [] s = "naming" -> "initial_turn"

(* create(): its stages, its end, its failure.                              *)
LEMMA CreateStep ==
    ASSUME TurnInv, NEW c \in Creators,
           Stage(c) \/ Complete(c) \/ CreateThrows(c)
    PROVE  TurnInv'
<1> USE ReservationAssumption DEF TurnInv, RecordInv, ReservationTypeOK, Stages, Moves
<1>1. CASE Stage(c)
  <2>0. /\ record' = Reservation(NextStage(creator[c]), c)
        /\ NextStage(creator[c]) \in RecordStates /\ c \in Creators \cup {NoTask}
    BY <1>1 DEF Stage, NextStage, RecordStates
  <2>1. /\ record' = Reservation(NextStage(creator[c]), c)
        /\ record'.state = NextStage(creator[c]) /\ record'.task = c /\ record'.stale = FALSE
        /\ record' \in [state : RecordStates, task : Creators \cup {NoTask}, stale : BOOLEAN]
    BY <2>0 DEF Reservation
  <2>2. RecordInv'
    BY <1>1, <2>1 DEF Stage, NextStage
  <2>3. AloneInv' /\ StageInv' /\ AskInv'
    BY <1>1, <2>1 DEF Stage, NextStage, AloneInv, AtWork, StageInv, AskInv, Working
  <2>4. TaskInv'
    BY <1>1, <2>1 DEF Stage, NextStage, AloneInv, AtWork, StageInv, AskInv, Working, TaskInv, Abandoned
  <2>5. CreatesOnce' /\ AnswerOnFile'
    BY <1>1, <2>1 DEF Stage, NextStage, AloneInv, AtWork, StageInv, AskInv, Working, TaskInv, Abandoned,
                      CreatesOnce, AnswerOnFile
  <2> QED
    BY <2>2, <2>3, <2>4, <2>5
<1>2. CASE Complete(c)
  <2>0. /\ record' = Reservation("completed", c)
        /\ "completed" \in RecordStates /\ c \in Creators \cup {NoTask}
    BY <1>2 DEF Complete, RecordStates
  <2>1. /\ record' = Reservation("completed", c)
        /\ record'.state = "completed" /\ record'.task = c /\ record'.stale = FALSE
        /\ record' \in [state : RecordStates, task : Creators \cup {NoTask}, stale : BOOLEAN]
    BY <2>0 DEF Reservation
  <2>2. RecordInv'
    BY <1>2, <2>1 DEF Complete
  <2>3. AloneInv' /\ StageInv' /\ AskInv'
    BY <1>2, <2>1 DEF Complete, AloneInv, AtWork, StageInv, AskInv, Working
  <2>4. TaskInv'
    BY <1>2, <2>1 DEF Complete, AloneInv, AtWork, StageInv, AskInv, Working, TaskInv, Abandoned
  <2>5. CreatesOnce' /\ AnswerOnFile'
    BY <1>2, <2>1 DEF Complete, AloneInv, AtWork, StageInv, AskInv, Working, TaskInv, Abandoned,
                      CreatesOnce, AnswerOnFile
  <2> QED
    BY <2>2, <2>3, <2>4, <2>5
<1>3. CASE CreateThrows(c)
  <2>0. /\ record' = Reservation("uncertain", known[c])
        /\ "uncertain" \in RecordStates /\ known[c] \in Creators \cup {NoTask}
    BY <1>3 DEF CreateThrows, AfterError, RecordStates
  <2>1. /\ record' = Reservation("uncertain", known[c])
        /\ record'.state = "uncertain" /\ record'.task = known[c] /\ record'.stale = FALSE
        /\ record' \in [state : RecordStates, task : Creators \cup {NoTask}, stale : BOOLEAN]
    BY <2>0 DEF Reservation
  <2>2. RecordInv'
    BY <1>3, <2>1 DEF CreateThrows, AfterError
  <2>3. AloneInv' /\ StageInv' /\ AskInv'
    BY <1>3, <2>1 DEF CreateThrows, AfterError, AloneInv, AtWork, StageInv, AskInv, Working
  <2>4. TaskInv'
    BY <1>3, <2>1 DEF CreateThrows, AfterError, AloneInv, AtWork, StageInv, AskInv, Working, TaskInv, Abandoned
  <2>5. CreatesOnce' /\ AnswerOnFile'
    BY <1>3, <2>1 DEF CreateThrows, AfterError, AloneInv, AtWork, StageInv, AskInv, Working, TaskInv, Abandoned,
                      CreatesOnce, AnswerOnFile
  <2> QED
    BY <2>2, <2>3, <2>4, <2>5
<1> QED
  BY <1>1, <1>2, <1>3

(* The Manager dies: the calls under way are gone, what they wrote is not.  *)
LEMMA CrashStep ==
    ASSUME TurnInv, ManagerDies \/ CrashReserving \/ CrashReservingAgain
    PROVE  TurnInv'
<1>0. \A s \in {"reserved", "unreadable", "failed_before_create"} : s \in RecordStates
  BY DEF RecordStates
<1> USE ReservationAssumption DEF TurnInv, RecordInv, ReservationTypeOK, Stages
<1>1. CASE ManagerDies
  BY <1>1 DEF ManagerDies, CrashWith, AloneInv, AtWork, StageInv, AskInv, TaskInv, CreatesOnce, AnswerOnFile,
              Abandoned, Working
<1>2. ASSUME NEW s \in {"reserved", "unreadable", "failed_before_create"},
             CrashWith(Reservation(s, NoTask)),
             \/ Reservable
             \/ \E c \in Creators : creator[c] = "missing"
      PROVE  TurnInv'
  <2>1. /\ record' = Reservation(s, NoTask)
        /\ record'.state = s /\ record'.task = NoTask /\ record'.stale = FALSE
        /\ record' \in [state : RecordStates, task : Creators \cup {NoTask}, stale : BOOLEAN]
    BY <1>0, <1>2 DEF CrashWith, Reservation
  <2>0. /\ \A c \in Creators : creator[c] \notin Working
        /\ \A c \in Creators : returned[c] = NoTask
        /\ \A c \in tasks : Abandoned(c)
    BY <1>2 DEF Reservable, AloneInv, AtWork, StageInv, AskInv, TaskInv, AnswerOnFile, Working
  <2>2. RecordInv'
    BY <1>2, <2>1 DEF CrashWith
  <2>3. AloneInv' /\ StageInv' /\ AskInv'
    BY <1>2, <2>1 DEF CrashWith, AloneInv, AtWork, StageInv, AskInv, Working
  <2>4. TaskInv'
    BY <1>2, <2>0, <2>1 DEF CrashWith, TaskInv, Abandoned, Working
  <2>5. CreatesOnce' /\ AnswerOnFile'
    BY <1>2, <2>0, <2>1 DEF CrashWith, TaskInv, Abandoned, CreatesOnce, AnswerOnFile
  <2> QED
    BY <2>2, <2>3, <2>4, <2>5
<1>3. CASE CrashReserving
  BY <1>2, <1>3 DEF CrashReserving
<1>4. CASE CrashReservingAgain
  BY <1>2, <1>4 DEF CrashReservingAgain
<1> QED
  BY <1>1, <1>3, <1>4

(* Time makes a reservation stale when no call works on it.                 *)
LEMMA StaleStep == ASSUME TurnInv, GrowStale PROVE TurnInv'
<1> USE ReservationAssumption DEF TurnInv, RecordInv, ReservationTypeOK, Stages, GrowStale
<1>1. /\ record'.state = record.state /\ record'.task = record.task /\ record'.stale = TRUE
      /\ record' \in [state : RecordStates, task : Creators \cup {NoTask}, stale : BOOLEAN]
  OBVIOUS
<1>2. RecordInv'
  BY <1>1
<1>3. AloneInv' /\ StageInv' /\ AskInv'
  BY <1>1 DEF AloneInv, AtWork, StageInv, AskInv, Working
<1>4. TaskInv' /\ CreatesOnce' /\ AnswerOnFile'
  BY <1>1 DEF TaskInv, CreatesOnce, AnswerOnFile, Abandoned
<1> QED
  BY <1>2, <1>3, <1>4

(* The inductive step.  Who is overtaken stays so, and until then each step  *)
(* keeps one call at work.                                                 *)
LEMMA TurnStep ==
    ASSUME TurnInv, ReservationNext, ~overtaken'
    PROVE  TurnInv'
<1>1. ASSUME NEW c \in Creators, CreatorStep(c) PROVE TurnInv'
  BY <1>1, LooksStep, TakesStep, CreateStep DEF CreatorStep
<1>2. ASSUME NEW c \in Creators, TaskStarts(c) \/ NameSet(c) PROVE TurnInv'
  BY <1>2, OutsideStep
<1> QED
  BY <1>1, <1>2, CrashStep, StaleStep DEF ReservationNext

(* Nothing takes back that a call was overtaken.                            *)
LEMMA OvertakenStays == ASSUME overtaken, [ReservationNext]_reservationVars PROVE overtaken'
<1>1. ASSUME NEW c \in Creators, CreatorStep(c) \/ TaskStarts(c) \/ NameSet(c) PROVE overtaken'
  BY <1>1 DEF CreatorStep, ReserveCreation, ReturnRecorded, Blocked, AskMissing, ConfirmMissing,
     ReserveAgain, NotConfirmed, Stage, Complete, CreateThrows, TaskStarts, NameSet
<1>2. CASE ManagerDies \/ CrashReserving \/ CrashReservingAgain \/ GrowStale
  BY <1>2 DEF ManagerDies, CrashReserving, CrashReservingAgain, CrashWith, GrowStale
<1> QED
  BY <1>1, <1>2 DEF ReservationNext, reservationVars

(* Every step keeps the shapes.                                            *)
LEMMA ShapeStep == ShapeInv /\ [ReservationNext]_reservationVars => ShapeInv'
<1> SUFFICES ASSUME ShapeInv, [ReservationNext]_reservationVars PROVE ShapeInv'
  OBVIOUS
<1> DEFINE Records == [state : RecordStates, task : Creators \cup {NoTask}, stale : BOOLEAN]
<1>0. ASSUME NEW s \in RecordStates, NEW t \in Creators \cup {NoTask}
      PROVE  Reservation(s, t) \in Records
  BY <1>0 DEF Reservation
<1> USE ReservationAssumption DEF ShapeInv, RecordInv, ReservationTypeOK, Stages, Moves
<1>1. CASE UNCHANGED reservationVars
  BY <1>1 DEF reservationVars
<1>2. ASSUME NEW c \in Creators, ReturnRecorded(c) \/ Blocked(c) \/ AskMissing(c) \/ ConfirmMissing(c)
      PROVE  ShapeInv'
  BY <1>2 DEF ReturnRecorded, Blocked, AskMissing, ConfirmMissing
<1>3. ASSUME NEW c \in Creators, ReserveCreation(c) \/ ReserveAgain(c) \/ NotConfirmed(c) PROVE ShapeInv'
  <2>1. record' \in Records
    BY <1>0, <1>3 DEF ReserveCreation, ReserveAgain, NotConfirmed, RecordStates
  <2> QED
    BY <1>3, <2>1 DEF ReserveCreation, ReserveAgain, NotConfirmed, RecordStates
<1>4. ASSUME NEW c \in Creators, Stage(c) PROVE ShapeInv'
  <2>1. PICK s \in Stages : record' = Reservation(s, c) /\ creator' = [creator EXCEPT ![c] = s]
    BY <1>4 DEF Stage
  <2>2. record' \in Records /\ c \in tasks
    BY <1>0, <1>4, <2>1 DEF Stage, RecordStates
  <2> QED
    BY <1>4, <2>1, <2>2 DEF Stage, RecordStates
<1>5. ASSUME NEW c \in Creators, Complete(c) \/ CreateThrows(c) PROVE ShapeInv'
  <2>1. record' \in Records
    BY <1>0, <1>5 DEF Complete, CreateThrows, AfterError, RecordStates
  <2> QED
    BY <1>5, <2>1 DEF Complete, CreateThrows, RecordStates
<1>6. ASSUME NEW c \in Creators, TaskStarts(c) \/ NameSet(c) PROVE ShapeInv'
  BY <1>6 DEF TaskStarts, NameSet
<1>7. CASE ManagerDies \/ CrashReserving \/ CrashReservingAgain
  <2>1. PICK r \in Records : CrashWith(r)
    BY <1>0, <1>7 DEF ManagerDies, CrashReserving, CrashReservingAgain, RecordStates
  <2> QED
    BY <2>1 DEF CrashWith, RecordStates
<1>8. CASE GrowStale
  BY <1>8 DEF GrowStale, RecordStates
<1> QED
  BY <1>1, <1>2, <1>3, <1>4, <1>5, <1>6, <1>7, <1>8 DEF ReservationNext, CreatorStep

(* The invariant of the reservation.                                        *)
LEMMA ReservationInvariant == ReservationSpec => []ReservationInv
<1>0. /\ Reservation("absent", NoTask) \in [state : RecordStates, task : Creators \cup {NoTask},
                                            stale : BOOLEAN]
      /\ Reservation("absent", NoTask).state = "absent"
      /\ Reservation("absent", NoTask).task = NoTask
      /\ Reservation("absent", NoTask).stale = FALSE
  <2>1. "absent" \in RecordStates /\ NoTask \in Creators \cup {NoTask}
    BY DEF RecordStates
  <2> QED
    BY <2>1 DEF Reservation
<1>1. ReservationInit => ReservationInv
  BY <1>0, ReservationAssumption
     DEF ReservationInit, ReservationInv, ShapeInv, TurnInv, RecordInv, ReservationTypeOK,
         AloneInv, AtWork, StageInv, AskInv, TaskInv, CreatesOnce, AnswerOnFile, Abandoned,
         Working, Stages
<1>2. ASSUME ReservationInv, [ReservationNext]_reservationVars PROVE ReservationInv'
  <2>1. ShapeInv'
    BY <1>2, ShapeStep DEF ReservationInv
  <2>2. CASE overtaken
    BY <1>2, <2>1, <2>2, OvertakenStays DEF ReservationInv
  <2>3. CASE TurnInv /\ ReservationNext
    BY <2>1, <2>3, TurnStep DEF ReservationInv
  <2>4. CASE TurnInv /\ UNCHANGED reservationVars
    BY <2>1, <2>4 DEF reservationVars, ReservationInv, TurnInv, RecordInv, ReservationTypeOK,
       AloneInv, AtWork, StageInv, AskInv, TaskInv, CreatesOnce, AnswerOnFile, Abandoned
  <2> QED
    BY <1>2, <2>2, <2>3, <2>4 DEF ReservationInv
<1> QED
  BY <1>1, <1>2, PTL DEF ReservationSpec

(* Type correctness of the reservation file, the calls and the tasks, also   *)
(* when creations are slow and calls overlap.                               *)
THEOREM ReservationTypeCorrect == ReservationSpec => []ReservationTypeOK
<1>1. ReservationInv => ReservationTypeOK
  BY DEF ReservationInv, ShapeInv, RecordInv
<1> QED
  BY <1>1, ReservationInvariant, PTL

(* All calls of a key agree on one task, through the errors, the crashes      *)
(* between any two writes, the creations that take long and the retries, as *)
(* long as no call finds the reservation stale while another still works on *)
(* the key: that, or a Manager that dies before it hears of its task, is the *)
(* only way to a second one.                                               *)
THEOREM KeyHasOneTask == ReservationSpec => []OneTaskInTurn
<1>1. ReservationInv => OneTaskInTurn
  BY DEF ReservationInv, TurnInv, OneTask, OneTaskInTurn
<1> QED
  BY <1>1, ReservationInvariant, PTL

=============================================================================
