---------------------------- MODULE ManagerProofs ----------------------------
(***************************************************************************)
(* Theorems about two parts of the Manager process that share no state.    *)
(*                                                                         *)
(* StorageMutationPool, for any requests, any number of child processes    *)
(* and any queue length: there is one writer at most; a pool that reports  *)
(* itself stopped owns nothing; an accepted request is never lost; nothing *)
(* is written for a caller that has its answer; and a pool that owes        *)
(* somebody an answer has a step to take.                                  *)
(*                                                                         *)
(* PluginGeneration, for any plugins and profiles: an active plugin has    *)
(* its effects; a failure takes with it only those that need what it       *)
(* provides; and, where contributions and requirements stay with their     *)
(* plugins, nothing is left behind and all that is required is served.     *)
(*                                                                         *)
(* Last, that both keep all of this side by side (MCManager).              *)
(***************************************************************************)
EXTENDS MCManager, TLAPS

(* Types of the part of the state that decides who may write.              *)
OwnerTypeOK ==
    /\ slot \in Children \cup {None}
    /\ child \in [Children -> {"unborn", "up", "closed"}]
    /\ flight \in [Children -> {"none", "term", "kill", "failed"}]
    /\ accepting \in BOOLEAN /\ stopWait \in BOOLEAN
    /\ active # None =>
          active = [req |-> active.req, child |-> active.child, term |-> active.term]

(* The child slot is the one child that runs; the active request and a      *)
(* blocked termination belong to it.                                       *)
SlotInv ==
    /\ OneWriter
    /\ slot # None => Up(slot)
    /\ active # None => slot # None /\ active.child = slot
    /\ blocked # None => blocked = slot

(* What a pool that no longer accepts requests has given up already.       *)
StopInv ==
    /\ ~accepting => queue = <<>>
    /\ stopWait => ~accepting
    /\ state = "stopped" => slot = None /\ ~accepting

(* The inductive invariant.                                                *)
PoolInv == OwnerTypeOK /\ SlotInv /\ StopInv

(* None is not a child process.                                            *)
LEMMA NoneIsNoChild == None \notin Children
BY PoolAssumption

(* Handing the head of a queue to a child keeps the pool to one writer: a   *)
(* child is forked only when there is none.                                *)
LEMMA StartKeepsSlot ==
    ASSUME PoolInv, NEW q, NEW o, active = None, blocked = None, accepting, state # "stopped",
           StartHead(q, o), UNCHANGED <<blocked, accepting, stopWait>>
    PROVE  PoolInv'
<1>1. PICK c \in Children :
        /\ StartOn(c)
        /\ child' = [child EXCEPT ![c] = "up"]
        /\ slot' = c
        /\ active' = [req |-> Head(q), child |-> c, term |-> "no"]
        /\ state' = "running"
        /\ flight' = flight
  BY DEF StartHead
<1>2. OwnerTypeOK'
  BY <1>1 DEF PoolInv, OwnerTypeOK
<1>3. SlotInv'
  <2>1. \A d \in Children : Up(d) => d = c
    BY <1>1, NoneIsNoChild DEF PoolInv, SlotInv, OneWriter, StartOn, Fresh
  <2>2. child'[c] = "up" /\ \A d \in Children : d # c => child'[d] = child[d]
    BY <1>1 DEF PoolInv, OwnerTypeOK
  <2>3. OneWriter'
    BY <1>1, <2>1, <2>2 DEF OneWriter, Up
  <2>4. (slot # None => Up(slot))'
    BY <1>1, <2>2 DEF Up
  <2>5. (active # None => slot # None /\ active.child = slot)'
    BY <1>1, NoneIsNoChild
  <2>6. QED
    BY <2>3, <2>4, <2>5 DEF SlotInv
<1>4. StopInv'
  BY <1>1 DEF PoolInv, StopInv
<1>5. QED
  BY <1>2, <1>3, <1>4 DEF PoolInv

(* A child that cannot be started changes nothing about who writes.        *)
LEMMA StartFailsKeepsSlot ==
    ASSUME PoolInv, NEW q, NEW o, active = None, blocked = None, accepting, state # "stopped",
           StartFails(q, o), UNCHANGED <<blocked, accepting, stopWait>>
    PROVE  PoolInv'
BY DEF StartFails, PoolInv, OwnerTypeOK, SlotInv, StopInv, OneWriter, Up

(* An API call keeps the pool to one writer.                               *)
LEMMA CallKeepsSlot ==
    ASSUME PoolInv, NEW r \in Reqs, ReqStep(r)
    PROVE  PoolInv'
<1> USE DEF PoolInv, OwnerTypeOK, SlotInv, StopInv, OneWriter, Up
<1>1. CASE ExecuteRefused(r)
  BY <1>1 DEF ExecuteRefused, childVars
<1>2. CASE ExecuteAccepted(r)
  <2>1. accepting /\ blocked = None /\ state # "stopped"
    BY <1>2 DEF ExecuteAccepted, Stopped
  <2>2. UNCHANGED <<blocked, accepting, stopWait>>
    BY <1>2 DEF ExecuteAccepted
  <2>3. CASE active # None
    BY <1>2, <2>1, <2>3 DEF ExecuteAccepted
  <2>4. CASE active = None
    <3>1. PICK q, o : StartHead(q, o) \/ StartFails(q, o)
      BY <1>2, <2>4 DEF ExecuteAccepted
    <3>2. QED
      BY <2>1, <2>2, <2>4, <3>1, StartKeepsSlot, StartFailsKeepsSlot
  <2>5. QED
    BY <2>3, <2>4
<1>3. CASE AbortQueued(r)
  <2>1. queue # <<>>
    BY <1>3 DEF AbortQueued, Contains
  <2>2. QED
    BY <1>3, <2>1 DEF AbortQueued, childVars
<1>4. QED
  BY <1>1, <1>2, <1>3 DEF ReqStep

(* The drain() microtask keeps the pool to one writer.                     *)
LEMMA DrainKeepsSlot ==
    ASSUME PoolInv, Drain
    PROVE  PoolInv'
<1>1. UNCHANGED <<blocked, accepting, stopWait>>
  BY DEF Drain
<1>2. CASE Stopped \/ active # None \/ blocked # None
  BY <1>2 DEF Drain, PoolInv, OwnerTypeOK, SlotInv, StopInv, OneWriter, Up
<1>3. CASE ~(Stopped \/ active # None \/ blocked # None)
  <2>1. CASE queue = <<>>
    BY <1>3, <2>1 DEF Drain, PoolInv, OwnerTypeOK, SlotInv, StopInv, OneWriter, Up
  <2>2. CASE queue # <<>>
    <3>1. StartHead(queue, out) \/ StartFails(queue, out)
      BY <1>3, <2>2 DEF Drain
    <3>2. active = None /\ blocked = None /\ accepting /\ state # "stopped"
      BY <1>3 DEF Stopped
    <3>3. QED
      BY <1>1, <3>1, <3>2, StartKeepsSlot, StartFailsKeepsSlot
  <2>3. QED
    BY <2>1, <2>2
<1>4. QED
  BY <1>2, <1>3

(* Deadlines, aborts and failures of the active request keep the pool to    *)
(* one writer: its child stays the slot until it closes.                   *)
LEMMA TerminateKeepsSlot ==
    ASSUME PoolInv, NEW why, TerminateActive(why)
    PROVE  PoolInv'
<1> USE DEF PoolInv, OwnerTypeOK, SlotInv, StopInv, OneWriter, Up
<1>1. CASE flight[active.child] = "failed"
  BY <1>1 DEF TerminateActive
<1>2. CASE flight[active.child] # "failed"
  <2>1. active' = [req |-> active.req, child |-> active.child, term |-> why]
    BY <1>2 DEF TerminateActive
  <2>2. QED
    BY <1>2, <2>1 DEF TerminateActive
<1>3. QED
  BY <1>1, <1>2

(* Events and timers of a child keep the pool to one writer.               *)
LEMMA ChildKeepsSlot ==
    ASSUME PoolInv, NEW c \in Children, ChildEvent(c) \/ Timer(c) \/ IdleChildError(c)
    PROVE  PoolInv'
<1> USE NoneIsNoChild DEF PoolInv, OwnerTypeOK, SlotInv, StopInv, OneWriter, Up
<1>1. CASE Commit(c)
  BY <1>1 DEF Commit
<1>2. ASSUME NEW ok, Message(c, ok) PROVE PoolInv'
  <2>1. slot = c /\ state # "stopped"
    BY <1>2 DEF Message
  <2>2. CASE Listening(c)
    BY <1>2, <2>1, <2>2 DEF Message, Settle
  <2>3. CASE ~Listening(c)
    BY <1>2, <2>3 DEF Message
  <2>4. QED
    BY <2>2, <2>3
<1>3. CASE Close(c)
  <2>1. slot = c /\ slot' = None
    BY <1>3 DEF Close
  <2>2. active' = None /\ blocked' = None
    BY <1>3, <2>1 DEF Close
  <2>3. \A d \in Children : child'[d] # "up"
    BY <1>3, <2>1 DEF Close
  <2>4. QED
    BY <1>3, <2>1, <2>2, <2>3 DEF Close
<1>4. CASE TermTimeout(c)
  BY <1>4 DEF TermTimeout
<1>5. CASE KillTimeout(c)
  <2>1. slot = c /\ state' # "stopped"
    BY <1>5 DEF KillTimeout, Block
  <2>2. active' = None \/ active' = active
    BY <1>5 DEF KillTimeout, Block
  <2>3. QED
    BY <1>5, <2>1, <2>2 DEF KillTimeout, Block
<1>6. CASE IdleChildError(c)
  BY <1>6 DEF IdleChildError
<1>7. QED
  BY <1>1, <1>2, <1>3, <1>4, <1>5, <1>6 DEF ChildEvent, Timer

(* stop() keeps the pool to one writer and only reports "stopped" when no   *)
(* child is left.                                                          *)
LEMMA StopKeepsSlot ==
    ASSUME PoolInv, Stop
    PROVE  PoolInv'
<1> USE NoneIsNoChild DEF PoolInv, OwnerTypeOK, SlotInv, StopInv, OneWriter, Up
<1>1. CASE slot = None
  BY <1>1 DEF Stop, StopOutcome
<1>2. CASE slot # None /\ flight[slot] = "failed"
  BY <1>2 DEF Stop, StopOutcome
<1>3. CASE slot # None /\ flight[slot] # "failed"
  <2>1. active # None =>
          active' = [req |-> active.req, child |-> active.child,
                     term |-> IF active.term = "no" THEN "stop" ELSE active.term]
    BY <1>3 DEF Stop, StopOutcome
  <2>2. active = None => active' = None
    BY <1>3 DEF Stop, StopOutcome
  <2>3. QED
    BY <1>3, <2>1, <2>2 DEF Stop, StopOutcome
<1>4. QED
  BY <1>1, <1>2, <1>3

(* The inductive invariant holds in every behaviour of the pool.           *)
LEMMA PoolInvariant == PoolSpec => []PoolInv
<1>1. PoolInit => PoolInv
  BY NoneIsNoChild DEF PoolInit, PoolInv, OwnerTypeOK, SlotInv, StopInv, OneWriter, Up
<1>2. PoolInv /\ [PoolNext]_vars => PoolInv'
  <2> SUFFICES ASSUME PoolInv, [PoolNext]_vars PROVE PoolInv'
    OBVIOUS
  <2>1. CASE UNCHANGED vars
    BY <2>1 DEF vars, PoolInv, OwnerTypeOK, SlotInv, StopInv, OneWriter, Up
  <2>2. CASE PoolNext
    BY <2>2, CallKeepsSlot, DrainKeepsSlot, StopKeepsSlot, TerminateKeepsSlot,
       ChildKeepsSlot DEF PoolNext
  <2>3. QED
    BY <2>1, <2>2
<1>3. QED
  BY <1>1, <1>2, PTL DEF PoolSpec

(* ManagerStorageMutationPool never has two children that could write: a    *)
(* child that was killed but has not closed still fences its successor.    *)
THEOREM PoolHasOneWriter == PoolSpec => []OneWriter
<1>1. PoolInv => OneWriter
  BY DEF PoolInv, SlotInv
<1>2. QED
  BY <1>1, PoolInvariant, PTL

(* A pool whose status is "stopped" has no child, no request and nothing    *)
(* queued, also when an earlier stop() failed.                             *)
THEOREM PoolStopIsTrue == PoolSpec => []StoppedOwnsNothing
<1>1. PoolInv => StoppedOwnsNothing
  BY NoneIsNoChild DEF PoolInv, SlotInv, StopInv, OneWriter, StoppedOwnsNothing
<1>2. QED
  BY <1>1, PoolInvariant, PTL
-----------------------------------------------------------------------------
(* The queue and the requests in it, as a set.                             *)

(* No request is queued twice. *)
Distinct(q) == \A i, j \in 1 .. Len(q) : q[i] = q[j] => i = j

(* execute() appends a request to the queue. *)
LEMMA AppendedQueue ==
    ASSUME NEW q \in Seq(Reqs), NEW r \in Reqs, Distinct(q), ~Contains(q, r)
    PROVE  /\ Append(q, r) \in Seq(Reqs)
           /\ Append(q, r) # <<>>
           /\ Distinct(Append(q, r))
           /\ \A x : Contains(Append(q, r), x) <=> Contains(q, x) \/ x = r
<1> DEFINE s == Append(q, r)
<1>1. /\ s \in Seq(Reqs) /\ s # <<>> /\ Len(s) = Len(q) + 1
      /\ \A i \in 1 .. Len(q) : s[i] = q[i]
      /\ s[Len(q) + 1] = r /\ Len(q) \in Nat
  OBVIOUS
<1> HIDE DEF s
<1>2. Distinct(s)
  BY <1>1 DEF Distinct, Contains
<1>3. ASSUME NEW x PROVE Contains(s, x) <=> Contains(q, x) \/ x = r
  BY <1>1 DEF Contains
<1> QED
  BY <1>1, <1>2, <1>3 DEF s

(* drain() shifts the head of the queue. *)
LEMMA ShiftedQueue ==
    ASSUME NEW q \in Seq(Reqs), q # <<>>, Distinct(q)
    PROVE  /\ Head(q) \in Reqs /\ Contains(q, Head(q))
           /\ Tail(q) \in Seq(Reqs)
           /\ Distinct(Tail(q))
           /\ \A x : Contains(Tail(q), x) <=> Contains(q, x) /\ x # Head(q)
<1> DEFINE s == Tail(q)
           h == Head(q)
<1>1. /\ s \in Seq(Reqs) /\ Len(q) \in Nat \ {0} /\ Len(s) = Len(q) - 1
      /\ \A i \in 1 .. Len(s) : s[i] = q[i + 1]
      /\ h = q[1] /\ h \in Reqs
  OBVIOUS
<1> HIDE DEF s, h
<1>2. Distinct(s)
  <2> SUFFICES ASSUME NEW i \in 1 .. Len(s), NEW j \in 1 .. Len(s), s[i] = s[j] PROVE i = j
    BY DEF Distinct
  <2>1. q[i + 1] = q[j + 1] /\ i + 1 \in 1 .. Len(q) /\ j + 1 \in 1 .. Len(q)
    BY <1>1
  <2> QED
    BY <2>1 DEF Distinct
<1>3. ASSUME NEW x PROVE Contains(s, x) <=> Contains(q, x) /\ x # h
  <2>1. ASSUME Contains(s, x) PROVE Contains(q, x) /\ x # h
    <3>1. PICK i \in 1 .. Len(s) : s[i] = x
      BY <2>1 DEF Contains
    <3>2. i + 1 \in 1 .. Len(q) /\ q[i + 1] = x /\ i + 1 # 1 /\ 1 \in 1 .. Len(q)
      BY <1>1, <3>1
    <3> QED
      BY <1>1, <3>2 DEF Contains, Distinct
  <2>2. ASSUME Contains(q, x), x # h PROVE Contains(s, x)
    <3>1. PICK i \in 1 .. Len(q) : q[i] = x
      BY <2>2 DEF Contains
    <3>2. i - 1 \in 1 .. Len(s) /\ s[i - 1] = x
      BY <1>1, <2>2, <3>1
    <3> QED
      BY <3>2 DEF Contains
  <2> QED
    BY <2>1, <2>2
<1>4. Contains(q, h)
  BY <1>1 DEF Contains
<1> QED
  BY <1>1, <1>2, <1>3, <1>4 DEF s, h

(* The abort listener splices a request out of the queue. *)
LEMMA SplicedQueue ==
    ASSUME NEW q \in Seq(Reqs), NEW n \in 1 .. Len(q), Distinct(q)
    PROVE  /\ RemoveAt(q, n) \in Seq(Reqs)
           /\ Distinct(RemoveAt(q, n))
           /\ \A x : Contains(RemoveAt(q, n), x) <=> Contains(q, x) /\ x # q[n]
<1> DEFINE s == RemoveAt(q, n)
           a == SubSeq(q, 1, n - 1)
           b == SubSeq(q, n + 1, Len(q))
<1>1. n \in 1 .. Len(q) /\ Len(q) \in Nat
  OBVIOUS
<1>2. a \in Seq(Reqs) /\ Len(a) = n - 1 /\ \A i \in 1 .. n - 1 : a[i] = q[i]
  BY <1>1
<1>3. b \in Seq(Reqs) /\ Len(b) = Len(q) - n /\ \A i \in 1 .. Len(q) - n : b[i] = q[n + i]
  BY <1>1
<1>s. s = a \o b
  BY DEF RemoveAt
<1> HIDE DEF s, a, b
<1>4. /\ s \in Seq(Reqs) /\ Len(s) = Len(q) - 1
      /\ \A i \in 1 .. Len(s) : s[i] = IF i < n THEN q[i] ELSE q[i + 1]
  <2>1. s \in Seq(Reqs) /\ Len(s) = Len(q) - 1
    BY <1>1, <1>2, <1>3, <1>s
  <2>2. ASSUME NEW i \in 1 .. Len(s) PROVE s[i] = IF i < n THEN q[i] ELSE q[i + 1]
    <3>1. s[i] = IF i <= Len(a) THEN a[i] ELSE b[i - Len(a)]
      BY <1>1, <1>2, <1>3, <1>s, <2>1
    <3>2. CASE i < n
      BY <1>1, <1>2, <2>1, <3>1, <3>2
    <3>3. CASE i >= n
      <4>1. i \in Int /\ n \in Int /\ Len(q) \in Int /\ n <= i /\ i <= Len(q) - 1 /\ Len(a) = n - 1
        BY <1>1, <1>2, <2>1, <3>3
      <4>2. PICK k \in Int : k = i - (n - 1)
        BY <4>1
      <4>3. 1 <= k /\ k <= Len(q) - n
        BY <4>1, <4>2
      <4>4. n + k = i + 1
        BY <4>1, <4>2
      <4>5. ~(i <= Len(a)) /\ ~(i < n)
        BY <4>1
      <4>6. s[i] = b[k]
        BY <3>1, <4>1, <4>2, <4>5
      <4>7. b[k] = q[n + k]
        BY <1>3, <4>1, <4>2, <4>3
      <4> QED
        BY <4>4, <4>5, <4>6, <4>7
    <3> QED
      BY <1>1, <3>2, <3>3
  <2> QED
    BY <2>1, <2>2
<1>5. Distinct(s)
  <2> SUFFICES ASSUME NEW i \in 1 .. Len(s), NEW j \in 1 .. Len(s), s[i] = s[j] PROVE i = j
    BY DEF Distinct
  <2> DEFINE k == IF i < n THEN i ELSE i + 1
             l == IF j < n THEN j ELSE j + 1
  <2>1. k \in 1 .. Len(q) /\ s[i] = q[k]
    BY <1>1, <1>4
  <2>2. l \in 1 .. Len(q) /\ s[j] = q[l]
    BY <1>1, <1>4
  <2>3. k = l
    BY <2>1, <2>2 DEF Distinct
  <2> QED
    BY <1>1, <2>3
<1>6. ASSUME NEW x PROVE Contains(s, x) <=> Contains(q, x) /\ x # q[n]
  <2>1. ASSUME Contains(s, x) PROVE Contains(q, x) /\ x # q[n]
    <3>1. PICK i \in 1 .. Len(s) : s[i] = x
      BY <2>1 DEF Contains
    <3> DEFINE k == IF i < n THEN i ELSE i + 1
    <3>2. k \in 1 .. Len(q) /\ q[k] = x /\ k # n
      BY <1>1, <1>4, <3>1
    <3> HIDE DEF k
    <3> QED
      BY <1>1, <3>2 DEF Contains, Distinct
  <2>2. ASSUME Contains(q, x), x # q[n] PROVE Contains(s, x)
    <3>1. PICK k \in 1 .. Len(q) : q[k] = x
      BY <2>2 DEF Contains
    <3>2. CASE k < n
      <4>1. k \in 1 .. Len(s) /\ s[k] = x
        BY <1>1, <1>4, <3>1, <3>2
      <4> QED
        BY <4>1 DEF Contains
    <3>3. CASE k > n
      <4>1. k - 1 \in 1 .. Len(s) /\ s[k - 1] = x
        BY <1>1, <1>4, <3>1, <3>3
      <4> QED
        BY <4>1 DEF Contains
    <3> QED
      BY <1>1, <2>2, <3>1, <3>2, <3>3
  <2> QED
    BY <2>1, <2>2
<1> QED
  BY <1>4, <1>5, <1>6 DEF s

(* rejectQueue: the requests of the queue, and none of an empty one. *)
LEMMA QueueSet ==
    ASSUME NEW q \in Seq(Reqs)
    PROVE  \A x : x \in ToSet(q) <=> Contains(q, x)
BY DEF ToSet, Contains

(* The empty queue holds nothing.                                          *)
LEMMA EmptyQueue == <<>> \in Seq(Reqs) /\ Distinct(<<>>) /\ \A x : ~Contains(<<>>, x)
BY DEF Distinct, Contains

-----------------------------------------------------------------------------
(* Where each request is, and for whom each child works.                   *)

Handled(a, r) == a # None /\ a.req = r

(* A request that has been accepted is in the queue or handled, never both,  *)
(* and no other request is.                                                *)
Placed(q, a, o) ==
    \A r \in Reqs :
        /\ o[r] = "accepted" <=> Contains(q, r) \/ Handled(a, r)
        /\ Handled(a, r) => ~Contains(q, r)

(* A child works for the active request, or for one whose caller was told   *)
(* that the termination is not confirmed.                                  *)
WorkInv ==
    \A c \in Children : Up(c) /\ work[c] # None =>
        \/ out[work[c]] = "unconfirmed"
        \/ Handled(active, work[c]) /\ active.child = c

RequestInv == PoolTypeOK /\ Distinct(queue) /\ Placed(queue, active, out) /\ WorkInv

Outcomes == {"new", "accepted", "ok"} \cup Failures

(* A call, or drain(), that hands the head of a queue to a child.           *)
LEMMA StartKeepsRequests ==
    ASSUME PoolInv', PoolTypeOK, NEW q \in Seq(Reqs), q # <<>>, Distinct(q),
           NEW o \in [Reqs -> Outcomes], Placed(q, None, o),
           StartHead(q, o), UNCHANGED <<blocked, accepting, stopWait, committed>>
    PROVE  RequestInv'
<1>1. PICK c \in Children :
        /\ child' = [child EXCEPT ![c] = "up"]
        /\ slot' = c
        /\ active' = [req |-> Head(q), child |-> c, term |-> "no"]
        /\ work' = [work EXCEPT ![c] = Head(q)]
        /\ queue' = Tail(q) /\ state' = "running" /\ out' = o /\ drainDue' = FALSE
        /\ flight' = flight
  BY DEF StartHead
<1>2. /\ Head(q) \in Reqs /\ Contains(q, Head(q))
      /\ Tail(q) \in Seq(Reqs) /\ Distinct(Tail(q))
      /\ \A x : Contains(Tail(q), x) <=> Contains(q, x) /\ x # Head(q)
  BY ShiftedQueue
<1>3. active'.req = Head(q) /\ active'.child = c /\ active' # None
  <2>1. active' \in Mutations
    BY <1>1, <1>2 DEF Mutations
  <2> QED
    BY <1>1, <2>1, PoolAssumption
<1>4. PoolTypeOK'
  BY <1>1, <1>2 DEF PoolTypeOK, Outcomes, Mutations
<1>5. Placed(queue, active, out)'
  <2> SUFFICES ASSUME NEW r \in Reqs
               PROVE  /\ o[r] = "accepted" <=> Contains(Tail(q), r) \/ r = Head(q)
                      /\ r = Head(q) => ~Contains(Tail(q), r)
    BY <1>1, <1>3 DEF Placed, Handled
  <2> QED
    BY <1>2 DEF Placed, Handled
<1>6. WorkInv'
  <2> SUFFICES ASSUME NEW d \in Children, Up(d)'
               PROVE  work'[d] = Head(q) /\ d = c
    BY <1>3 DEF WorkInv, Handled
  <2>1. d = c
    BY <1>1 DEF PoolInv, SlotInv, OneWriter
  <2> QED
    BY <1>1, <2>1 DEF PoolTypeOK
<1> QED
  BY <1>1, <1>2, <1>4, <1>5, <1>6 DEF RequestInv

(* So does one that cannot start a child, which rejects that request.       *)
LEMMA StartFailsKeepsRequests ==
    ASSUME PoolInv, PoolTypeOK, NEW q \in Seq(Reqs), q # <<>>, Distinct(q),
           NEW o \in [Reqs -> Outcomes], Placed(q, None, o), active = None,
           StartFails(q, o), UNCHANGED <<blocked, accepting, stopWait, committed>>
    PROVE  RequestInv'
<1>1. /\ Head(q) \in Reqs
      /\ Tail(q) \in Seq(Reqs) /\ Distinct(Tail(q))
      /\ \A x : Contains(Tail(q), x) <=> Contains(q, x) /\ x # Head(q)
  BY ShiftedQueue
<1>2. out' = [o EXCEPT ![Head(q)] = "worker_failed"] /\ queue' = Tail(q) /\ active' = None
  BY DEF StartFails
<1>3. PoolTypeOK'
  BY <1>1, <1>2 DEF PoolTypeOK, Outcomes, StartFails, Failures, Causes
<1>4. Placed(queue, active, out)'
  BY <1>1, <1>2 DEF Placed, Handled
<1>5. \A d \in Children : ~Up(d)'
  BY NoneIsNoChild DEF StartFails, PoolInv, SlotInv, OneWriter, Up
<1> QED
  BY <1>1, <1>2, <1>3, <1>4, <1>5 DEF RequestInv, WorkInv

(* What ends the active request: it is settled with an outcome of its own.   *)
LEMMA SettledPlaces ==
    ASSUME RequestInv, active # None, NEW o \in [Reqs -> Outcomes],
           o[active.req] # "accepted",
           \A r \in Reqs : r # active.req => o[r] = out[r]
    PROVE  Placed(queue, None, o)
BY DEF RequestInv, Placed, Handled

(* What rejects everything: the queue and the active request.               *)
LEMMA RejectedPlaces ==
    ASSUME RequestInv, NEW o \in [Reqs -> Outcomes],
           \A r \in Reqs : o[r] = "accepted" => out[r] = "accepted",
           \A r \in Reqs : Contains(queue, r) \/ Handled(active, r) => o[r] # "accepted"
    PROVE  Placed(<<>>, None, o)
BY EmptyQueue DEF RequestInv, Placed, Handled

(* What rejects the queue only.                                             *)
LEMMA QueueRejectedPlaces ==
    ASSUME RequestInv, NEW o \in [Reqs -> Outcomes], NEW a,
           \A r \in Reqs : Handled(a, r) <=> Handled(active, r),
           \A r \in Reqs : o[r] = "accepted" => out[r] = "accepted",
           \A r \in Reqs : Contains(queue, r) => o[r] # "accepted",
           \A r \in Reqs : Handled(active, r) => o[r] = out[r]
    PROVE  Placed(<<>>, a, o)
BY EmptyQueue DEF RequestInv, Placed, Handled

(* The API calls of a request.                                              *)
LEMMA CallKeepsRequests ==
    ASSUME PoolInv, PoolInv', RequestInv, NEW r \in Reqs, ReqStep(r)
    PROVE  RequestInv'
<1>0. queue \in Seq(Reqs) /\ Distinct(queue) /\ out \in [Reqs -> Outcomes]
  BY DEF RequestInv, PoolTypeOK, Outcomes
<1>1. CASE ExecuteRefused(r)
  <2>1. PICK w \in {"stopped", "unconfirmed", "busy"} : out' = [out EXCEPT ![r] = w]
    BY <1>1 DEF ExecuteRefused
  <2>2. out[r] = "new"
    BY <1>1 DEF ExecuteRefused
  <2>3. UNCHANGED <<queue, active, slot, blocked, state, accepting, stopWait, drainDue, childVars>>
    BY <1>1 DEF ExecuteRefused
  <2>4. PoolTypeOK'
    BY <2>1, <2>3 DEF RequestInv, PoolTypeOK, Failures, Causes, childVars
  <2>5. Placed(queue, active, out)'
    BY <1>0, <2>1, <2>2, <2>3 DEF RequestInv, Placed, Handled
  <2>6. WorkInv'
    BY <1>0, <2>1, <2>2, <2>3 DEF RequestInv, PoolTypeOK, Placed, WorkInv, Handled, Up, childVars
  <2> QED
    BY <2>3, <2>4, <2>5, <2>6 DEF RequestInv
<1>2. CASE ExecuteAccepted(r)
  <2> DEFINE q == Append(queue, r)
             o == [out EXCEPT ![r] = "accepted"]
  <2>1. out[r] = "new" /\ UNCHANGED <<blocked, accepting, stopWait, committed>>
    BY <1>2 DEF ExecuteAccepted
  <2>2. ~Contains(queue, r) /\ ~Handled(active, r)
    BY <2>1 DEF RequestInv, Placed
  <2>3. /\ q \in Seq(Reqs) /\ q # <<>> /\ Distinct(q)
        /\ \A x : Contains(q, x) <=> Contains(queue, x) \/ x = r
    BY <1>0, <2>2, AppendedQueue
  <2>4. o \in [Reqs -> Outcomes] /\ \A x \in Reqs : o[x] = IF x = r THEN "accepted" ELSE out[x]
    BY <1>0 DEF Outcomes
  <2>5. Placed(q, active, o)
    BY <2>2, <2>3, <2>4 DEF RequestInv, Placed
  <2>6. CASE active # None
    <3>1. /\ queue' = q /\ out' = o
          /\ UNCHANGED <<active, slot, state, drainDue, child, flight, work>>
      BY <1>2, <2>6 DEF ExecuteAccepted
    <3>2. PoolTypeOK'
      BY <2>1, <2>3, <2>4, <3>1 DEF RequestInv, PoolTypeOK, Outcomes
    <3>3. WorkInv'
      BY <2>1, <2>4, <3>1 DEF RequestInv, PoolTypeOK, WorkInv, Handled, Up
    <3> QED
      BY <2>3, <2>5, <3>1, <3>2, <3>3 DEF RequestInv
  <2>7. CASE active = None
    <3>1. StartHead(q, o) \/ StartFails(q, o)
      BY <1>2, <2>7 DEF ExecuteAccepted
    <3> HIDE DEF q, o
    <3> QED
      BY <2>1, <2>3, <2>4, <2>5, <2>7, <3>1, StartKeepsRequests, StartFailsKeepsRequests
         DEF RequestInv
  <2> QED
    BY <2>6, <2>7
<1>3. CASE AbortQueued(r)
  <2>1. PICK n \in DOMAIN queue : queue[n] = r /\ queue' = RemoveAt(queue, n)
    BY <1>3 DEF AbortQueued
  <2>2. n \in 1 .. Len(queue)
    BY <1>0, <2>1
  <2>3. /\ queue' \in Seq(Reqs) /\ Distinct(queue')
        /\ \A x : Contains(queue', x) <=> Contains(queue, x) /\ x # r
    BY <1>0, <2>1, <2>2, SplicedQueue
  <2>4. /\ out' = [out EXCEPT ![r] = "aborted"]
        /\ UNCHANGED <<active, slot, blocked, state, accepting, stopWait, drainDue, childVars>>
    BY <1>3 DEF AbortQueued
  <2>5. out[r] = "accepted" /\ ~Handled(active, r)
    BY <1>0, <2>1, <2>2 DEF RequestInv, Placed, Contains
  <2>6. PoolTypeOK'
    BY <2>3, <2>4 DEF RequestInv, PoolTypeOK, Failures, Causes, childVars
  <2>7. Placed(queue, active, out)'
    BY <1>0, <2>3, <2>4, <2>5 DEF RequestInv, Placed, Handled
  <2>8. WorkInv'
    BY <1>0, <2>4, <2>5 DEF RequestInv, PoolTypeOK, WorkInv, Handled, Up, childVars
  <2> QED
    BY <2>3, <2>6, <2>7, <2>8 DEF RequestInv
<1> QED
  BY <1>1, <1>2, <1>3 DEF ReqStep

(* The drain() microtask.                                                   *)
LEMMA DrainKeepsRequests ==
    ASSUME PoolInv, PoolInv', RequestInv, Drain
    PROVE  RequestInv'
<1>0. queue \in Seq(Reqs) /\ Distinct(queue) /\ out \in [Reqs -> Outcomes]
  BY DEF RequestInv, PoolTypeOK, Outcomes
<1>1. UNCHANGED <<blocked, accepting, stopWait, committed>>
  BY DEF Drain
<1>2. CASE UNCHANGED <<queue, active, slot, out, child, flight, work>>
           /\ drainDue' = FALSE /\ state' \in {state, "idle"}
  BY <1>1, <1>2 DEF RequestInv, PoolTypeOK, Placed, WorkInv, Handled, Up
<1>3. CASE active = None /\ queue # <<>> /\ (StartHead(queue, out) \/ StartFails(queue, out))
  BY <1>0, <1>1, <1>3, StartKeepsRequests, StartFailsKeepsRequests DEF RequestInv
<1> QED
  BY <1>2, <1>3 DEF Drain

(* Deadlines, aborts and failures of the active request.                    *)
LEMMA TerminateKeepsRequests ==
    ASSUME PoolInv, PoolInv', RequestInv, NEW why \in Causes, TerminateActive(why)
    PROVE  RequestInv'
<1>0. /\ queue \in Seq(Reqs) /\ out \in [Reqs -> Outcomes] /\ active \in Mutations
      /\ active # None
  BY DEF RequestInv, PoolTypeOK, Outcomes, TerminateActive
<1>1. UNCHANGED <<slot, accepting, stopWait, drainDue, child, work, committed>>
  BY DEF TerminateActive
<1>2. CASE flight[active.child] = "failed"
  <2>1. /\ blocked' = active.child /\ state' = "blocked" /\ active' = None /\ queue' = <<>>
        /\ out' = Rejected({active.req} \cup ToSet(queue), "unconfirmed") /\ flight' = flight
    BY <1>2 DEF TerminateActive
  <2>2. \A r \in Reqs : out'[r] = IF Handled(active, r) \/ Contains(queue, r)
                                  THEN "unconfirmed" ELSE out[r]
    BY <1>0, <2>1, QueueSet DEF Rejected, Handled
  <2>3. out' \in [Reqs -> Outcomes]
    BY <1>0, <2>1 DEF Rejected, Outcomes, Failures
  <2>4. PoolTypeOK'
    BY <1>0, <1>1, <2>1, <2>3, EmptyQueue DEF RequestInv, PoolTypeOK, Outcomes, Mutations
  <2>5. Placed(queue, active, out)'
    BY <2>1, <2>2, <2>3, RejectedPlaces
  <2>6. WorkInv'
    BY <1>1, <2>2 DEF RequestInv, PoolTypeOK, WorkInv, Up
  <2> QED
    BY <2>1, <2>4, <2>5, <2>6, EmptyQueue DEF RequestInv
<1>3. CASE flight[active.child] # "failed"
  <2>1. /\ active' = [active EXCEPT !.term = why]
        /\ flight' = [flight EXCEPT ![active.child] = IF @ = "none" THEN "term" ELSE @]
        /\ UNCHANGED <<blocked, state, out, queue>>
    BY <1>3 DEF TerminateActive
  <2>2. /\ active' \in Mutations /\ active'.req = active.req /\ active'.child = active.child
    BY <1>0, <2>1 DEF Mutations
  <2>3. active' # None
    BY <2>2, PoolAssumption
  <2>4. flight' \in [Children -> {"none", "term", "kill", "failed"}]
    BY <2>1 DEF RequestInv, PoolTypeOK
  <2>5. PoolTypeOK'
    BY <1>1, <2>1, <2>2, <2>4 DEF RequestInv, PoolTypeOK
  <2>6. Placed(queue, active, out)' /\ WorkInv'
    BY <1>0, <1>1, <2>1, <2>2, <2>3 DEF RequestInv, Placed, WorkInv, Handled, Up
  <2> QED
    BY <2>1, <2>5, <2>6 DEF RequestInv
<1> QED
  BY <1>2, <1>3

(* Events and timers of a child.                                            *)
LEMMA ChildKeepsRequests ==
    ASSUME PoolInv, PoolInv', RequestInv, NEW c \in Children,
           ChildEvent(c) \/ Timer(c) \/ IdleChildError(c)
    PROVE  RequestInv'
<1>0. /\ PoolTypeOK /\ Distinct(queue) /\ Placed(queue, active, out) /\ WorkInv
      /\ queue \in Seq(Reqs) /\ out \in [Reqs -> Outcomes]
  BY DEF RequestInv, PoolTypeOK, Outcomes
<1>1. CASE Commit(c)
  <2>1. PoolTypeOK'
    BY <1>0, <1>1 DEF Commit, PoolTypeOK
  <2> QED
    BY <1>0, <1>1, <2>1 DEF Commit, RequestInv, Placed, WorkInv, Handled, Up
<1>2. ASSUME NEW ok \in BOOLEAN, Message(c, ok) PROVE RequestInv'
  <2>1. /\ work' = [work EXCEPT ![c] = None] /\ work' \in [Children -> Reqs \cup {None}]
        /\ UNCHANGED <<queue, slot, blocked, accepting, stopWait, child, flight, committed>>
    BY <1>0, <1>2 DEF Message, PoolTypeOK
  <2>2. \A d \in Children : Up(d)' => work'[d] = None
    BY <1>0, <1>2, <2>1 DEF Message, PoolInv, SlotInv, OneWriter, Up, PoolTypeOK
  <2>3. CASE Listening(c)
    <3>1. PICK w \in {"ok", "mutation_failed"} :
            active' = None /\ out' = [out EXCEPT ![active.req] = w]
            /\ state' \in {state, "idle"} /\ drainDue' \in {drainDue, TRUE}
      BY <1>2, <2>3 DEF Message, Settle
    <3>2. active # None /\ active.req \in Reqs
      BY <1>0, <2>3 DEF Listening, PoolTypeOK, Mutations
    <3>3. /\ out' \in [Reqs -> Outcomes] /\ out'[active.req] # "accepted"
          /\ \A r \in Reqs : r # active.req => out'[r] = out[r]
      BY <1>0, <3>1, <3>2 DEF Outcomes, Failures
    <3>4. PoolTypeOK'
      BY <1>0, <2>1, <3>1, <3>3 DEF PoolTypeOK, Outcomes
    <3>5. Placed(queue, active, out)'
      BY <2>1, <3>1, <3>2, <3>3, SettledPlaces
    <3> QED
      BY <1>0, <2>1, <2>2, <3>4, <3>5 DEF RequestInv, WorkInv
  <2>4. CASE ~Listening(c)
    <3>1. UNCHANGED <<active, out, state, drainDue>>
      BY <1>2, <2>4 DEF Message
    <3>2. PoolTypeOK'
      BY <1>0, <2>1, <3>1 DEF PoolTypeOK
    <3> QED
      BY <1>0, <2>1, <2>2, <3>1, <3>2 DEF RequestInv, WorkInv, Placed, Handled
  <2> QED
    BY <2>3, <2>4
<1>3. CASE Close(c)
  <2>1. /\ child' = [child EXCEPT ![c] = "closed"] /\ work' = [work EXCEPT ![c] = None]
        /\ slot' \in {slot, None} /\ blocked' \in {blocked, None} /\ stopWait' = FALSE
        /\ state' \in {"stopped", "idle", state} /\ drainDue' = accepting
        /\ UNCHANGED <<queue, accepting, flight, committed>>
    BY <1>3 DEF Close
  <2>2. \A d \in Children : Up(d)' => work'[d] = None
    BY <1>0, <1>3, <2>1 DEF Close, PoolInv, SlotInv, OneWriter, Up, PoolTypeOK
  <2>3. /\ child' \in [Children -> {"unborn", "up", "closed"}]
        /\ work' \in [Children -> Reqs \cup {None}]
    BY <1>0, <2>1 DEF PoolTypeOK
  <2>4. CASE active # None /\ active.child = c
    <3>1. active \in Mutations
      BY <1>0, <2>4 DEF PoolTypeOK
    <3>2. PICK w \in Causes \cup {"stopped"} :
            active' = None /\ out' = [out EXCEPT ![active.req] = w]
      BY <1>3, <2>4, <3>1 DEF Close, Mutations, Causes
    <3>3. /\ out' \in [Reqs -> Outcomes] /\ out'[active.req] # "accepted"
          /\ \A r \in Reqs : r # active.req => out'[r] = out[r]
      BY <1>0, <3>1, <3>2 DEF Mutations, Outcomes, Failures, Causes
    <3>4. PoolTypeOK'
      BY <1>0, <2>1, <2>3, <3>2, <3>3 DEF PoolTypeOK, Outcomes
    <3>5. Placed(queue, active, out)'
      BY <2>1, <2>4, <3>2, <3>3, SettledPlaces
    <3> QED
      BY <1>0, <2>1, <2>2, <3>4, <3>5 DEF RequestInv, WorkInv
  <2>5. CASE ~(active # None /\ active.child = c)
    <3>1. UNCHANGED <<active, out>>
      BY <1>3, <2>5 DEF Close
    <3>2. PoolTypeOK'
      BY <1>0, <2>1, <2>3, <3>1 DEF PoolTypeOK
    <3> QED
      BY <1>0, <2>1, <2>2, <3>1, <3>2 DEF RequestInv, WorkInv, Placed, Handled
  <2> QED
    BY <2>4, <2>5
<1>4. CASE TermTimeout(c) \/ IdleChildError(c)
  <2>1. flight' \in [Children -> {"none", "term", "kill", "failed"}]
    BY <1>0, <1>4 DEF TermTimeout, IdleChildError, PoolTypeOK
  <2>2. UNCHANGED <<queue, active, slot, blocked, state, accepting, stopWait, drainDue,
                    out, child, work, committed>>
    BY <1>4 DEF TermTimeout, IdleChildError
  <2>3. PoolTypeOK'
    BY <1>0, <2>1, <2>2 DEF PoolTypeOK
  <2> QED
    BY <1>0, <2>2, <2>3 DEF RequestInv, Placed, WorkInv, Handled, Up
<1>5. CASE KillTimeout(c)
  <2> DEFINE dying == {r \in Reqs : active # None /\ active.child = c
                                    /\ active.term # "no" /\ r = active.req}
  <2>1. /\ blocked' = c /\ slot' = c /\ state' = "blocked" /\ queue' = <<>> /\ stopWait' = FALSE
        /\ out' = Rejected(dying \cup ToSet(queue), "unconfirmed")
        /\ active' = IF dying # {} THEN None ELSE active
        /\ flight' = [flight EXCEPT ![c] = "failed"]
        /\ UNCHANGED <<accepting, drainDue, child, work, committed>>
    BY <1>5 DEF KillTimeout, Block
  <2>2. \A r \in Reqs : out'[r] = IF r \in dying \/ Contains(queue, r)
                                  THEN "unconfirmed" ELSE out[r]
    BY <1>0, <2>1, QueueSet DEF Rejected
  <2>3. out' \in [Reqs -> Outcomes]
    BY <1>0, <2>1 DEF Rejected, Outcomes, Failures
  <2>4. \A r \in dying : Handled(active, r)
    BY DEF Handled
  <2>5. flight' \in [Children -> {"none", "term", "kill", "failed"}]
    BY <1>0, <2>1 DEF PoolTypeOK
  <2>6. active' \in {None, active}
    BY <2>1
  <2> HIDE DEF dying
  <2>7. PoolTypeOK'
    BY <1>0, <2>1, <2>3, <2>5, <2>6, EmptyQueue DEF PoolTypeOK, Outcomes
  <2>8. CASE dying # {}
    <3>1. \A r \in Reqs : Handled(active, r) => r \in dying
      BY <2>4, <2>8 DEF Handled
    <3>2. Placed(queue, active, out)'
      BY <2>1, <2>2, <2>3, <2>8, <3>1, RejectedPlaces
    <3>3. WorkInv'
      <4>1. ASSUME NEW d \in Children, Up(d), work[d] # None
            PROVE  out'[work[d]] = "unconfirmed"
        BY <1>0, <2>2, <3>1, <4>1 DEF PoolTypeOK, WorkInv
      <4> QED
        BY <2>1, <4>1 DEF WorkInv, Up
    <3> QED
      BY <2>1, <2>7, <3>2, <3>3, EmptyQueue DEF RequestInv
  <2>9. CASE dying = {}
    <3>1. \A r \in Reqs : Handled(active, r) => out'[r] = out[r]
      BY <1>0, <2>2, <2>9 DEF Placed
    <3>2. Placed(queue, active, out)'
      BY <2>1, <2>2, <2>3, <2>9, <3>1, QueueRejectedPlaces
    <3>3. WorkInv'
      BY <1>0, <2>1, <2>2, <2>9 DEF PoolTypeOK, WorkInv, Up, Handled
    <3> QED
      BY <2>1, <2>7, <3>2, <3>3, EmptyQueue DEF RequestInv
  <2> QED
    BY <2>8, <2>9
<1> QED
  BY <1>1, <1>2, <1>3, <1>4, <1>5 DEF ChildEvent, Timer

(* stop() up to its first await.                                            *)
LEMMA StopKeepsRequests ==
    ASSUME PoolInv, PoolInv', RequestInv, Stop
    PROVE  RequestInv'
<1>0. /\ PoolTypeOK /\ Placed(queue, active, out) /\ WorkInv
      /\ queue \in Seq(Reqs) /\ out \in [Reqs -> Outcomes]
  BY DEF RequestInv, PoolTypeOK, Outcomes
<1>1. /\ accepting' = FALSE /\ queue' = <<>> /\ state' = StopOutcome
      /\ stopWait' \in BOOLEAN
      /\ UNCHANGED <<slot, drainDue, child, work, committed>>
  BY DEF Stop
<1>2. state' \in {"stopped", "blocked", "stopping"}
  BY <1>1 DEF StopOutcome
<1>3. CASE StopOutcome = "stopping"
  <2>1. /\ flight' = [flight EXCEPT ![slot] = IF @ = "none" THEN "term" ELSE @]
        /\ active' = IF active = None THEN None
                     ELSE [active EXCEPT !.term = IF @ = "no" THEN "stop" ELSE @]
        /\ out' = Rejected(ToSet(queue), "stopped") /\ blocked' = blocked
    BY <1>3 DEF Stop
  <2>2. \A r \in Reqs : out'[r] = IF Contains(queue, r) THEN "stopped" ELSE out[r]
    BY <1>0, <2>1, QueueSet DEF Rejected
  <2>3. out' \in [Reqs -> Outcomes]
    BY <1>0, <2>1 DEF Rejected, Outcomes, Failures
  <2>4. flight' \in [Children -> {"none", "term", "kill", "failed"}]
    BY <1>0, <2>1 DEF PoolTypeOK
  <2>5. /\ active = None => active' = None
        /\ active # None => active' \in Mutations /\ active'.req = active.req
                            /\ active'.child = active.child
    BY <1>0, <2>1 DEF PoolTypeOK, Mutations
  <2>6. active # None => active' # None
    BY <2>5, PoolAssumption
  <2>7. \A r : Handled(active, r) <=> Handled(active', r)
    BY <2>5, <2>6 DEF Handled
  <2>8. PoolTypeOK'
    BY <1>0, <1>1, <1>2, <2>1, <2>3, <2>4, <2>5, EmptyQueue DEF PoolTypeOK, Outcomes
  <2>9. Placed(queue, active, out)'
    <3>1. \A r \in Reqs : Handled(active, r) => out'[r] = out[r]
      BY <1>0, <2>2 DEF Placed
    <3> QED
      BY <1>1, <2>2, <2>3, <2>7, <3>1, QueueRejectedPlaces
  <2>10. WorkInv'
    <3> SUFFICES ASSUME NEW c \in Children, Up(c)', work'[c] # None
                 PROVE  \/ out'[work[c]] = "unconfirmed"
                        \/ Handled(active', work[c]) /\ active'.child = c
      BY <1>1 DEF WorkInv
    <3>1. Up(c) /\ work[c] # None /\ work[c] \in Reqs
      BY <1>0, <1>1 DEF Up, PoolTypeOK
    <3>2. CASE Handled(active, work[c]) /\ active.child = c
      BY <2>5, <2>7, <3>2 DEF Handled
    <3>3. CASE out[work[c]] = "unconfirmed"
      BY <1>0, <2>2, <3>1, <3>3 DEF Placed
    <3> QED
      BY <1>0, <3>1, <3>2, <3>3 DEF WorkInv
  <2> QED
    BY <1>1, <2>8, <2>9, <2>10, EmptyQueue DEF RequestInv
<1>4. CASE StopOutcome # "stopping"
  <2>1. /\ active' = None /\ flight' = flight /\ blocked' \in {slot, blocked}
        /\ out' = [r \in Reqs |-> IF active # None /\ active.req = r THEN "unconfirmed"
                                  ELSE Rejected(ToSet(queue), "stopped")[r]]
    BY <1>4 DEF Stop
  <2>2. \A r \in Reqs : out'[r] = IF Handled(active, r) THEN "unconfirmed"
                                  ELSE IF Contains(queue, r) THEN "stopped" ELSE out[r]
    BY <1>0, <2>1, QueueSet DEF Rejected, Handled
  <2>3. out' \in [Reqs -> Outcomes]
    BY <1>0, <2>1 DEF Rejected, Outcomes, Failures
  <2>4. PoolTypeOK'
    BY <1>0, <1>1, <1>2, <2>1, <2>3, EmptyQueue DEF PoolTypeOK, Outcomes
  <2>5. Placed(queue, active, out)'
    BY <1>1, <2>1, <2>2, <2>3, RejectedPlaces
  <2>6. WorkInv'
    BY <1>0, <1>1, <2>2 DEF PoolTypeOK, WorkInv, Placed, Up
  <2> QED
    BY <1>1, <2>4, <2>5, <2>6, EmptyQueue DEF RequestInv
<1> QED
  BY <1>3, <1>4

(* The inductive invariant of the requests.                                 *)
LEMMA RequestInvariant == PoolSpec => []RequestInv
<1>1. PoolInit => RequestInv
  <2> SUFFICES ASSUME PoolInit PROVE RequestInv
    OBVIOUS
  <2>1. PoolTypeOK
    BY EmptyQueue DEF PoolInit, PoolTypeOK
  <2>2. Placed(queue, active, out)
    BY EmptyQueue DEF PoolInit, Placed, Handled
  <2>3. Distinct(queue)
    BY EmptyQueue DEF PoolInit
  <2>4. WorkInv
    BY DEF PoolInit, WorkInv, Up
  <2> QED
    BY <2>1, <2>2, <2>3, <2>4 DEF RequestInv
<1>2. PoolInv /\ PoolInv' /\ RequestInv /\ [PoolNext]_vars => RequestInv'
  <2> SUFFICES ASSUME PoolInv, PoolInv', RequestInv, [PoolNext]_vars PROVE RequestInv'
    OBVIOUS
  <2>1. CASE UNCHANGED vars
    BY <2>1 DEF vars, RequestInv, PoolTypeOK, Placed, WorkInv, Handled, Up
  <2>2. CASE PoolNext
    BY <2>2, CallKeepsRequests, DrainKeepsRequests, StopKeepsRequests,
       TerminateKeepsRequests, ChildKeepsRequests DEF PoolNext
  <2> QED
    BY <2>1, <2>2
<1> QED
  BY <1>1, <1>2, PoolInvariant, PTL DEF PoolSpec

(* Type correctness of the pool and of its children.                        *)
THEOREM PoolTypeCorrect == PoolSpec => []PoolTypeOK
<1>1. RequestInv => PoolTypeOK
  BY DEF RequestInv
<1> QED
  BY <1>1, RequestInvariant, PTL

(* An accepted request of ManagerStorageMutationPool is always in exactly   *)
(* one place: queued, or handled by the child; no abort, timeout, crash of  *)
(* a child or stop() drops one without an answer, or answers one that stays. *)
THEOREM AcceptedIsNeverLost == PoolSpec => []NoRequestLost
<1>1. RequestInv => NoRequestLost
  BY DEF RequestInv, Placed, Handled, NoRequestLost
<1> QED
  BY <1>1, RequestInvariant, PTL

(* Nothing is written on behalf of a caller that has been given its answer,  *)
(* unless the answer was that the termination is not confirmed.            *)
THEOREM AnswersPrecedeNoCommit == PoolSpec => NoLateCommit
<1> DEFINE Timely == \A r \in committed' \ committed : out[r] \in {"accepted", "unconfirmed"}
<1>1. ASSUME RequestInv, [PoolNext]_vars PROVE Timely
  <2> SUFFICES ASSUME NEW r \in committed' \ committed
               PROVE  out[r] \in {"accepted", "unconfirmed"}
    OBVIOUS
  <2>1. PICK c \in Children : Commit(c)
    BY <1>1 DEF PoolNext, vars, childVars, ReqStep, ChildEvent, Timer, Drain, Stop,
       TerminateActive, ExecuteRefused, ExecuteAccepted, AbortQueued, Message, Close,
       TermTimeout, KillTimeout, IdleChildError
  <2>2. r = work[c] /\ Up(c) /\ work[c] # None /\ r \in Reqs
    BY <1>1, <2>1 DEF Commit, RequestInv, PoolTypeOK
  <2> QED
    BY <1>1, <2>2 DEF RequestInv, WorkInv, Placed
<1>2. RequestInv /\ [PoolNext]_vars => [Timely]_vars
  BY <1>1
<1> QED
  BY <1>2, RequestInvariant, PTL DEF PoolSpec, NoLateCommit

-----------------------------------------------------------------------------
(* Nobody waits without something that will wake him.                      *)

(* What waits has its wake-up: a queued request the microtask or the         *)
(* request before it, a terminating request and a waiting stop() the       *)
(* timers of the termination that they wait for.                           *)
WakeInv ==
    /\ queue # <<>> => drainDue \/ active # None
    /\ blocked # None => queue = <<>>
    /\ active # None => active.term = "no" \/ flight[active.child] \in {"term", "kill"}
    /\ stopWait => slot # None /\ flight[slot] \in {"term", "kill"}
    /\ state = "stopping" => ~accepting

(* Starting a request, or failing to, from a pool with none active.         *)
LEMMA StartKeepsWake ==
    ASSUME PoolInv, WakeInv, NEW q \in Seq(Reqs), q # <<>>, NEW o,
           active = None, blocked = None, accepting,
           StartHead(q, o) \/ StartFails(q, o), UNCHANGED <<blocked, accepting, stopWait>>
    PROVE  WakeInv'
<1>1. ~stopWait
  BY DEF PoolInv, StopInv
<1>2. CASE StartFails(q, o)
  BY <1>1, <1>2 DEF StartFails, WakeInv
<1>3. CASE StartHead(q, o)
  <2>1. PICK c \in Children : active' = [req |-> Head(q), child |-> c, term |-> "no"]
    BY <1>3 DEF StartHead
  <2>2. active' \in Mutations /\ active'.term = "no"
    BY <2>1 DEF Mutations
  <2>3. active' # None
    BY <2>2, PoolAssumption
  <2>4. state' = "running"
    BY <1>3 DEF StartHead
  <2>5. QED
    BY <1>1, <2>2, <2>3, <2>4 DEF WakeInv
<1>4. QED
  BY <1>2, <1>3

(* What a request's end leaves behind is taken up by drain().               *)
LEMMA SettleKeepsWake ==
    ASSUME PoolInv, WakeInv, NEW why, Settle(why),
           UNCHANGED <<queue, slot, blocked, accepting, stopWait, flight>>
    PROVE  WakeInv'
BY DEF Settle, PoolInv, StopInv, WakeInv

(* Every step leaves a pool with work to do something to wait for.         *)
LEMMA WakeStep == PoolInv /\ PoolTypeOK /\ WakeInv /\ [PoolNext]_vars => WakeInv'
<1> SUFFICES ASSUME PoolInv, PoolTypeOK, WakeInv, [PoolNext]_vars PROVE WakeInv'
  OBVIOUS
<1> USE NoneIsNoChild
<1>1. CASE UNCHANGED vars
  BY <1>1 DEF vars, WakeInv
<1>2. ASSUME NEW r \in Reqs, ReqStep(r) PROVE WakeInv'
  <2>1. CASE ExecuteRefused(r)
    BY <2>1 DEF ExecuteRefused, childVars, WakeInv
  <2>2. CASE ExecuteAccepted(r)
    <3>1. accepting /\ blocked = None /\ UNCHANGED <<blocked, accepting, stopWait>>
      BY <2>2 DEF ExecuteAccepted, Stopped
    <3>2. CASE active # None
      BY <2>2, <3>1, <3>2 DEF ExecuteAccepted, WakeInv
    <3>3. CASE active = None
      <4>1. PICK o : StartHead(Append(queue, r), o) \/ StartFails(Append(queue, r), o)
        BY <2>2, <3>3 DEF ExecuteAccepted
      <4>2. Append(queue, r) \in Seq(Reqs) /\ Append(queue, r) # <<>>
        BY <1>2 DEF PoolTypeOK
      <4>3. QED
        BY <3>1, <3>3, <4>1, <4>2, StartKeepsWake
    <3>4. QED
      BY <3>2, <3>3
  <2>3. CASE AbortQueued(r)
    <3>1. queue # <<>>
        BY <2>3 DEF AbortQueued
    <3>2. QED
      BY <2>3, <3>1 DEF AbortQueued, childVars, WakeInv
  <2>4. QED
    BY <1>2, <2>1, <2>2, <2>3 DEF ReqStep
<1>3. CASE Drain
  <2>1. CASE Stopped \/ active # None \/ blocked # None
    BY <1>3, <2>1 DEF Drain, Stopped, PoolInv, StopInv, WakeInv
  <2>2. CASE ~(Stopped \/ active # None \/ blocked # None) /\ queue = <<>>
    BY <1>3, <2>2 DEF Drain, WakeInv
  <2>3. CASE ~(Stopped \/ active # None \/ blocked # None) /\ queue # <<>>
    <3>1. StartHead(queue, out) \/ StartFails(queue, out)
      BY <1>3, <2>3 DEF Drain
    <3>2. accepting /\ UNCHANGED <<blocked, accepting, stopWait>>
      BY <1>3, <2>3 DEF Drain, Stopped
    <3>3. QED
      BY <2>3, <3>1, <3>2, StartKeepsWake DEF PoolTypeOK
  <2>4. QED
    BY <2>1, <2>2, <2>3
<1>4. CASE Stop
  <2>1. CASE StopOutcome = "stopping"
    <3>1. slot # None /\ slot \in Children /\ flight[slot] # "failed"
      BY <2>1 DEF StopOutcome, PoolInv, OwnerTypeOK
    <3>2. flight' = [flight EXCEPT ![slot] = IF @ = "none" THEN "term" ELSE @]
      BY <1>4, <2>1 DEF Stop
    <3>3. flight'[slot] \in {"term", "kill"}
      BY <3>1, <3>2 DEF PoolInv, OwnerTypeOK
    <3>4. active = None => active' = None
      BY <1>4, <2>1 DEF Stop
    <3>5. active # None => active.child = slot /\ active'.child = slot
      <4>1. SUFFICES ASSUME active # None PROVE active.child = slot /\ active'.child = slot
        OBVIOUS
      <4>2. active.child = slot
        BY <4>1 DEF PoolInv, SlotInv
      <4>3. active' = [active EXCEPT !.term = IF @ = "no" THEN "stop" ELSE @]
        BY <1>4, <2>1, <4>1 DEF Stop
      <4>4. active = [req |-> active.req, child |-> active.child, term |-> active.term]
        BY <4>1 DEF PoolInv, OwnerTypeOK
      <4>5. active'.child = active.child
        BY <4>3, <4>4
      <4>6. QED
        BY <4>2, <4>5
    <3>6. slot' = slot /\ queue' = <<>> /\ ~accepting'
      BY <1>4 DEF Stop
    <3>7. QED
      BY <3>1, <3>3, <3>4, <3>5, <3>6 DEF WakeInv
  <2>2. CASE StopOutcome # "stopping"
    BY <1>4, <2>2 DEF Stop, WakeInv
  <2>3. QED
    BY <2>1, <2>2
<1>5. ASSUME NEW why \in Causes, TerminateActive(why) PROVE WakeInv'
  <2>1. CASE flight[active.child] = "failed"
    BY <1>5, <2>1 DEF TerminateActive, WakeInv
  <2>2. CASE flight[active.child] # "failed"
    <3>1. active # None /\ slot # None /\ active.child = slot /\ slot \in Children
      BY <1>5 DEF TerminateActive, PoolInv, SlotInv, OwnerTypeOK
    <3>2. /\ active' = [active EXCEPT !.term = why]
          /\ flight' = [flight EXCEPT ![active.child] = IF @ = "none" THEN "term" ELSE @]
          /\ UNCHANGED <<queue, slot, blocked, state, accepting, stopWait, drainDue>>
      BY <1>5, <2>2 DEF TerminateActive
    <3>3. flight'[slot] \in {"term", "kill"}
      BY <2>2, <3>1, <3>2 DEF PoolInv, OwnerTypeOK
    <3>4. active = [req |-> active.req, child |-> active.child, term |-> active.term]
      BY <3>1 DEF PoolInv, OwnerTypeOK
    <3>5. active'.child = slot
      BY <3>1, <3>2, <3>4
    <3>6. active' \in Mutations
      <4>1. active \in Mutations
        BY <3>1 DEF PoolTypeOK
      <4>2. QED
        BY <1>5, <3>2, <4>1 DEF Mutations
    <3>7. active' # None
      BY <3>6, PoolAssumption
    <3>8. QED
      BY <3>1, <3>2, <3>3, <3>5, <3>7 DEF WakeInv
  <2>3. QED
    BY <2>1, <2>2
<1>6. ASSUME NEW c \in Children, ChildEvent(c) \/ Timer(c) \/ IdleChildError(c) PROVE WakeInv'
  <2>1. CASE Commit(c)
    BY <2>1 DEF Commit, WakeInv
  <2>2. ASSUME NEW ok, Message(c, ok) PROVE WakeInv'
    <3>1. CASE Listening(c)
      <4>1. PICK why : Settle(why)
        BY <2>2, <3>1 DEF Message
      <4>2. QED
        BY <2>2, <4>1, SettleKeepsWake DEF Message
    <3>2. CASE ~Listening(c)
      BY <2>2, <3>2 DEF Message, WakeInv
    <3>3. QED
      BY <3>1, <3>2
  <2>3. CASE Close(c)
    <3>1. slot = c
      BY <2>3 DEF Close, PoolInv, SlotInv, OneWriter
    <3>2. active' = None /\ blocked' = None /\ ~stopWait' /\ drainDue' = accepting
      BY <2>3, <3>1 DEF Close, PoolInv, SlotInv
    <3>3. queue' = queue /\ accepting' = accepting
          /\ (state' = "stopping" => ~accepting)
      BY <2>3 DEF Close, WakeInv
    <3>4. QED
      BY <3>2, <3>3 DEF PoolInv, StopInv, WakeInv
  <2>4. CASE TermTimeout(c)
    BY <2>4 DEF TermTimeout, WakeInv, PoolInv, OwnerTypeOK
  <2>5. CASE KillTimeout(c)
    <3>1. slot = c
      BY <2>5 DEF KillTimeout, PoolInv, SlotInv, OneWriter
    <3>2. queue' = <<>> /\ ~stopWait' /\ state' = "blocked"
      BY <2>5 DEF KillTimeout, Block
    <3>3. active # None /\ active.term # "no" => active' = None
      <4>1. SUFFICES ASSUME active # None, active.term # "no" PROVE active' = None
        OBVIOUS
      <4>2. active.child = c /\ active.req \in Reqs
        BY <3>1, <4>1 DEF PoolInv, SlotInv, PoolTypeOK, Mutations
      <4>3. QED
        BY <2>5, <4>1, <4>2 DEF KillTimeout, Block
    <3>4. active' = None \/ active' = active
      BY <2>5 DEF KillTimeout, Block
    <3>5. QED
      BY <3>2, <3>3, <3>4 DEF WakeInv
  <2>6. CASE IdleChildError(c)
    BY <2>6 DEF IdleChildError, WakeInv, PoolInv, OwnerTypeOK
  <2>7. QED
    BY <1>6, <2>1, <2>2, <2>3, <2>4, <2>5, <2>6 DEF ChildEvent, Timer
<1>7. QED
  BY <1>1, <1>2, <1>3, <1>4, <1>5, <1>6 DEF PoolNext

(* A step of the pool itself is due: the microtask, the deadline of the      *)
(* active request, or a timer of a termination that is under way.           *)
StepDue ==
    \/ drainDue
    \/ active # None /\ active.term = "no"
    \/ \E c \in Children : Up(c) /\ flight[c] \in {"term", "kill"}

(* As long as an execute() has no answer or a stop() waits, a step of the    *)
(* pool is due that no child can withhold: no wake-up is lost, whichever    *)
(* aborts, child events and failed terminations come in between.  What the  *)
(* run's EveryCallEnds adds is that these steps, taken, lead to the answer. *)
THEOREM PoolNeverSleeps ==
    PoolSpec => []((\E r \in Reqs : out[r] = "accepted") \/ stopWait => StepDue)
<1> DEFINE Awaited == (\E r \in Reqs : out[r] = "accepted") \/ stopWait
<1>1. PoolInit => WakeInv
  BY DEF PoolInit, WakeInv
<1>2. PoolInv /\ RequestInv /\ WakeInv => (Awaited => StepDue)
  <2> SUFFICES ASSUME PoolInv, RequestInv, WakeInv, Awaited PROVE StepDue
    OBVIOUS
  <2>1. CASE stopWait
    BY <2>1 DEF WakeInv, StepDue, PoolInv, SlotInv, OwnerTypeOK
  <2>2. CASE \E r \in Reqs : out[r] = "accepted"
    <3>1. queue # <<>> \/ active # None
      BY <2>2, EmptyQueue DEF RequestInv, Placed, Handled
    <3>2. QED
      BY <3>1 DEF WakeInv, StepDue, PoolInv, SlotInv, OwnerTypeOK
  <2>3. QED
    BY <2>1, <2>2
<1>3. QED
  BY <1>1, <1>2, WakeStep, PoolInvariant, RequestInvariant, PTL DEF PoolSpec, RequestInv

-----------------------------------------------------------------------------
(***************************************************************************)
(* The plugin kernel                                                       *)
(***************************************************************************)
(* What switch(), dispose(), lifecycle.fail and publishSourcePatch() queue.*)
KernelCalls == [kind : {"switch"}, want : Profiles] \cup [kind : {"dispose"}]
               \cup [kind : {"patch"}, expect : Nat] \cup [kind : {"fail"}, scope : Scopes]

InSwitch == op # NoOp /\ op.kind = "switch"
InCleanup == op # NoOp /\ op.kind = "cleanup"

(* The queue holds calls, and the failures among them were reported.       *)
QueueInv ==
    /\ waiting \in Seq(KernelCalls)
    /\ \A k \in 1 .. Len(waiting) : waiting[k].kind = "fail" => waiting[k].scope \in failing

(* The operation and the scopes have their types.                          *)
KernelTypes ==
    /\ op \in {NoOp} \cup KernelOps
    /\ running \subseteq Scopes /\ live \subseteq Scopes /\ failing \subseteq Scopes
    /\ generation \in Nat /\ degraded \in BOOLEAN /\ disposed \in BOOLEAN /\ turn \in Nat

(* A generation has one scope of a plugin.                                 *)
Single(S) == \A s, t \in S : s.rev.plugin = t.rev.plugin => s = t

(* The scopes that a switch has activated are new.                         *)
FreshInv ==
    /\ \A s \in running : s.act <= turn
    /\ InSwitch => /\ \A s \in running : s.act < turn
                   /\ \A s \in op.prepared : s.act = turn

(* How far a switch is: todo and what it has decided are whole components, *)
(* and only a component in which no plugin waits is activated.             *)
SwitchInv ==
    InSwitch =>
        /\ op.todo \subseteq Instances(op.want)
        /\ \A p \in op.todo : Component[op.want][p] \subseteq op.todo
        /\ op.phase = "commit" => op.todo = {}
        /\ \A s \in op.next \cup op.prepared : s.rev.plugin \in Instances(op.want) \ op.todo
        /\ Single(op.next)
        /\ op.next \subseteq running \cup op.prepared
        /\ \A s \in op.prepared :
              Component[op.want][s.rev.plugin] \cap WaitingPlugins[op.want] = {}

(* The scopes that exist and are not running yet, or no more.              *)
Candidates == IF InSwitch THEN op.prepared \cap op.next ELSE {}
Leaving == IF InCleanup THEN op.gone ELSE {}

LiveInv == running \cup Candidates \subseteq live /\ Leaving \cap running = {}

(* The inductive invariant, whatever the revisions contribute.             *)
KernelInv == QueueInv /\ KernelTypes /\ Single(running) /\ FreshInv /\ SwitchInv /\ LiveInv

-----------------------------------------------------------------------------
(* The capability graph *)

(* A set of plugins that no link leaves.                                   *)
Closed(w, S) == \A r, s \in w : Linked(r, s) /\ r.plugin \in S => s.plugin \in S

(* A component is the least such set with its plugin.                      *)
LEMMA ComponentIsLeast ==
    ASSUME NEW w \in Profiles, NEW p \in Instances(w)
    PROVE  /\ p \in Component[w][p] /\ Component[w][p] \subseteq Instances(w)
           /\ Closed(w, Component[w][p])
           /\ \A S : Closed(w, S) /\ p \in S => Component[w][p] \subseteq S
<1> DEFINE Least == {q \in Instances(w) : \A S \in SUBSET Instances(w) :
                        p \in S /\ Closed(w, S) => q \in S}
<1>1. Component[w][p] = Least
  BY DEF Component, Closed
<1>2. Closed(w, Least)
  BY DEF Closed, Instances
<1>3. ASSUME NEW S, Closed(w, S), p \in S
      PROVE  Least \subseteq S
  <2>1. Closed(w, S \cap Instances(w))
    BY <1>3 DEF Closed, Instances
  <2>2. QED
    BY <1>3, <2>1
<1>4. QED
  BY <1>1, <1>2, <1>3

(* Links go both ways, so that the components are disjoint.                *)
LEMMA ComponentsPart ==
    ASSUME NEW w \in Profiles, NEW p \in Instances(w), NEW q \in Instances(w)
    PROVE  /\ q \in Component[w][p] => Component[w][q] = Component[w][p]
           /\ q \notin Component[w][p] => Component[w][q] \cap Component[w][p] = {}
<1>1. ASSUME NEW x \in Instances(w), NEW y \in Instances(w), y \notin Component[w][x]
      PROVE  Component[w][y] \cap Component[w][x] = {}
  <2> DEFINE Rest == Instances(w) \ Component[w][x]
  <2>1. Closed(w, Component[w][x])
    BY ComponentIsLeast
  <2>2. \A r, s \in w : Linked(r, s) => Linked(s, r)
    BY DEF Linked
  <2>3. Closed(w, Rest)
    BY <2>1, <2>2 DEF Closed, Instances
  <2>4. Component[w][y] \subseteq Rest
    BY <1>1, <2>3, ComponentIsLeast
  <2>5. QED
    BY <2>4
<1>2. ASSUME q \in Component[w][p]
      PROVE  Component[w][q] = Component[w][p]
  <2>1. Component[w][q] \subseteq Component[w][p]
    BY <1>2, ComponentIsLeast
  <2>2. p \in Component[w][q]
    BY <1>1, <1>2, ComponentIsLeast
  <2>3. Component[w][p] \subseteq Component[w][q]
    BY <2>2, ComponentIsLeast
  <2>4. QED
    BY <2>1, <2>3
<1>3. QED
  BY <1>1, <1>2

(* The revision that a profile wants of one of its plugins.                *)
LEMMA WantedIsWanted ==
    ASSUME NEW w \in Profiles
    PROVE  /\ \A p \in Instances(w) : Wanted(w, p) \in w /\ Wanted(w, p).plugin = p
           /\ \A r \in w : Wanted(w, r.plugin) = r /\ r.plugin \in Instances(w)
           /\ w \subseteq Revisions /\ Instances(w) \subseteq Plugins
<1>1. \A p \in Instances(w) : \E r \in w : r.plugin = p
  BY DEF Instances
<1>2. \A p \in Instances(w) : Wanted(w, p) \in w /\ Wanted(w, p).plugin = p
  BY <1>1 DEF Wanted
<1>3. \A r \in w : r.plugin \in Instances(w)
  BY DEF Instances
<1>4. QED
  BY <1>2, <1>3, PluginAssumption DEF Instances

-----------------------------------------------------------------------------
(* Calls and the queue *)

(* What an operation in progress is.                                       *)
LEMMA OpIsTyped ==
    ASSUME KernelTypes
    PROVE  /\ InSwitch => op \in SwitchOps /\ ~InCleanup
           /\ InCleanup => op \in [kind : {"cleanup"}, gone : SUBSET Scopes]
           /\ op \in SwitchOps => InSwitch
           /\ \A o \in KernelOps : o # NoOp
BY NoOpAssumption DEF KernelTypes, KernelOps, SwitchOps, InSwitch, InCleanup

(* The head of the queue is a call, and a failure there was reported.      *)
LEMMA HeadIsCall ==
    ASSUME QueueInv, waiting # <<>>
    PROVE  /\ Head(waiting) \in KernelCalls
           /\ Head(waiting).kind = "switch" => Head(waiting).want \in Profiles
           /\ Head(waiting).kind = "fail" => Head(waiting).scope \in Scopes \cap failing
<1>1. Len(waiting) \in Nat /\ Len(waiting) # 0 /\ Head(waiting) = waiting[1]
  BY DEF QueueInv
<1>2. 1 \in 1 .. Len(waiting)
  BY <1>1
<1>3. Head(waiting) \in KernelCalls
  BY <1>1, <1>2 DEF QueueInv
<1>4. QED
  BY <1>1, <1>2, <1>3 DEF QueueInv, KernelCalls

(* A call that is queued keeps the queue.                                  *)
LEMMA QueuedKeepsQueue ==
    ASSUME QueueInv, NEW o \in KernelCalls, waiting' = Append(waiting, o),
           failing \subseteq failing', o.kind = "fail" => o.scope \in failing'
    PROVE  QueueInv'
<1>1. waiting' \in Seq(KernelCalls) /\ Len(waiting') = Len(waiting) + 1 /\ Len(waiting) \in Nat
  BY DEF QueueInv
<1>2. ASSUME NEW k \in 1 .. Len(waiting'), waiting'[k].kind = "fail"
      PROVE  waiting'[k].scope \in failing'
  <2>1. CASE k = Len(waiting) + 1
    BY <1>1, <1>2, <2>1 DEF QueueInv
  <2>2. CASE k # Len(waiting) + 1
    <3>1. k \in 1 .. Len(waiting) /\ waiting'[k] = waiting[k]
      BY <1>1, <2>2 DEF QueueInv
    <3>2. QED
      BY <1>2, <3>1 DEF QueueInv
  <2>3. QED
    BY <2>1, <2>2
<1>3. QED
  BY <1>1, <1>2 DEF QueueInv

(* A call that is taken leaves a queue.                                    *)
LEMMA TakenKeepsQueue ==
    ASSUME QueueInv, waiting # <<>>, waiting' = Tail(waiting), failing' = failing
    PROVE  QueueInv'
<1>1. /\ waiting' \in Seq(KernelCalls) /\ Len(waiting') = Len(waiting) - 1
      /\ Len(waiting) \in Nat
  BY DEF QueueInv
<1>2. \A k \in 1 .. Len(waiting') : waiting'[k] = waiting[k + 1] /\ k + 1 \in 1 .. Len(waiting)
  BY <1>1 DEF QueueInv
<1>3. QED
  BY <1>1, <1>2 DEF QueueInv

(* Every step keeps the queue.                                             *)
LEMMA QueueStep ==
    ASSUME KernelInv, KernelNext
    PROVE  QueueInv'
<1> USE DEF KernelInv
<1>1. ASSUME NEW w \in Profiles, Call([kind |-> "switch", want |-> w])
      PROVE  QueueInv'
  BY <1>1, QueuedKeepsQueue DEF Call, KernelCalls
<1>2. CASE CallDispose
  BY <1>2, QueuedKeepsQueue DEF CallDispose, Call, KernelCalls
<1>3. CASE CallPatch
  BY <1>3, QueuedKeepsQueue DEF CallPatch, Call, KernelCalls, KernelTypes
<1>4. ASSUME NEW s \in live, Fail(s)
      PROVE  QueueInv'
  BY <1>4, QueuedKeepsQueue DEF Fail, KernelCalls, KernelTypes
<1>5. CASE BeginSwitch \/ RuntimeFailure \/ Dispose \/ BeginPatch
  BY <1>5, TakenKeepsQueue DEF BeginSwitch, RuntimeFailure, Dispose, BeginPatch, Take, Idle
<1>6. CASE UNCHANGED <<waiting, failing>>
  BY <1>6 DEF QueueInv
<1>7. CASE PrepareComponent \/ Validate \/ Reject \/ Publish \/ Cleanup \/ EndPatch
  BY <1>6, <1>7 DEF PrepareComponent, Validate, Reject, Publish, Cleanup, EndPatch
<1>8. ASSUME NEW s \in live, CommitScope(s) \/ CommitFails(s)
      PROVE  QueueInv'
  BY <1>6, <1>8 DEF CommitScope, CommitFails
<1>9. QED
  BY <1>1, <1>2, <1>3, <1>4, <1>5, <1>7, <1>8 DEF KernelNext, Runtime, CallSwitch

(* Everything but the queue keeps its invariant when only calls are made.  *)
LEMMA CallKeepsKernel ==
    ASSUME KernelInv, QueueInv', failing' \subseteq Scopes,
           UNCHANGED <<op, running, generation, degraded, live, disposed, turn>>
    PROVE  KernelInv'
BY DEF KernelInv, KernelTypes, Single, FreshInv, SwitchInv, LiveInv, InSwitch, InCleanup,
       Candidates, Leaving

-----------------------------------------------------------------------------
(* A switch *)

(* A switch begins with every plugin of its profile to do.                 *)
LEMMA BeginSwitchKeeps ==
    ASSUME KernelInv, QueueInv', BeginSwitch
    PROVE  KernelInv'
<1> DEFINE w == Head(waiting).want
           first == [kind |-> "switch", phase |-> "prepare", want |-> w, todo |-> Instances(w),
                     next |-> {}, prepared |-> {}, committed |-> {}, flawed |-> FALSE]
<1>1. op = NoOp /\ w \in Profiles
  BY HeadIsCall DEF KernelInv, BeginSwitch, Take, Idle
<1>2. op' = NoOp \/ op' = first
  BY DEF BeginSwitch
<1>3. UNCHANGED <<running, generation, degraded, live, failing, disposed>> /\ turn' = turn + 1
  BY DEF BeginSwitch
<1> HIDE DEF w
<1>4. first \in SwitchOps
  BY <1>1, WantedIsWanted DEF SwitchOps
<1> HIDE DEF first
<1>5. KernelTypes'
  BY <1>2, <1>3, <1>4 DEF KernelInv, KernelTypes, KernelOps
<1>6. ~InCleanup' /\ (InSwitch' => op' = first)
  BY <1>2 DEF InCleanup, InSwitch, first
<1>7. FreshInv'
  BY <1>3, <1>6 DEF first, KernelInv, KernelTypes, FreshInv, Scopes
<1>8. SwitchInv'
  BY <1>1, <1>6, ComponentIsLeast DEF first, SwitchInv, Single
<1>9. LiveInv'
  BY <1>3, <1>6 DEF first, KernelInv, LiveInv, Candidates, Leaving
<1>10. QED
  BY <1>3, <1>5, <1>7, <1>8, <1>9 DEF KernelInv, Single

(* A step that ends an operation and leaves what runs alone.               *)
LEMMA EndKeeps ==
    ASSUME KernelInv, QueueInv', op' = NoOp, live' \subseteq live, running \subseteq live',
           UNCHANGED <<running, generation, degraded, failing, disposed, turn>>
    PROVE  KernelInv'
BY DEF KernelInv, KernelTypes, Single, FreshInv, SwitchInv, LiveInv, InSwitch, InCleanup,
       Candidates, Leaving

(* What a switch has activated does not run yet.                           *)
LEMMA PreparedAreNew ==
    ASSUME KernelInv, InSwitch
    PROVE  /\ op.prepared \cap running = {} /\ op.want \in Profiles /\ op \in SwitchOps
           /\ op.next \subseteq Scopes /\ op.prepared \subseteq Scopes
<1>1. op \in SwitchOps
  BY OpIsTyped DEF KernelInv
<1>2. QED
  BY <1>1 DEF SwitchOps, KernelInv, FreshInv, KernelTypes, Scopes

(* The switch has decided the component C with the scopes X of its plugins, *)
(* of which Y are new.                                                     *)
Decided(C, X, Y) ==
    /\ op' \in SwitchOps /\ op'.want = op.want /\ op'.phase = op.phase
    /\ op'.todo = op.todo \ C /\ op'.next = op.next \cup X
    /\ op'.prepared = op.prepared \cup Y

(* A component that is decided keeps the kernel.                           *)
LEMMA DecidedKeeps ==
    ASSUME KernelInv, QueueInv', At("prepare"), NEW p \in op.todo,
           NEW C, C = Component[op.want][p], NEW X \in SUBSET Scopes, NEW Y \in SUBSET X,
           Decided(C, X, Y),
           live' = live \cup Y, X \subseteq running \cup Y, Single(X),
           \A s \in X : s.rev.plugin \in C, \A s \in Y : s.act = turn,
           Y # {} => C \cap WaitingPlugins[op.want] = {},
           UNCHANGED <<running, generation, degraded, failing, disposed, turn>>
    PROVE  KernelInv'
<1> DEFINE w == op.want
<1>1. InSwitch /\ ~InCleanup /\ op \in SwitchOps /\ op.phase = "prepare"
  BY OpIsTyped DEF At, InSwitch, InCleanup, KernelInv
<1>2. w \in Profiles /\ p \in Instances(w)
  BY <1>1 DEF KernelInv, SwitchInv, SwitchOps
<1>3. C \subseteq op.todo /\ C \subseteq Instances(w)
  BY <1>1, <1>2 DEF KernelInv, SwitchInv
<1>4. /\ op' \in SwitchOps /\ op'.want = w /\ op'.phase = "prepare" /\ op'.kind = "switch"
      /\ op'.todo = op.todo \ C /\ op'.next = op.next \cup X
      /\ op'.prepared = op.prepared \cup Y
  BY <1>1 DEF SwitchOps, Decided
<1>5. KernelTypes'
  BY <1>4 DEF KernelTypes, KernelInv, KernelOps
<1>6. InSwitch' /\ ~InCleanup'
  BY <1>4, NoOpAssumption DEF InSwitch, InCleanup, KernelOps
<1>7. FreshInv'
  BY <1>1, <1>4, <1>6 DEF KernelInv, FreshInv
<1>8. SwitchInv'
  <2>1. ASSUME NEW q \in op'.todo
        PROVE  Component[w][q] \subseteq op'.todo
    <3>1. q \in op.todo /\ q \notin C /\ q \in Instances(w)
      BY <1>1, <1>4, <2>1 DEF KernelInv, SwitchInv
    <3>2. Component[w][q] \cap C = {}
      BY <1>2, <3>1, ComponentsPart
    <3>3. Component[w][q] \subseteq op.todo
      BY <1>1, <3>1 DEF KernelInv, SwitchInv
    <3>4. QED
      BY <1>4, <3>2, <3>3
  <2>2. \A s \in op'.next \cup op'.prepared : s.rev.plugin \in Instances(w) \ op'.todo
    BY <1>1, <1>3, <1>4 DEF KernelInv, SwitchInv
  <2>3. Single(op'.next)
    <3>1. \A s \in op.next : s.rev.plugin \notin C
      BY <1>1, <1>3 DEF KernelInv, SwitchInv
    <3>2. Single(op.next)
      BY <1>1 DEF KernelInv, SwitchInv
    <3>3. QED
      BY <1>4, <3>1, <3>2 DEF Single
  <2>4. op'.next \subseteq running' \cup op'.prepared
    BY <1>1, <1>4 DEF KernelInv, SwitchInv
  <2>5. ASSUME NEW s \in op'.prepared
        PROVE  Component[w][s.rev.plugin] \cap WaitingPlugins[w] = {}
    <3>1. CASE s \in op.prepared
      BY <1>1, <3>1 DEF KernelInv, SwitchInv
    <3>2. CASE s \in Y
      <4>1. s.rev.plugin \in C /\ s.rev.plugin \in Instances(w)
        BY <1>3, <3>2
      <4>2. Component[w][s.rev.plugin] = C
        BY <1>2, <4>1, ComponentsPart
      <4>3. QED
        BY <3>2, <4>2
    <3>3. QED
      BY <1>4, <3>1, <3>2
  <2>6. op'.todo \subseteq Instances(w)
    BY <1>1, <1>4 DEF KernelInv, SwitchInv
  <2>7. QED
    BY <1>4, <2>1, <2>2, <2>3, <2>4, <2>5, <2>6 DEF SwitchInv
<1>9. LiveInv'
  <2>1. Candidates = op.prepared \cap op.next
    BY <1>1 DEF Candidates
  <2>2. Candidates' = op'.prepared \cap op'.next /\ Leaving' = {}
    BY <1>6 DEF Candidates, Leaving
  <2>3. op.prepared \cap running = {}
    BY <1>1, PreparedAreNew
  <2>4. QED
    BY <1>4, <2>1, <2>2, <2>3 DEF KernelInv, LiveInv
<1>10. QED
  BY <1>5, <1>7, <1>8, <1>9 DEF KernelInv, Single

(* What ran of a component and what is activated of it.                    *)
Kept(C) == UNION {Of(running, q) : q \in C}
Activated(C) == {NewScope(Wanted(op.want, q)) : q \in C}

(* What a component keeps or gets: one scope of a plugin, all of them its   *)
(* own.                                                                    *)
LEMMA ScopesOfComponent ==
    ASSUME KernelInv, InSwitch, NEW C \in SUBSET Instances(op.want)
    PROVE  /\ Kept(C) = {s \in running : s.rev.plugin \in C}
           /\ Activated(C) \subseteq Scopes /\ Single(Activated(C))
           /\ \A s \in Activated(C) : s.rev.plugin \in C /\ s.act = turn /\ s.rev \in op.want
           /\ \A r \in op.want : r.plugin \in C => NewScope(r) \in Activated(C)
<1>1. op.want \in Profiles
  BY PreparedAreNew
<1>2. Kept(C) = {s \in running : s.rev.plugin \in C}
  BY DEF Kept, Of
<1>3. \A q \in C : NewScope(Wanted(op.want, q)) \in Scopes
  BY <1>1, WantedIsWanted DEF NewScope, Scopes, KernelInv, KernelTypes
<1>4. \A q \in C : /\ NewScope(Wanted(op.want, q)).rev.plugin = q
                   /\ NewScope(Wanted(op.want, q)).act = turn
                   /\ NewScope(Wanted(op.want, q)).rev \in op.want
  BY <1>1, WantedIsWanted DEF NewScope
<1>5. Activated(C) \subseteq Scopes /\ Single(Activated(C))
  BY <1>3, <1>4 DEF Activated, Single
<1>6. \A s \in Activated(C) : s.rev.plugin \in C /\ s.act = turn /\ s.rev \in op.want
  BY <1>4 DEF Activated
<1>7. \A r \in op.want : r.plugin \in C => NewScope(r) \in Activated(C)
  BY <1>1, WantedIsWanted DEF Activated
<1>8. QED
  BY <1>2, <1>5, <1>6, <1>7

(* The ways in which a component C is prepared.                            *)
Decides(C, X, Y) ==
    /\ \/ X = {} /\ Y = {}
       \/ C \cap WaitingPlugins[op.want] = {} /\ X = Kept(C) /\ Y = {}
       \/ C \cap WaitingPlugins[op.want] = {} /\ X = Activated(C) /\ Y = Activated(C)
    /\ Decided(C, X, Y) /\ live' = live \cup Y

(* Preparing a component decides it in one of these ways.                  *)
LEMMA PreparedWays ==
    ASSUME KernelInv, PrepareComponent
    PROVE  \E p \in op.todo : \E X, Y : Decides(Component[op.want][p], X, Y)
<1>1. PICK p \in op.todo : Prepare(Component[op.want][p])
  BY DEF PrepareComponent
<1>2. PICK C : C = Component[op.want][p]
  OBVIOUS
<1>3. \/ Decided(C, {}, {}) /\ live' = live
      \/ /\ C \cap WaitingPlugins[op.want] = {}
         /\ \/ Decided(C, Kept(C), {}) /\ live' = live
            \/ Decided(C, Activated(C), Activated(C)) /\ live' = live \cup Activated(C)
  <2>1. InSwitch /\ op \in SwitchOps /\ C \subseteq Instances(op.want)
    BY <1>2, OpIsTyped DEF PrepareComponent, At, InSwitch, KernelInv, SwitchInv
  <2>2. Kept(C) \in SUBSET Scopes /\ Activated(C) \in SUBSET Scopes
    BY <2>1, ScopesOfComponent DEF KernelInv, KernelTypes
  <2> DEFINE Out(X, Y, f) == [op EXCEPT !.todo = @ \ C, !.next = @ \cup X,
                                        !.prepared = @ \cup Y, !.flawed = f]
  <2>3. ASSUME NEW X \in SUBSET Scopes, NEW Y \in SUBSET Scopes, NEW f \in BOOLEAN,
               op' = Out(X, Y, f)
        PROVE  Decided(C, X, Y)
    BY <2>1, <2>3 DEF Decided, SwitchOps
  <2>4. PICK f \in BOOLEAN : f = (op.flawed \/ FALSE)
    OBVIOUS
  <2>5. (op.flawed \/ TRUE) = TRUE
    OBVIOUS
  <2>6. \/ op' = Out({}, {}, TRUE) /\ live' = live
        \/ /\ C \cap WaitingPlugins[op.want] = {}
           /\ \/ op' = Out(Kept(C), {}, TRUE) /\ live' = live
              \/ op' = Out(Kept(C), {}, f) /\ live' = live
              \/ /\ op' = Out(Activated(C), Activated(C), f)
                 /\ live' = live \cup Activated(C)
    BY <1>1, <1>2, <2>4, <2>5 DEF Prepare, Kept, Activated
  <2> HIDE DEF Out
  <2>7. QED
    BY <2>2, <2>3, <2>6
<1>4. CASE Decided(C, {}, {}) /\ live' = live
  <2>1. Decides(C, {}, {})
    BY <1>4 DEF Decides
  <2>2. QED
    BY <1>2, <2>1
<1>5. CASE C \cap WaitingPlugins[op.want] = {} /\ Decided(C, Kept(C), {}) /\ live' = live
  <2>1. Decides(C, Kept(C), {})
    BY <1>5 DEF Decides
  <2>2. QED
    BY <1>2, <2>1
<1>6. CASE /\ C \cap WaitingPlugins[op.want] = {}
           /\ Decided(C, Activated(C), Activated(C)) /\ live' = live \cup Activated(C)
  <2>1. Decides(C, Activated(C), Activated(C))
    BY <1>6 DEF Decides
  <2>2. QED
    BY <1>2, <2>1
<1>7. QED
  BY <1>3, <1>4, <1>5, <1>6

(* The preparation of a component keeps the kernel.                        *)
LEMMA PrepareKeeps ==
    ASSUME KernelInv, QueueInv', PrepareComponent
    PROVE  KernelInv'
<1>1. PICK p \in op.todo : \E X, Y : Decides(Component[op.want][p], X, Y)
  BY PreparedWays
<1>2. PICK C : C = Component[op.want][p]
  OBVIOUS
<1>3. PICK X, Y : Decides(C, X, Y)
  BY <1>1, <1>2
<1>4. InSwitch /\ At("prepare")
  BY DEF PrepareComponent, At, InSwitch
<1>5. C \subseteq Instances(op.want)
  BY <1>2, <1>4 DEF KernelInv, SwitchInv
<1>6. (\A s \in X : s.rev.plugin \in C) /\ (\A s \in Y : s.act = turn)
  BY <1>3, <1>4, <1>5, ScopesOfComponent DEF Decides
<1>7. X \in SUBSET Scopes /\ Y \in SUBSET X /\ X \subseteq running \cup Y /\ Single(X)
  BY <1>3, <1>4, <1>5, ScopesOfComponent DEF Decides, Single, KernelInv, KernelTypes
<1>8. Y # {} => C \cap WaitingPlugins[op.want] = {}
  BY <1>3 DEF Decides
<1>9. Decided(C, X, Y) /\ live' = live \cup Y
  BY <1>3 DEF Decides
<1>10. UNCHANGED <<running, generation, degraded, failing, disposed, turn>>
  BY DEF PrepareComponent
<1>11. QED
  BY <1>2, <1>6, <1>4, <1>7, <1>8, <1>9, <1>10, DecidedKeeps

(* What a switch that is turned down disposes is not running.              *)
LEMMA CandidatesGo ==
    ASSUME KernelInv, InSwitch
    PROVE  running \subseteq live \ op.prepared /\ running \subseteq live
BY PreparedAreNew DEF KernelInv, LiveInv

(* The first validation keeps the kernel.                                  *)
LEMMA ValidateKeeps ==
    ASSUME KernelInv, QueueInv', Validate
    PROVE  KernelInv'
<1>1. InSwitch /\ op.todo = {} /\ op \in SwitchOps /\ ~InCleanup
  BY OpIsTyped DEF Validate, At, InSwitch, KernelInv
<1>2. UNCHANGED <<running, generation, degraded, failing, disposed, turn>>
  BY DEF Validate
<1>3. CASE Clash(op.next)
  BY <1>1, <1>2, <1>3, CandidatesGo, EndKeeps DEF Validate
<1>4. CASE ~Clash(op.next)
  <2>1. op' = [op EXCEPT !.phase = "commit"] /\ live' = live
    BY <1>4 DEF Validate
  <2>2. /\ op' \in SwitchOps /\ op'.kind = "switch" /\ op'.phase = "commit"
        /\ op'.want = op.want /\ op'.todo = op.todo /\ op'.next = op.next
        /\ op'.prepared = op.prepared
    BY <1>1, <2>1 DEF SwitchOps
  <2>3. InSwitch' /\ ~InCleanup'
    BY <2>2, NoOpAssumption DEF InSwitch, InCleanup, KernelOps
  <2>4. KernelTypes'
    BY <1>2, <2>1, <2>2 DEF KernelInv, KernelTypes, KernelOps
  <2>5. SwitchInv'
    BY <1>1, <1>2, <2>2 DEF KernelInv, SwitchInv, Single
  <2>6. FreshInv' /\ LiveInv' /\ Single(running)'
    BY <1>1, <1>2, <2>1, <2>2, <2>3
    DEF KernelInv, FreshInv, LiveInv, Candidates, Leaving, Single
  <2>7. QED
    BY <2>4, <2>5, <2>6 DEF KernelInv
<1>5. QED
  BY <1>3, <1>4

(* A commit keeps the kernel.                                              *)
LEMMA CommitKeeps ==
    ASSUME KernelInv, QueueInv', NEW c \in live, CommitScope(c)
    PROVE  KernelInv'
<1>1. InSwitch /\ op \in SwitchOps /\ ~InCleanup /\ c \in Scopes
  BY OpIsTyped DEF CommitScope, At, InSwitch, KernelInv, KernelTypes
<1>2. UNCHANGED <<running, generation, degraded, live, failing, disposed, turn>>
  BY DEF CommitScope
<1>3. op' = [op EXCEPT !.committed = @ \cup {c}]
  BY DEF CommitScope
<1>4. /\ op' \in SwitchOps /\ op'.kind = "switch" /\ op'.phase = op.phase
      /\ op'.want = op.want /\ op'.todo = op.todo /\ op'.next = op.next
      /\ op'.prepared = op.prepared
  BY <1>1, <1>3 DEF SwitchOps
<1>5. InSwitch' /\ ~InCleanup'
  BY <1>4, NoOpAssumption DEF InSwitch, InCleanup, KernelOps
<1>6. KernelTypes'
  BY <1>2, <1>4 DEF KernelInv, KernelTypes, KernelOps
<1>7. SwitchInv'
  BY <1>1, <1>2, <1>4 DEF KernelInv, SwitchInv, Single
<1>8. FreshInv' /\ LiveInv' /\ Single(running)'
  BY <1>1, <1>2, <1>4, <1>5 DEF KernelInv, FreshInv, LiveInv, Candidates, Leaving, Single
<1>9. QED
  BY <1>6, <1>7, <1>8 DEF KernelInv

(* A component whose commit fails goes back to what ran before.            *)
LEMMA CommitFailsKeeps ==
    ASSUME KernelInv, QueueInv', NEW c \in live, CommitFails(c)
    PROVE  KernelInv'
<1>1. PICK C : C = Component[op.want][c.rev.plugin]
  OBVIOUS
<1>2. /\ InSwitch /\ op \in SwitchOps /\ ~InCleanup /\ op.phase = "commit"
      /\ c \in op.prepared /\ op.want \in Profiles
  BY OpIsTyped, PreparedAreNew DEF CommitFails, ToCommit, At, InSwitch, KernelInv
<1>3. c.rev.plugin \in Instances(op.want) /\ op.todo = {}
  BY <1>2 DEF KernelInv, SwitchInv
<1>4. C \subseteq Instances(op.want)
  BY <1>1, <1>2, <1>3, ComponentIsLeast
<1>5. PICK back : back = {t \in op.next : t.rev.plugin \notin C} \cup Kept(C)
  OBVIOUS
<1>6. /\ op' = [op EXCEPT !.next = back, !.flawed = TRUE]
      /\ live' = live \ {t \in op.prepared : t.rev.plugin \in C}
      /\ UNCHANGED <<running, generation, degraded, failing, disposed, turn>>
  BY <1>1, <1>2, <1>5 DEF CommitFails, Kept, Rollback
<1>7. Kept(C) = {s \in running : s.rev.plugin \in C}
  BY <1>2, <1>4, ScopesOfComponent
<1>8. back \subseteq Scopes
  BY <1>2, <1>5, <1>7, PreparedAreNew DEF KernelInv, KernelTypes
<1>9. /\ op' \in SwitchOps /\ op'.kind = "switch" /\ op'.phase = op.phase
      /\ op'.want = op.want /\ op'.todo = op.todo /\ op'.next = back
      /\ op'.prepared = op.prepared
  BY <1>2, <1>6, <1>8 DEF SwitchOps
<1>10. InSwitch' /\ ~InCleanup'
  BY <1>9, NoOpAssumption DEF InSwitch, InCleanup, KernelOps
<1>11. KernelTypes'
  BY <1>6, <1>9 DEF KernelInv, KernelTypes, KernelOps
<1>12. SwitchInv'
  <2>1. \A s \in back \cup op.prepared : s.rev.plugin \in Instances(op.want) \ op.todo
    BY <1>2, <1>3, <1>4, <1>5, <1>7 DEF KernelInv, SwitchInv
  <2>2. Single(back)
    BY <1>2, <1>5, <1>7 DEF KernelInv, SwitchInv, Single
  <2>3. back \subseteq running \cup op.prepared
    BY <1>2, <1>5, <1>7 DEF KernelInv, SwitchInv
  <2>4. QED
    BY <1>2, <1>6, <1>9, <2>1, <2>2, <2>3 DEF KernelInv, SwitchInv, Single
<1>13. FreshInv' /\ Single(running)'
  BY <1>2, <1>6, <1>9 DEF KernelInv, FreshInv, Single
<1>14. LiveInv'
  <2>1. op.prepared \cap running = {}
    BY <1>2, PreparedAreNew
  <2>2. Candidates = op.prepared \cap op.next /\ Candidates' = op.prepared \cap back
    BY <1>2, <1>9, <1>10 DEF Candidates
  <2>3. Leaving' = {}
    BY <1>10 DEF Leaving
  <2>4. QED
    BY <1>5, <1>6, <1>7, <2>1, <2>2, <2>3 DEF KernelInv, LiveInv
<1>15. QED
  BY <1>11, <1>12, <1>13, <1>14 DEF KernelInv

(* A switch that is turned down keeps the kernel.                          *)
LEMMA RejectKeeps ==
    ASSUME KernelInv, QueueInv', Reject
    PROVE  KernelInv'
<1>1. InSwitch
  BY DEF Reject, At, InSwitch
<1>2. QED
  BY <1>1, CandidatesGo, EndKeeps DEF Reject

(* The new generation is published, and what it replaced is to be disposed.*)
LEMMA PublishKeeps ==
    ASSUME KernelInv, QueueInv', Publish
    PROVE  KernelInv'
<1>1. PICK gone : gone = running \ op.next
  OBVIOUS
<1>2. InSwitch /\ op \in SwitchOps /\ op.next \subseteq Scopes
  BY OpIsTyped, PreparedAreNew DEF Publish, At, InSwitch, KernelInv
<1>3. /\ running' = op.next /\ generation' = generation + 1 /\ degraded' = op.flawed
      /\ op' = [kind |-> "cleanup", gone |-> gone]
      /\ UNCHANGED <<live, failing, disposed, turn>>
  BY <1>1 DEF Publish, Superseded
<1>4. op' \in KernelOps /\ op'.kind = "cleanup" /\ op'.gone = gone
  BY <1>1, <1>3 DEF KernelInv, KernelTypes, KernelOps
<1>5. InCleanup' /\ ~InSwitch'
  BY <1>4, NoOpAssumption DEF InCleanup, InSwitch
<1>6. KernelTypes'
  BY <1>2, <1>3, <1>4 DEF KernelInv, KernelTypes, SwitchOps
<1>7. Single(running)'
  BY <1>2, <1>3 DEF KernelInv, SwitchInv, Single
<1>8. FreshInv'
  BY <1>2, <1>3, <1>5 DEF KernelInv, SwitchInv, FreshInv, KernelTypes, Scopes
<1>9. SwitchInv'
  BY <1>5 DEF SwitchInv
<1>10. LiveInv'
  <2>1. op.next \subseteq live
    BY <1>2 DEF KernelInv, SwitchInv, LiveInv, Candidates
  <2>2. Candidates' = {} /\ Leaving' = gone
    BY <1>4, <1>5 DEF Candidates, Leaving
  <2>3. QED
    BY <1>1, <1>3, <2>1, <2>2 DEF LiveInv
<1>11. QED
  BY <1>6, <1>7, <1>8, <1>9, <1>10 DEF KernelInv

-----------------------------------------------------------------------------
(* Failures, shutdown, patches *)

(* Scopes that leave the generation are to be disposed.                    *)
LEMMA LeavingKeeps ==
    ASSUME KernelInv, QueueInv', NEW gone \in SUBSET running,
           running' = running \ gone, op' = [kind |-> "cleanup", gone |-> gone],
           generation' \in Nat, degraded' \in BOOLEAN, disposed' \in BOOLEAN, op = NoOp,
           UNCHANGED <<live, failing, turn>>
    PROVE  KernelInv'
<1>1. op' \in KernelOps /\ op'.kind = "cleanup" /\ op'.gone = gone
  BY DEF KernelInv, KernelTypes, KernelOps
<1>2. InCleanup' /\ ~InSwitch'
  BY <1>1, NoOpAssumption DEF InCleanup, InSwitch
<1>3. KernelTypes'
  BY <1>1 DEF KernelInv, KernelTypes
<1>4. Single(running)' /\ FreshInv' /\ SwitchInv'
  BY <1>2 DEF KernelInv, Single, FreshInv, SwitchInv
<1>5. LiveInv'
  BY <1>1, <1>2 DEF KernelInv, LiveInv, Candidates, Leaving
<1>6. QED
  BY <1>3, <1>4, <1>5 DEF KernelInv

(* The failure of a running activation takes with it those that need what   *)
(* it provides, and nothing else: it is the only scope of its plugin.      *)
LEMMA FailureTakes ==
    ASSUME KernelInv, RuntimeFailure
    PROVE  \/ op' = NoOp /\ UNCHANGED <<running, generation, degraded>>
           \/ \E s \in failing \cap running :
                 /\ running' = running \ Removed(s)
                 /\ generation' = generation + 1 /\ degraded' = TRUE
                 /\ op' = [kind |-> "cleanup", gone |-> Removed(s)]
<1>1. PICK s : s = Head(waiting).scope
  OBVIOUS
<1>2. s \in failing
  BY <1>1, HeadIsCall DEF KernelInv, RuntimeFailure, Take, Idle
<1>3. CASE ~disposed /\ Concerns(s)
  <2>1. s \in running
    BY <1>3 DEF Concerns
  <2>2. Of(running, s.rev.plugin) = {s}
    BY <2>1 DEF Of, KernelInv, Single
  <2>3. UNION {Removed(t) : t \in Of(running, s.rev.plugin)} = Removed(s)
    BY <2>2
  <2>4. QED
    BY <1>1, <1>2, <1>3, <2>1, <2>3 DEF RuntimeFailure
<1>4. CASE ~(~disposed /\ Concerns(s))
  BY <1>1, <1>4 DEF RuntimeFailure
<1>5. QED
  BY <1>3, <1>4

(* A failure keeps the kernel.                                             *)
LEMMA FailureKeeps ==
    ASSUME KernelInv, QueueInv', RuntimeFailure
    PROVE  KernelInv'
<1>1. op = NoOp /\ UNCHANGED <<live, failing, disposed, turn>>
  BY DEF RuntimeFailure, Take, Idle
<1>2. CASE op' = NoOp /\ UNCHANGED <<running, generation, degraded>>
  BY <1>1, <1>2, EndKeeps DEF KernelInv, LiveInv
<1>3. CASE \E s \in failing \cap running :
               /\ running' = running \ Removed(s)
               /\ generation' = generation + 1 /\ degraded' = TRUE
               /\ op' = [kind |-> "cleanup", gone |-> Removed(s)]
  <2>1. PICK s \in failing \cap running :
               /\ running' = running \ Removed(s)
               /\ generation' = generation + 1 /\ degraded' = TRUE
               /\ op' = [kind |-> "cleanup", gone |-> Removed(s)]
    BY <1>3
  <2>2. Removed(s) \in SUBSET running
    BY DEF Removed
  <2>3. generation' \in Nat /\ degraded' \in BOOLEAN /\ disposed' \in BOOLEAN
    BY <1>1, <2>1 DEF KernelInv, KernelTypes
  <2>4. QED
    BY <1>1, <2>1, <2>2, <2>3, LeavingKeeps
<1>4. QED
  BY <1>2, <1>3, FailureTakes

(* dispose() keeps the kernel.                                             *)
LEMMA DisposeKeeps ==
    ASSUME KernelInv, QueueInv', Dispose
    PROVE  KernelInv'
<1>1. /\ op = NoOp /\ running' = running \ running /\ disposed' \in BOOLEAN
      /\ op' = [kind |-> "cleanup", gone |-> running]
      /\ UNCHANGED <<generation, degraded, live, failing, turn>>
  BY DEF Dispose, Take, Idle
<1>2. generation' \in Nat /\ degraded' \in BOOLEAN
  BY <1>1 DEF KernelInv, KernelTypes
<1>3. QED
  BY <1>1, <1>2, LeavingKeeps

(* The cleanup of what left the generation keeps the kernel.               *)
LEMMA CleanupKeeps ==
    ASSUME KernelInv, QueueInv', Cleanup
    PROVE  KernelInv'
<1>1. running \subseteq live \ op.gone
  BY DEF Cleanup, KernelInv, LiveInv, Leaving, InCleanup
<1>2. QED
  BY <1>1, EndKeeps DEF Cleanup

(* A source patch keeps the kernel.                                        *)
LEMMA PatchKeeps ==
    ASSUME KernelInv, QueueInv', BeginPatch \/ EndPatch
    PROVE  KernelInv'
<1>1. running \subseteq live
  BY DEF KernelInv, LiveInv
<1>2. CASE op' = NoOp
  BY <1>1, <1>2, EndKeeps DEF BeginPatch, EndPatch
<1>3. CASE op' # NoOp
  <2>1. /\ op' = [kind |-> "patch", expect |-> generation] /\ op = NoOp
        /\ UNCHANGED <<running, generation, degraded, live, failing, disposed, turn>>
    BY <1>3 DEF BeginPatch, EndPatch, Take, Idle
  <2>2. op' \in KernelOps /\ op'.kind = "patch"
    BY <2>1 DEF KernelInv, KernelTypes, KernelOps
  <2>3. ~InSwitch' /\ ~InCleanup'
    BY <2>2 DEF InSwitch, InCleanup
  <2>4. QED
    BY <2>1, <2>2, <2>3
    DEF KernelInv, KernelTypes, Single, FreshInv, SwitchInv, LiveInv, Candidates, Leaving
<1>4. QED
  BY <1>2, <1>3

(* Every step keeps the invariant of the kernel.                           *)
LEMMA KernelStep ==
    ASSUME KernelInv, KernelNext
    PROVE  KernelInv'
<1>1. QueueInv'
  BY QueueStep
<1>2. ASSUME NEW w \in Profiles, Call([kind |-> "switch", want |-> w])
      PROVE  KernelInv'
  BY <1>1, <1>2, CallKeepsKernel DEF Call, KernelInv, KernelTypes
<1>3. CASE CallDispose \/ CallPatch
  BY <1>1, <1>3, CallKeepsKernel DEF CallDispose, CallPatch, Call, KernelInv, KernelTypes
<1>4. ASSUME NEW s \in live, Fail(s)
      PROVE  KernelInv'
  BY <1>1, <1>4, CallKeepsKernel DEF Fail, KernelInv, KernelTypes
<1>5. CASE BeginSwitch \/ PrepareComponent \/ Validate \/ Reject \/ Publish
  BY <1>1, <1>5, BeginSwitchKeeps, PrepareKeeps, ValidateKeeps, RejectKeeps, PublishKeeps
<1>6. CASE Cleanup \/ RuntimeFailure \/ Dispose \/ BeginPatch \/ EndPatch
  BY <1>1, <1>6, CleanupKeeps, FailureKeeps, DisposeKeeps, PatchKeeps
<1>7. ASSUME NEW s \in live, CommitScope(s) \/ CommitFails(s)
      PROVE  KernelInv'
  BY <1>1, <1>7, CommitKeeps, CommitFailsKeeps
<1>8. QED
  BY <1>2, <1>3, <1>4, <1>5, <1>6, <1>7 DEF KernelNext, Runtime, CallSwitch

(* The invariant holds at the start.                                       *)
LEMMA KernelStart ==
    ASSUME KernelInit
    PROVE  KernelInv
<1>1. ~InSwitch /\ ~InCleanup
  BY DEF KernelInit, InSwitch, InCleanup
<1>2. QueueInv
  BY DEF KernelInit, QueueInv
<1>3. KernelTypes /\ Single(running) /\ FreshInv /\ SwitchInv /\ LiveInv
  BY <1>1
  DEF KernelInit, KernelTypes, Single, FreshInv, SwitchInv, LiveInv, Candidates, Leaving
<1>4. QED
  BY <1>2, <1>3 DEF KernelInv

(* The invariant of the kernel holds.                                      *)
LEMMA KernelInvariant == KernelSpec => []KernelInv
<1>1. KernelInv /\ [KernelNext]_kernelVars => KernelInv'
  <2>1. ASSUME KernelInv, UNCHANGED kernelVars
        PROVE  KernelInv'
    BY <2>1 DEF kernelVars, KernelInv, QueueInv, KernelTypes, Single, FreshInv, SwitchInv,
                LiveInv, InSwitch, InCleanup, Candidates, Leaving
  <2>2. QED
    BY <2>1, KernelStep
<1>2. QED
  BY <1>1, KernelStart, PTL DEF KernelSpec

(* The kernel's generation, operation and scopes keep their types, whatever *)
(* the profiles are and however many calls and failures there are.         *)
THEOREM PluginTypeCorrect == KernelSpec => []PluginTypeOK
<1>1. KernelInv => PluginTypeOK
  BY DEF KernelInv, KernelTypes, Single, PluginTypeOK, KernelOps, SwitchOps
<1>2. QED
  BY <1>1, KernelInvariant, PTL

(* A plugin of the current generation has its effects: no rejected switch,  *)
(* rolled back component or cleanup of a replaced generation disposes them, *)
(* also when contributions move from one plugin to another.                *)
THEOREM ActivePluginsLive == KernelSpec => []ActiveIsLive
<1>1. KernelInv => ActiveIsLive
  BY DEF KernelInv, LiveInv, ActiveIsLive
<1>2. QED
  BY <1>1, KernelInvariant, PTL

(* lifecycle.fail takes out of the generation the activation that called it *)
(* and, transitively, those that require what it provides: a plugin that    *)
(* leaves outside a switch and a shutdown is one of them.                  *)
THEOREM FailureStaysContained == KernelSpec => FailureIsContained
<1> DEFINE Blamed(s) == \/ At("commit") \/ disposed'
                        \/ \E t \in failing \cap running : s \in Removed(t)
<1>1. ASSUME KernelInv, KernelNext, NEW s \in running \ running'
      PROVE  Blamed(s)
  <2>1. CASE running' = running
    BY <1>1, <2>1
  <2>2. CASE Publish \/ Dispose
    BY <2>2 DEF Publish, Dispose
  <2>3. CASE RuntimeFailure
    <3>1. PICK t \in failing \cap running : running' = running \ Removed(t)
      BY <1>1, <2>3, FailureTakes
    <3>2. QED
      BY <1>1, <3>1
  <2>4. CASE CallSwitch \/ CallDispose \/ CallPatch \/ BeginSwitch \/ BeginPatch \/ EndPatch
    BY <1>1, <2>4 DEF CallSwitch, CallDispose, CallPatch, Call, BeginSwitch, BeginPatch, EndPatch
  <2>5. CASE PrepareComponent \/ Validate \/ Reject \/ Cleanup
    BY <1>1, <2>5 DEF PrepareComponent, Validate, Reject, Cleanup
  <2>6. ASSUME NEW t \in live, Fail(t) \/ CommitScope(t) \/ CommitFails(t)
        PROVE  running' = running
    BY <2>6 DEF Fail, CommitScope, CommitFails
  <2>7. QED
    BY <1>1, <2>1, <2>2, <2>3, <2>4, <2>5, <2>6 DEF KernelNext, Runtime
<1>2. KernelInv /\ [KernelNext]_kernelVars =>
          [\A s \in running \ running' : Blamed(s)]_kernelVars
  BY <1>1
<1>3. QED
  BY <1>2, KernelInvariant, PTL DEF KernelSpec, FailureIsContained

-----------------------------------------------------------------------------
(* What is left behind *)

(* No contribution moves from one plugin to another.  Where one does, a     *)
(* second validation can throw with committed candidates in place: that is  *)
(* what NothingLeft is violated by in the code, and not assumed away.      *)
SteadyContributions ==
    \A r, s \in Revisions : r.plugin # s.plugin =>
        r.provides \cap s.provides = {} /\ r.claims \cap s.claims = {}

(* What exists runs, is about to run or is about to be disposed.           *)
LeftInv == live \subseteq running \cup Candidates \cup Leaving

(* Without moving contributions a new generation does not clash.           *)
LEMMA NextDoesNotClash ==
    ASSUME SteadyContributions, KernelInv, InSwitch
    PROVE  ~Clash(op.next)
<1>1. op.next \subseteq Scopes /\ Single(op.next)
  BY PreparedAreNew DEF KernelInv, SwitchInv
<1>2. \A s \in op.next : s.rev \in Revisions
  BY <1>1 DEF Scopes
<1>3. ASSUME NEW s \in op.next, NEW t \in op.next, s # t
      PROVE  /\ s.rev.provides \cap t.rev.provides = {}
             /\ s.rev.claims \cap t.rev.claims = {}
  <2>1. s.rev.plugin # t.rev.plugin
    BY <1>1, <1>3 DEF Single
  <2>2. QED
    BY <1>2, <2>1 DEF SteadyContributions
<1>4. QED
  BY <1>3 DEF Clash

(* While no switch and no cleanup runs, what exists runs.                  *)
LEMMA LeftAtRest ==
    ASSUME LeftInv, ~InSwitch, ~InCleanup
    PROVE  live \subseteq running
BY DEF LeftInv, Candidates, Leaving

(* What a switch may leave behind.                                         *)
LEMMA LeftInSwitch ==
    ASSUME LeftInv, KernelInv, InSwitch
    PROVE  live \subseteq running \cup (op.prepared \cap op.next)
BY OpIsTyped DEF LeftInv, Candidates, Leaving, KernelInv

(* A step of a switch after its first.                                     *)
SwitchStep ==
    \/ PrepareComponent \/ Validate \/ Reject \/ Publish
    \/ \E s \in live : CommitScope(s) \/ CommitFails(s)

(* It leaves nothing behind.                                               *)
LEMMA SwitchLeaves ==
    ASSUME KernelInv, LeftInv, SteadyContributions, SwitchStep
    PROVE  LeftInv'
<1>1. InSwitch
  <2>1. CASE PrepareComponent \/ Validate \/ Reject \/ Publish
    BY <2>1 DEF PrepareComponent, Validate, Reject, Publish, At, InSwitch
  <2>2. ASSUME NEW s \in live, CommitScope(s)
        PROVE  InSwitch
    BY <2>2 DEF CommitScope, At, InSwitch
  <2>3. ASSUME NEW s \in live, CommitFails(s)
        PROVE  InSwitch
    BY <2>3 DEF CommitFails, At, InSwitch
  <2>4. QED
    BY <2>1, <2>2, <2>3 DEF SwitchStep
<1>2. live \subseteq running \cup (op.prepared \cap op.next) /\ op \in SwitchOps
  BY <1>1, LeftInSwitch, PreparedAreNew
<1>3. ASSUME op' \in SwitchOps
      PROVE  Candidates' = op'.prepared \cap op'.next
  BY <1>3, NoOpAssumption DEF Candidates, InSwitch, KernelOps, SwitchOps
<1>4. CASE PrepareComponent
  <2>1. PICK p \in op.todo : \E X, Y : Decides(Component[op.want][p], X, Y)
    BY <1>4, PreparedWays
  <2>2. PICK X, Y : Decides(Component[op.want][p], X, Y)
    BY <2>1
  <2>3. /\ op' \in SwitchOps /\ op'.next = op.next \cup X /\ op'.prepared = op.prepared \cup Y
        /\ live' = live \cup Y /\ Y \subseteq X
    BY <2>2 DEF Decides, Decided
  <2>4. running' = running
    BY <1>4 DEF PrepareComponent
  <2>5. QED
    BY <1>2, <1>3, <2>3, <2>4 DEF LeftInv
<1>5. CASE Validate \/ Reject
  <2>1. CASE op' = NoOp
    <3>1. live' = live \ op.prepared /\ running' = running
      BY <1>1, <1>2, <1>5, <2>1, NextDoesNotClash, NoOpAssumption
      DEF Validate, Reject, SwitchOps, KernelOps
    <3>2. QED
      BY <1>2, <3>1 DEF LeftInv
  <2>2. CASE op' # NoOp
    <3>1. /\ op' = [op EXCEPT !.phase = "commit"]
          /\ live' = live /\ running' = running
      BY <1>5, <2>2 DEF Validate, Reject
    <3>2. op' \in SwitchOps /\ op'.next = op.next /\ op'.prepared = op.prepared
      BY <1>2, <3>1 DEF SwitchOps
    <3>3. QED
      BY <1>2, <1>3, <3>1, <3>2 DEF LeftInv
  <2>3. QED
    BY <2>1, <2>2
<1>6. CASE Publish
  <2>1. /\ running' = op.next /\ op' = [kind |-> "cleanup", gone |-> running \ op.next]
        /\ live' = live
    BY <1>6 DEF Publish, Superseded
  <2>2. op' \in KernelOps /\ op'.kind = "cleanup" /\ op'.gone = running \ op.next
    BY <2>1 DEF KernelInv, KernelTypes, KernelOps
  <2>3. Leaving' = running \ op.next
    BY <2>2, NoOpAssumption DEF Leaving, InCleanup
  <2>4. QED
    BY <1>2, <2>1, <2>3 DEF LeftInv
<1>7. ASSUME NEW c \in live, CommitScope(c)
      PROVE  LeftInv'
  <2>1. /\ op' = [op EXCEPT !.committed = @ \cup {c}]
        /\ live' = live /\ running' = running
    BY <1>7 DEF CommitScope
  <2>2. op' \in SwitchOps /\ op'.next = op.next /\ op'.prepared = op.prepared
    BY <1>2, <2>1 DEF SwitchOps, KernelInv, KernelTypes
  <2>3. QED
    BY <1>2, <1>3, <2>1, <2>2 DEF LeftInv
<1>8. ASSUME NEW c \in live, CommitFails(c)
      PROVE  LeftInv'
  <2>1. PICK C : C = Component[op.want][c.rev.plugin]
    OBVIOUS
  <2>2. PICK back : back = {t \in op.next : t.rev.plugin \notin C} \cup Kept(C)
    OBVIOUS
  <2>3. /\ op' = [op EXCEPT !.next = back, !.flawed = TRUE]
        /\ live' = live \ {t \in op.prepared : t.rev.plugin \in C}
        /\ running' = running
    BY <1>8, <2>1, <2>2 DEF CommitFails, Kept, Rollback
  <2>4. back \subseteq Scopes
    BY <1>1, <2>2, PreparedAreNew DEF Kept, Of, KernelInv, KernelTypes
  <2>5. op' \in SwitchOps /\ op'.next = back /\ op'.prepared = op.prepared
    BY <1>2, <2>3, <2>4 DEF SwitchOps
  <2>6. QED
    BY <1>2, <1>3, <2>2, <2>3, <2>5 DEF LeftInv
<1>9. QED
  BY <1>4, <1>5, <1>6, <1>7, <1>8 DEF SwitchStep

(* Neither does any other step.                                            *)
LEMMA LeftStep ==
    ASSUME KernelInv, LeftInv, SteadyContributions, KernelNext
    PROVE  LeftInv'
<1>1. CASE UNCHANGED <<op, running, live>>
  BY <1>1 DEF LeftInv, Candidates, Leaving, InSwitch, InCleanup
<1>2. CASE CallSwitch \/ CallDispose \/ CallPatch
  BY <1>1, <1>2 DEF CallSwitch, CallDispose, CallPatch, Call
<1>3. ASSUME NEW s \in live, Fail(s)
      PROVE  LeftInv'
  BY <1>1, <1>3 DEF Fail
<1>4. ASSUME op = NoOp
      PROVE  live \subseteq running
  BY <1>4, LeftAtRest DEF InSwitch, InCleanup
<1>5. CASE BeginSwitch \/ BeginPatch
  <2>1. op = NoOp /\ live' = live /\ running' = running
    BY <1>5 DEF BeginSwitch, BeginPatch, Take, Idle
  <2>2. QED
    BY <1>4, <2>1 DEF LeftInv
<1>6. CASE EndPatch
  <2>1. ~InSwitch /\ ~InCleanup /\ live' = live /\ running' = running
    BY <1>6 DEF EndPatch, InSwitch, InCleanup
  <2>2. QED
    BY <2>1, LeftAtRest DEF LeftInv
<1>7. CASE Cleanup
  <2>1. live \subseteq running \cup op.gone
    BY <1>7 DEF LeftInv, Candidates, Leaving, Cleanup, InSwitch, InCleanup
  <2>2. QED
    BY <1>7, <2>1 DEF Cleanup, LeftInv
<1>8. ASSUME op = NoOp, live' = live, NEW gone \in SUBSET running, running' = running \ gone,
             op' = [kind |-> "cleanup", gone |-> gone]
      PROVE  LeftInv'
  <2>1. op' \in KernelOps /\ op'.kind = "cleanup" /\ op'.gone = gone
    BY <1>8 DEF KernelInv, KernelTypes, KernelOps
  <2>2. Leaving' = gone
    BY <2>1, NoOpAssumption DEF Leaving, InCleanup
  <2>3. QED
    BY <1>4, <1>8, <2>2 DEF LeftInv
<1>9. CASE RuntimeFailure
  <2>1. op = NoOp /\ live' = live
    BY <1>9 DEF RuntimeFailure, Take, Idle
  <2>2. CASE op' = NoOp /\ running' = running
    BY <1>4, <2>1, <2>2 DEF LeftInv
  <2>3. CASE \E s \in failing \cap running :
                 /\ running' = running \ Removed(s)
                 /\ op' = [kind |-> "cleanup", gone |-> Removed(s)]
    BY <1>8, <2>1, <2>3 DEF Removed
  <2>4. QED
    BY <1>9, <2>2, <2>3, FailureTakes
<1>10. CASE Dispose
  <2>1. /\ op = NoOp /\ live' = live /\ running' = running \ running
        /\ op' = [kind |-> "cleanup", gone |-> running]
    BY <1>10 DEF Dispose, Take, Idle
  <2>2. QED
    BY <1>8, <2>1
<1>11. QED
  BY <1>2, <1>3, <1>5, <1>6, <1>7, <1>9, <1>10, SwitchLeaves DEF KernelNext, Runtime, SwitchStep

(* Between two operations nothing exists that belongs to no active plugin,  *)
(* whichever activations and commits failed: nothing of a rejected,         *)
(* replaced or removed plugin is left, unless contributions move.          *)
THEOREM NothingIsLeft == ASSUME SteadyContributions PROVE KernelSpec => []NothingLeft
<1>1. KernelInit => LeftInv
  BY DEF KernelInit, LeftInv
<1>2. KernelInv /\ LeftInv /\ [KernelNext]_kernelVars => LeftInv'
  <2>1. ASSUME LeftInv, UNCHANGED kernelVars
        PROVE  LeftInv'
    BY <2>1 DEF kernelVars, LeftInv, Candidates, Leaving, InSwitch, InCleanup
  <2>2. QED
    BY <2>1, LeftStep
<1>3. KernelInv /\ LeftInv => NothingLeft
  BY LeftAtRest DEF NothingLeft, KernelInv, LiveInv, InSwitch, InCleanup
<1>4. QED
  BY <1>1, <1>2, <1>3, KernelInvariant, PTL DEF KernelSpec

-----------------------------------------------------------------------------
(* What an active plugin requires *)

(* What any revision of a plugin of a component requires is provided by     *)
(* revisions of plugins of the component only, in every profile in which    *)
(* the component can start.  Otherwise an activation that fails keeps an    *)
(* old plugin whose provider the profile has moved elsewhere or dropped.   *)
SteadyRequirements ==
    \A w \in Profiles : \A p \in Instances(w) :
        Component[w][p] \cap WaitingPlugins[w] = {} =>
            \A r, s \in Revisions :
                r.plugin \in Component[w][p] /\ r.requires \cap s.provides # {}
                    => s.plugin \in Component[w][p]

(* The scopes of S have what s requires in the component of s.             *)
Served(w, s, S) ==
    \A c \in s.rev.requires :
        \E t \in S : t.rev.plugin \in Component[w][s.rev.plugin] /\ c \in t.rev.provides

ServedInv ==
    RequiresServed /\ (InSwitch => \A s \in op.next : Served(op.want, s, op.next))

(* Who provides a capability.                                              *)
LEMMA RequiresServedMeans ==
    RequiresServed <=> \A s \in running : \A c \in s.rev.requires :
                           \E t \in running : c \in t.rev.provides
BY DEF RequiresServed, Provides

(* A plugin that does not wait has a provider of all that it requires.     *)
LEMMA NotWaitingIsProvided ==
    ASSUME NEW w \in Profiles, NEW r \in w, r.plugin \notin WaitingPlugins[w],
           NEW c \in r.requires
    PROVE  \E s \in w : c \in s.provides
<1> DEFINE Stuck(S) == \A q \in w : Unmet(w, q, S) => q.plugin \in S
<1>1. WaitingPlugins[w] = {p \in Instances(w) : \A S \in SUBSET Instances(w) :
                               Stuck(S) => p \in S}
  BY DEF WaitingPlugins
<1>2. PICK S \in SUBSET Instances(w) : Stuck(S) /\ r.plugin \notin S
  BY <1>1 DEF Instances
<1>3. ~Unmet(w, r, S)
  BY <1>2
<1>4. QED
  BY <1>3 DEF Unmet

(* What ran of a component that can start has what it requires.            *)
LEMMA KeptIsServed ==
    ASSUME SteadyRequirements, KernelInv, RequiresServed, InSwitch,
           NEW p \in Instances(op.want), NEW C, C = Component[op.want][p],
           C \cap WaitingPlugins[op.want] = {}, NEW s \in Kept(C)
    PROVE  Served(op.want, s, Kept(C))
<1>1. op.want \in Profiles
  BY PreparedAreNew
<1>2. C \subseteq Instances(op.want)
  BY <1>1, ComponentIsLeast
<1>3. Kept(C) = {t \in running : t.rev.plugin \in C}
  BY <1>2, ScopesOfComponent
<1>4. s \in running /\ s.rev.plugin \in C /\ s.rev \in Revisions
  BY <1>3 DEF KernelInv, KernelTypes, Scopes
<1>5. Component[op.want][s.rev.plugin] = C
  BY <1>1, <1>2, <1>4, ComponentsPart
<1>6. ASSUME NEW c \in s.rev.requires
      PROVE  \E t \in Kept(C) : t.rev.plugin \in C /\ c \in t.rev.provides
  <2>1. PICK t \in running : c \in t.rev.provides
    BY <1>4, <1>6, RequiresServedMeans
  <2>2. t.rev \in Revisions
    BY DEF KernelInv, KernelTypes, Scopes
  <2>3. t.rev.plugin \in C
    BY <1>1, <1>4, <1>6, <2>1, <2>2 DEF SteadyRequirements
  <2>4. QED
    BY <1>3, <2>1, <2>3
<1>7. QED
  BY <1>5, <1>6 DEF Served

(* What is activated of a component has what it requires.                  *)
LEMMA ActivatedIsServed ==
    ASSUME KernelInv, InSwitch,
           NEW p \in Instances(op.want), NEW C, C = Component[op.want][p],
           C \cap WaitingPlugins[op.want] = {}, NEW s \in Activated(C)
    PROVE  Served(op.want, s, Activated(C))
<1>1. op.want \in Profiles
  BY PreparedAreNew
<1>2. C \subseteq Instances(op.want) /\ Closed(op.want, C)
  BY <1>1, ComponentIsLeast
<1>3. s.rev.plugin \in C /\ s.rev \in op.want
  BY <1>2, ScopesOfComponent
<1>4. Component[op.want][s.rev.plugin] = C
  BY <1>1, <1>2, <1>3, ComponentsPart
<1>5. ASSUME NEW c \in s.rev.requires
      PROVE  \E t \in Activated(C) : t.rev.plugin \in C /\ c \in t.rev.provides
  <2>1. s.rev.plugin \notin WaitingPlugins[op.want]
    BY <1>3
  <2>2. PICK r \in op.want : c \in r.provides
    BY <1>1, <1>3, <1>5, <2>1, NotWaitingIsProvided
  <2>3. Linked(s.rev, r)
    BY <1>5, <2>2 DEF Linked
  <2>4. r.plugin \in C
    BY <1>2, <1>3, <2>3 DEF Closed
  <2>5. NewScope(r) \in Activated(C) /\ NewScope(r).rev = r
    BY <1>2, <2>4, ScopesOfComponent DEF NewScope
  <2>6. QED
    BY <2>2, <2>4, <2>5
<1>6. QED
  BY <1>4, <1>5 DEF Served

(* The preparation of a component serves what it decides.                  *)
LEMMA PrepareServes ==
    ASSUME SteadyRequirements, KernelInv, ServedInv, PrepareComponent
    PROVE  ServedInv'
<1>1. InSwitch /\ running' = running
  BY DEF PrepareComponent, At, InSwitch
<1>2. PICK p \in op.todo : \E X, Y : Decides(Component[op.want][p], X, Y)
  BY PreparedWays
<1>3. PICK C : C = Component[op.want][p]
  OBVIOUS
<1>4. PICK X, Y : Decides(C, X, Y)
  BY <1>2, <1>3
<1>5. p \in Instances(op.want)
  BY <1>1 DEF KernelInv, SwitchInv
<1>6. RequiresServed
  BY DEF ServedInv
<1>7. \A s \in X : Served(op.want, s, X)
  <2>1. CASE X = {}
    BY <2>1
  <2>2. CASE C \cap WaitingPlugins[op.want] = {} /\ X = Kept(C)
    BY <1>1, <1>3, <1>5, <1>6, <2>2, KeptIsServed
  <2>3. CASE C \cap WaitingPlugins[op.want] = {} /\ X = Activated(C)
    BY <1>1, <1>3, <1>5, <2>3, ActivatedIsServed
  <2>4. QED
    BY <1>4, <2>1, <2>2, <2>3 DEF Decides
<1>8. op'.want = op.want /\ op'.next = op.next \cup X
  BY <1>4 DEF Decides, Decided
<1>9. \A s \in op.next : Served(op.want, s, op.next)
  BY <1>1 DEF ServedInv
<1>10. \A s \in op'.next : Served(op'.want, s, op'.next)
  BY <1>7, <1>8, <1>9 DEF Served
<1>11. RequiresServed'
  BY <1>1, <1>6 DEF RequiresServed, Provides
<1>12. (\A s \in op.next : Served(op.want, s, op.next))'
  BY <1>10 DEF Served
<1>13. QED
  BY <1>11, <1>12 DEF ServedInv

(* So does a component that goes back.                                     *)
LEMMA CommitFailsServes ==
    ASSUME SteadyRequirements, KernelInv, ServedInv, NEW c \in live, CommitFails(c)
    PROVE  ServedInv'
<1>1. PICK C : C = Component[op.want][c.rev.plugin]
  OBVIOUS
<1>2. InSwitch /\ op \in SwitchOps /\ c \in op.prepared /\ op.want \in Profiles
  BY PreparedAreNew DEF CommitFails, ToCommit, At, InSwitch
<1>3. c.rev.plugin \in Instances(op.want) /\ C \cap WaitingPlugins[op.want] = {}
  BY <1>1, <1>2 DEF KernelInv, SwitchInv
<1>4. PICK back : back = {t \in op.next : t.rev.plugin \notin C} \cup Kept(C)
  OBVIOUS
<1>5. op' = [op EXCEPT !.next = back, !.flawed = TRUE] /\ running' = running
  BY <1>1, <1>4 DEF CommitFails, Kept
<1>6. op'.next = back /\ op'.want = op.want
  BY <1>2, <1>5 DEF SwitchOps
<1>7. RequiresServed
  BY DEF ServedInv
<1>8. \A s \in Kept(C) : Served(op.want, s, Kept(C))
  BY <1>1, <1>2, <1>3, <1>7, KeptIsServed
<1>9. ASSUME NEW s \in op.next, s.rev.plugin \notin C
      PROVE  Served(op.want, s, back)
  <2>1. Served(op.want, s, op.next) /\ s.rev.plugin \in Instances(op.want)
    BY <1>2 DEF ServedInv, KernelInv, SwitchInv
  <2>2. Component[op.want][s.rev.plugin] \cap C = {}
    BY <1>1, <1>2, <1>3, <1>9, <2>1, ComponentsPart
  <2>3. QED
    BY <1>4, <2>1, <2>2 DEF Served
<1>10. \A s \in back : Served(op.want, s, back)
  BY <1>4, <1>8, <1>9 DEF Served
<1>11. RequiresServed'
  BY <1>5, <1>7 DEF RequiresServed, Provides
<1>12. (\A s \in op.next : Served(op.want, s, op.next))'
  BY <1>6, <1>10 DEF Served
<1>13. QED
  BY <1>11, <1>12 DEF ServedInv

(* What a failure takes is closed: those that remain need nothing of it.   *)
LEMMA FailureServes ==
    ASSUME RequiresServed, NEW s \in running, running' = running \ Removed(s)
    PROVE  RequiresServed'
<1>1. ASSUME NEW u \in running, u.rev.requires \cap Provides(Removed(s)) # {}
      PROVE  u \in Removed(s)
  <2>1. PICK c \in u.rev.requires, t \in Removed(s) : c \in t.rev.provides
    BY <1>1 DEF Provides
  <2>2. ASSUME NEW S \in SUBSET running, s \in S,
               \A v \in running : v.rev.requires \cap Provides(S) # {} => v \in S
        PROVE  u \in S
    <3>1. t \in S
      BY <2>2 DEF Removed
    <3>2. c \in Provides(S)
      BY <2>1, <3>1 DEF Provides
    <3>3. QED
      BY <2>1, <2>2, <3>2
  <2>3. QED
    BY <2>2 DEF Removed
<1>2. ASSUME NEW u \in running', NEW c \in u.rev.requires
      PROVE  \E t \in running' : c \in t.rev.provides
  <2>1. u \in running /\ u \notin Removed(s)
    OBVIOUS
  <2>2. PICK t \in running : c \in t.rev.provides
    BY <2>1, RequiresServedMeans
  <2>3. t \notin Removed(s)
    BY <1>1, <2>1, <2>2 DEF Provides
  <2>4. QED
    BY <2>2, <2>3
<1>3. QED
  BY <1>2 DEF RequiresServed, Provides

(* Every other step keeps the requirements served.                         *)
LEMMA ServedStep ==
    ASSUME SteadyRequirements, KernelInv, ServedInv, KernelNext
    PROVE  ServedInv'
<1>1. CASE UNCHANGED <<op, running>>
  BY <1>1 DEF ServedInv, RequiresServed, Provides, Served, InSwitch
<1>2. CASE CallSwitch \/ CallDispose \/ CallPatch
  BY <1>1, <1>2 DEF CallSwitch, CallDispose, CallPatch, Call
<1>3. ASSUME NEW s \in live, Fail(s)
      PROVE  ServedInv'
  BY <1>1, <1>3 DEF Fail
<1>4. ASSUME running' = running \/ running' = {}, ~InSwitch'
      PROVE  ServedInv'
  BY <1>4 DEF ServedInv, RequiresServed, Provides
<1>5. CASE BeginSwitch
  <2>1. running' = running /\ (op' # NoOp => op'.next = {})
    BY <1>5 DEF BeginSwitch
  <2>2. QED
    BY <2>1 DEF ServedInv, RequiresServed, Provides, InSwitch
<1>6. CASE Reject \/ Cleanup \/ BeginPatch \/ EndPatch \/ Dispose
  <2>1. (running' = running \/ running' = {}) /\ ~InSwitch'
    BY <1>6 DEF Reject, Cleanup, BeginPatch, EndPatch, Dispose, InSwitch
  <2>2. QED
    BY <1>4, <2>1
<1>7. ASSUME running' = running, InSwitch, op' \in SwitchOps, op'.next = op.next,
             op'.want = op.want
      PROVE  ServedInv'
  <2>1. (\A s \in op.next : Served(op.want, s, op.next))'
    BY <1>7 DEF ServedInv, Served
  <2>2. RequiresServed'
    BY <1>7 DEF ServedInv, RequiresServed, Provides
  <2>3. QED
    BY <2>1, <2>2 DEF ServedInv
<1>8. CASE Validate
  <2>1. InSwitch /\ op \in SwitchOps /\ running' = running
    BY <1>8, OpIsTyped DEF Validate, At, InSwitch, KernelInv
  <2>2. CASE op' = NoOp
    BY <1>4, <2>1, <2>2 DEF InSwitch
  <2>3. CASE op' # NoOp
    <3>1. op' = [op EXCEPT !.phase = "commit"]
      BY <1>8, <2>3 DEF Validate
    <3>2. op' \in SwitchOps /\ op'.next = op.next /\ op'.want = op.want
      BY <2>1, <3>1 DEF SwitchOps
    <3>3. QED
      BY <1>7, <2>1, <3>2
  <2>4. QED
    BY <2>2, <2>3
<1>9. ASSUME NEW s \in live, CommitScope(s)
      PROVE  ServedInv'
  <2>1. InSwitch /\ op \in SwitchOps /\ running' = running /\ s \in Scopes
    BY <1>9, OpIsTyped DEF CommitScope, At, InSwitch, KernelInv, KernelTypes
  <2>2. op' = [op EXCEPT !.committed = @ \cup {s}]
    BY <1>9 DEF CommitScope
  <2>3. op' \in SwitchOps /\ op'.next = op.next /\ op'.want = op.want
    BY <2>1, <2>2 DEF SwitchOps
  <2>4. QED
    BY <1>7, <2>1, <2>3
<1>10. CASE Publish
  <2>1. InSwitch /\ running' = op.next /\ ~InSwitch'
    BY <1>10 DEF Publish, At, InSwitch
  <2>2. \A s \in op.next : \A c \in s.rev.requires : \E t \in op.next : c \in t.rev.provides
    BY <2>1 DEF ServedInv, Served
  <2>3. RequiresServed'
    BY <2>1, <2>2 DEF RequiresServed, Provides
  <2>4. QED
    BY <2>1, <2>3 DEF ServedInv
<1>11. CASE RuntimeFailure
  <2>1. CASE op' = NoOp /\ running' = running
    BY <1>4, <2>1 DEF InSwitch
  <2>2. CASE \E s \in failing \cap running :
                 /\ running' = running \ Removed(s)
                 /\ op' = [kind |-> "cleanup", gone |-> Removed(s)]
    <3>1. RequiresServed'
      BY <2>2, FailureServes DEF ServedInv
    <3>2. ~InSwitch'
      BY <2>2 DEF InSwitch
    <3>3. QED
      BY <3>1, <3>2 DEF ServedInv
  <2>3. QED
    BY <1>11, <2>1, <2>2, FailureTakes
<1>12. QED
  BY <1>2, <1>3, <1>5, <1>6, <1>8, <1>9, <1>10, <1>11, PrepareServes, CommitFailsServes
  DEF KernelNext, Runtime

(* What runs, what exists and what is required agree, whichever step of a   *)
(* switch failed, as long as contributions do not move and requirements     *)
(* stay in their components.                                               *)
THEOREM GenerationStaysWhole ==
    ASSUME SteadyContributions, SteadyRequirements
    PROVE  KernelSpec => []GenerationIsWhole
<1>1. KernelInit => ServedInv
  BY DEF KernelInit, ServedInv, RequiresServed, InSwitch
<1>2. KernelInv /\ ServedInv /\ [KernelNext]_kernelVars => ServedInv'
  <2>1. ASSUME ServedInv, UNCHANGED kernelVars
        PROVE  ServedInv'
    BY <2>1 DEF kernelVars, ServedInv, RequiresServed, Provides, Served, InSwitch
  <2>2. QED
    BY <2>1, ServedStep
<1>3. ServedInv /\ ActiveIsLive /\ NothingLeft => GenerationIsWhole
  BY DEF ServedInv, GenerationIsWhole
<1>4. KernelSpec => []NothingLeft
  BY NothingIsLeft
<1>5. QED
  BY <1>1, <1>2, <1>3, <1>4, KernelInvariant, ActivePluginsLive, PTL DEF KernelSpec

-----------------------------------------------------------------------------
(* The Manager process, which runs both parts.                             *)

(* A behaviour of the process is one of its pool and one of its kernel: the  *)
(* steps of one part leave the state of the other alone.  So what is proved *)
(* of PoolSpec and of KernelSpec holds of the process.                     *)
LEMMA ManagerRunsBoth == ManagerSpec => PoolSpec /\ KernelSpec
<1>1. ManagerInit => PoolInit /\ KernelInit
  BY DEF ManagerInit
<1>2. [ManagerNext]_managerVars => [PoolNext]_vars /\ [KernelNext]_kernelVars
  BY DEF ManagerNext, managerVars
<1>3. QED
  BY <1>1, <1>2, PTL DEF ManagerSpec, PoolSpec, KernelSpec

(* Type correctness of the Manager process: its pool, its child processes,   *)
(* its plugin generation and its scopes.                                   *)
THEOREM ManagerTypeCorrect == ManagerSpec => []ManagerTypeOK
<1>1. PoolTypeOK /\ PluginTypeOK => ManagerTypeOK
  BY DEF ManagerTypeOK
<1>2. QED
  BY <1>1, ManagerRunsBoth, PoolTypeCorrect, PluginTypeCorrect, PTL

(* The Manager process is safe: one child may write, no accepted request is  *)
(* lost, "stopped" owns nothing, nothing is written for an answered caller, *)
(* an active plugin has its effects and a failure takes no bystander.      *)
THEOREM ManagerIsSafe ==
    ManagerSpec => /\ [](OneWriter /\ NoRequestLost /\ StoppedOwnsNothing /\ ActiveIsLive)
                   /\ NoLateCommit /\ FailureIsContained
BY ManagerRunsBoth, PoolHasOneWriter, AcceptedIsNeverLost, PoolStopIsTrue, ActivePluginsLive,
   AnswersPrecedeNoCommit, FailureStaysContained, PTL
=============================================================================
