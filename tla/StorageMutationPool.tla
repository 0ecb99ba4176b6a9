------------------------- MODULE StorageMutationPool -------------------------
(***************************************************************************)
(* ManagerStorageMutationPool of                                           *)
(* src/src/manager/managerStorageMutationPool.ts: one child process at a   *)
(* time carries out the Manager's storage mutations, one request at a time, *)
(* with a bounded queue, deadlines, aborts, and a child that may have to be *)
(* killed and may refuse to die.                                           *)
(*                                                                         *)
(* The class runs on one event loop.  A step is one task: an API call, a    *)
(* child event or a timer, with the promise continuations it releases.     *)
(* drain() is queued as a microtask; until it has run no event of a child  *)
(* and no timer gets its turn, but further API calls may.                  *)
(***************************************************************************)
EXTENDS Naturals, Sequences, SequencesExt

CONSTANTS
    Reqs,        \* the requests made
    Children,    \* the child processes that may be forked, in order; every
                 \* later fork fails
    MaxQueue,    \* options.maxQueue
    None

(* Why a child is terminated, and how a request fails.                      *)
Causes == {"timeout", "aborted", "worker_failed", "fence_mismatch"}
Failures == Causes \cup {"busy", "stopped", "unconfirmed", "mutation_failed"}

(* ActiveMutation: the request, its child, why it is terminating. *)
Mutations == [req : Reqs, child : Children, term : Causes \cup {"no", "stop"}]

ASSUME PoolAssumption ==
    /\ MaxQueue \in Nat
    /\ Children \subseteq Nat
    /\ None \notin Reqs /\ None \notin Children /\ None \notin Mutations

VARIABLES
    queue,      \* this.queue
    active,     \* this.activeMutation
    slot,       \* this.childSlot
    blocked,    \* this.blockedSlot
    state,      \* this.stateValue
    accepting,  \* this.accepting
    stopWait,   \* is a stop() waiting for a termination?
    drainDue,   \* is a drain() microtask queued?
    out,        \* what became of each request
    child,      \* each child process: "unborn", "up" or "closed"
    flight,     \* its terminationFlight
    work,       \* the request the child is carrying out
    committed   \* the requests whose mutation is on disk

vars == <<queue, active, slot, blocked, state, accepting, stopWait, drainDue,
          out, child, flight, work, committed>>
childVars == <<child, flight, work, committed>>

Stopped == ~accepting \/ state \in {"stopping", "stopped"}
Up(c) == child[c] = "up"
Fresh == {c \in Children : child[c] = "unborn" /\ \A d \in Children : d < c => child[d] # "unborn"}

PoolInit ==
    /\ queue = <<>> /\ active = None /\ slot = None /\ blocked = None
    /\ state = "idle" /\ accepting = TRUE /\ stopWait = FALSE /\ drainDue = FALSE
    /\ out = [r \in Reqs |-> "new"]
    /\ child = [c \in Children |-> "unborn"]
    /\ flight = [c \in Children |-> "none"]
    /\ work = [c \in Children |-> None]
    /\ committed = {}

(* Promises rejected with one error. *)
Rejected(rs, why) == [r \in Reqs |-> IF r \in rs THEN why ELSE out[r]]

-----------------------------------------------------------------------------
(* drain() with a queue that is not empty; o is the outcomes so far. *)

(* Mutant of StartOn: a child is forked for every request. *)
StartOnNewChild(c) == c \in Fresh

(* The child the next request goes to: the one there is, or a new one. *)
StartOn(c) == IF slot # None THEN c = slot ELSE c \in Fresh

(* The head of q is handed to a child. *)
StartHead(q, o) ==
    \E c \in Children :
        /\ StartOn(c)
        /\ child' = [child EXCEPT ![c] = "up"]
        /\ slot' = c
        /\ active' = [req |-> Head(q), child |-> c, term |-> "no"]
        /\ work' = [work EXCEPT ![c] = Head(q)]
        /\ queue' = Tail(q)
        /\ state' = "running"
        /\ out' = o
        /\ drainDue' = FALSE
        /\ UNCHANGED <<flight>>

(* createChildSlot throws: the head is rejected and drain() queued again. *)
StartFails(q, o) ==
    /\ slot = None
    /\ out' = [o EXCEPT ![Head(q)] = "worker_failed"]
    /\ queue' = Tail(q)
    /\ drainDue' = TRUE
    /\ UNCHANGED <<active, slot, state, child, flight, work>>

(* The microtask.  (The aborted-signal branch of drain() cannot be taken: an *)
(* abort removes the request from the queue at once.)                      *)
Drain ==
    /\ drainDue
    /\ IF Stopped \/ active # None \/ blocked # None
         THEN /\ drainDue' = FALSE
              /\ UNCHANGED <<queue, active, slot, state, out, child, flight, work>>
       ELSE IF queue = <<>>
         THEN /\ drainDue' = FALSE /\ state' = "idle"
              /\ UNCHANGED <<queue, active, slot, out, child, flight, work>>
       ELSE StartHead(queue, out) \/ StartFails(queue, out)
    /\ UNCHANGED <<blocked, accepting, stopWait, committed>>

-----------------------------------------------------------------------------
(* execute() *)

Full == (active # None \/ queue # <<>>) /\ Len(queue) >= MaxQueue

ExecuteRefused(r) ==
    /\ out[r] = "new"
    /\ Stopped \/ blocked # None \/ Full
    /\ out' = [out EXCEPT ![r] = IF Stopped THEN "stopped"
                                 ELSE IF blocked # None THEN "unconfirmed" ELSE "busy"]
    /\ UNCHANGED <<queue, active, slot, blocked, state, accepting, stopWait, drainDue, childVars>>

(* The request is queued and drain() called at once. *)
ExecuteAccepted(r) ==
    /\ out[r] = "new"
    /\ ~(Stopped \/ blocked # None \/ Full)
    /\ LET q == Append(queue, r)
           o == [out EXCEPT ![r] = "accepted"]
       IN IF active # None
          THEN /\ queue' = q /\ out' = o
               /\ UNCHANGED <<active, slot, state, drainDue, child, flight, work>>
          ELSE StartHead(q, o) \/ StartFails(q, o)
    /\ UNCHANGED <<blocked, accepting, stopWait, committed>>

(* Mutant of AbortQueued: the request stays in the queue. *)
AbortQueuedInPlace(r) ==
    /\ Contains(queue, r)
    /\ out' = [out EXCEPT ![r] = "aborted"]
    /\ UNCHANGED <<queue, active, slot, blocked, state, accepting, stopWait, drainDue, childVars>>

(* The caller's AbortSignal fires while the request waits: it is spliced     *)
(* out of the queue.                                                       *)
AbortQueued(r) ==
    /\ \E i \in DOMAIN queue : queue[i] = r /\ queue' = RemoveAt(queue, i)
    /\ out' = [out EXCEPT ![r] = "aborted"]
    /\ UNCHANGED <<active, slot, blocked, state, accepting, stopWait, drainDue, childVars>>

-----------------------------------------------------------------------------
(* Settling. *)

(* Mutant of Settle: the next request is not started. *)
SettleWithoutDrain(why) ==
    /\ active' = None
    /\ out' = [out EXCEPT ![active.req] = why]
    /\ IF blocked = None /\ accepting
       THEN state' = "idle" /\ UNCHANGED drainDue
       ELSE UNCHANGED <<state, drainDue>>

(* settleActive, the pool not being blocked by this very step. *)
Settle(why) ==
    /\ active' = None
    /\ out' = [out EXCEPT ![active.req] = why]
    /\ IF blocked = None /\ accepting
       THEN state' = "idle" /\ drainDue' = TRUE
       ELSE UNCHANGED <<state, drainDue>>

(* blockTermination, with the settleActive and rejectQueue calls around it: *)
(* the active request of the child is rejected when it was terminating.    *)
Block(c) ==
    /\ blocked' = c
    /\ slot' = c
    /\ state' = "blocked"
    /\ LET dying == {r \in Reqs : active # None /\ active.child = c
                                  /\ active.term # "no" /\ r = active.req}
       IN /\ out' = Rejected(dying \cup ToSet(queue), "unconfirmed")
          /\ active' = IF dying # {} THEN None ELSE active
    /\ queue' = <<>>

-----------------------------------------------------------------------------
(* Terminating. *)

Event == ~drainDue

(* Mutant of TerminateActive: the request is rejected before its child is gone. *)
TerminateActiveEager(why) ==
    /\ Event
    /\ active # None /\ active.term = "no"
    /\ flight' = [flight EXCEPT ![active.child] = IF @ = "none" THEN "term" ELSE @]
    /\ Settle(why)
    /\ UNCHANGED <<queue, slot, blocked, accepting, stopWait, child, work, committed>>

(* terminateActive: its deadline, its caller's abort, a send that failed, a *)
(* response that fails the fence, a child error.  terminateAndConfirm kills *)
(* the child, or joins the termination under way, or learns at once that   *)
(* an earlier one was not confirmed.                                       *)
TerminateActive(why) ==
    /\ Event
    /\ active # None /\ active.term = "no"
    /\ IF flight[active.child] = "failed"
       THEN /\ blocked' = active.child
            /\ state' = "blocked"
            /\ out' = Rejected({active.req} \cup ToSet(queue), "unconfirmed")
            /\ active' = None
            /\ queue' = <<>>
            /\ UNCHANGED flight
       ELSE /\ active' = [active EXCEPT !.term = why]
            /\ flight' = [flight EXCEPT ![active.child] = IF @ = "none" THEN "term" ELSE @]
            /\ UNCHANGED <<blocked, state, out, queue>>
    /\ UNCHANGED <<slot, accepting, stopWait, drainDue, child, work, committed>>

(* handleChildError of a child without a request to blame. *)
IdleChildError(c) ==
    /\ Event
    /\ Up(c) /\ flight[c] = "none"
    /\ active = None
    /\ flight' = [flight EXCEPT ![c] = "term"]
    /\ UNCHANGED <<queue, active, slot, blocked, state, accepting, stopWait, drainDue,
                   out, child, work, committed>>

(* SIGTERM was not enough: SIGKILL. *)
TermTimeout(c) ==
    /\ Event
    /\ Up(c) /\ flight[c] = "term"
    /\ flight' = [flight EXCEPT ![c] = "kill"]
    /\ UNCHANGED <<queue, active, slot, blocked, state, accepting, stopWait, drainDue,
                   out, child, work, committed>>

(* Neither was SIGKILL: the flight resolves to false, and everyone who       *)
(* waited for it (terminateActive, terminateIdleChild, stop) blocks the    *)
(* pool on this child; a waiting stop() throws.                            *)
KillTimeout(c) ==
    /\ Event
    /\ Up(c) /\ flight[c] = "kill"
    /\ flight' = [flight EXCEPT ![c] = "failed"]
    /\ Block(c)
    /\ stopWait' = FALSE
    /\ UNCHANGED <<accepting, drainDue, child, work, committed>>

-----------------------------------------------------------------------------
(* Events of a child. *)

(* The mutation reaches the disk. *)
Commit(c) ==
    /\ Up(c) /\ work[c] # None
    /\ committed' = committed \cup {work[c]}
    /\ UNCHANGED <<queue, active, slot, blocked, state, accepting, stopWait, drainDue,
                   out, child, flight, work>>

(* Does handleMessage heed a message from c? *)
Listening(c) == active # None /\ active.child = c /\ active.term = "no"

(* The child answers, with success when the mutation is committed.  A      *)
(* termination that failed has disconnected the channel.                   *)
Message(c, ok) ==
    /\ Event
    /\ Up(c) /\ work[c] # None /\ flight[c] # "failed"
    /\ ok => work[c] \in committed
    /\ work' = [work EXCEPT ![c] = None]
    /\ IF Listening(c) THEN Settle(IF ok THEN "ok" ELSE "mutation_failed")
       ELSE UNCHANGED <<active, out, state, drainDue>>
    /\ UNCHANGED <<queue, slot, blocked, accepting, stopWait, child, flight, committed>>

(* handleChildClose and the continuations of a termination flight that is    *)
(* now confirmed: the active request is rejected with its cause, and a     *)
(* waiting stop() finds nothing left to own.                               *)
Close(c) ==
    /\ Event
    /\ Up(c)
    /\ child' = [child EXCEPT ![c] = "closed"]
    /\ work' = [work EXCEPT ![c] = None]
    /\ slot' = IF slot = c THEN None ELSE slot
    /\ blocked' = IF blocked = c THEN None ELSE blocked
    /\ IF active # None /\ active.child = c
       THEN /\ active' = None
            /\ out' = [out EXCEPT ![active.req] =
                          CASE active.term = "no" -> "worker_failed"
                            [] active.term = "stop" -> "stopped"
                            [] OTHER -> active.term]
       ELSE UNCHANGED <<active, out>>
    /\ stopWait' = FALSE
    /\ state' = IF stopWait THEN "stopped" ELSE IF accepting THEN "idle" ELSE state
    /\ drainDue' = accepting
    /\ UNCHANGED <<queue, accepting, flight, committed>>

-----------------------------------------------------------------------------
(* stop() up to its first await; a second call joins the first. *)

(* Mutant of StopOutcome: a child that would not die is given up. *)
StopOutcomeAlways == "stopped"

(* Mutant of StopOutcome: the state of the termination becomes the pool's. *)
StopOutcomeOfFlight == IF slot = None THEN "stopped" ELSE flight[slot]

(* What stopOnce does about the child it owns. *)
StopOutcome ==
    IF slot = None THEN "stopped"
    ELSE IF flight[slot] = "failed" THEN "blocked"
    ELSE "stopping"

Stop ==
    /\ state # "stopped" /\ ~stopWait
    /\ accepting' = FALSE
    /\ state' = StopOutcome
    /\ stopWait' = (StopOutcome = "stopping")
    /\ queue' = <<>>
    /\ IF StopOutcome = "stopping"
       THEN /\ flight' = [flight EXCEPT ![slot] = IF @ = "none" THEN "term" ELSE @]
            /\ active' = IF active = None THEN None
                         ELSE [active EXCEPT !.term = IF @ = "no" THEN "stop" ELSE @]
            /\ out' = Rejected(ToSet(queue), "stopped")
            /\ UNCHANGED blocked
       ELSE /\ active' = None
            /\ out' = [r \in Reqs |-> IF active # None /\ active.req = r THEN "unconfirmed"
                                      ELSE Rejected(ToSet(queue), "stopped")[r]]
            /\ blocked' = IF StopOutcome = "blocked" THEN slot ELSE blocked
            /\ UNCHANGED flight
    /\ UNCHANGED <<slot, drainDue, child, work, committed>>

-----------------------------------------------------------------------------
ReqStep(r) == ExecuteRefused(r) \/ ExecuteAccepted(r) \/ AbortQueued(r)

ChildEvent(c) == Commit(c) \/ Message(c, TRUE) \/ Message(c, FALSE) \/ Close(c)

Timer(c) == TermTimeout(c) \/ KillTimeout(c)

PoolNext ==
    \/ \E r \in Reqs : ReqStep(r)
    \/ Drain \/ Stop
    \/ \E why \in Causes : TerminateActive(why)
    \/ \E c \in Children : ChildEvent(c) \/ Timer(c) \/ IdleChildError(c)

PoolSpec == PoolInit /\ [][PoolNext]_vars

(* Microtasks run and timers fire: the active request's deadline and the two *)
(* termination timeouts.  A child need never answer and never die.         *)
PoolFairness ==
    /\ WF_vars(Drain)
    /\ WF_vars(TerminateActive("timeout"))
    /\ \A c \in Children : WF_vars(Timer(c))

FairPoolSpec == PoolSpec /\ PoolFairness

-----------------------------------------------------------------------------
(* Type correctness of the pool's fields and of the child processes.       *)
PoolTypeOK ==
    /\ queue \in Seq(Reqs)
    /\ active \in Mutations \cup {None}
    /\ slot \in Children \cup {None}
    /\ blocked \in Children \cup {None}
    /\ state \in {"idle", "running", "blocked", "stopping", "stopped"}
    /\ accepting \in BOOLEAN /\ stopWait \in BOOLEAN /\ drainDue \in BOOLEAN
    /\ out \in [Reqs -> {"new", "accepted", "ok"} \cup Failures]
    /\ child \in [Children -> {"unborn", "up", "closed"}]
    /\ flight \in [Children -> {"none", "term", "kill", "failed"}]
    /\ work \in [Children -> Reqs \cup {None}]
    /\ committed \subseteq Reqs

(* A child that may still be writing is the only one, and the pool owns it:  *)
(* no replacement is forked before its predecessor has closed.             *)
OneWriter == \A c \in Children : Up(c) => slot = c

(* An accepted request is in exactly one place until it is settled.         *)
NoRequestLost ==
    \A r \in Reqs :
        /\ out[r] = "accepted" <=> (Contains(queue, r) \/ (active # None /\ active.req = r))
        /\ active # None /\ active.req = r => ~Contains(queue, r)

(* Nothing reaches the disk on behalf of a request after its caller has     *)
(* been told the outcome, unless the outcome was "termination unconfirmed": *)
(* a timeout, an abort or a stop is reported only once the child is gone.  *)
NoLateCommit ==
    [][\A r \in committed' \ committed : out[r] \in {"accepted", "unconfirmed"}]_vars

(* "stopped" is the truth: no child, no request.                           *)
StoppedOwnsNothing ==
    state = "stopped" =>
        /\ \A c \in Children : ~Up(c)
        /\ active = None /\ queue = <<>> /\ blocked = None

(* Every accepted request is settled, whatever its child does.             *)
AcceptedSettles == \A r \in Reqs : (out[r] = "accepted") ~> (out[r] # "accepted")

(* A stop() that waits for a child comes to an end.                        *)
StopEnds == stopWait ~> ~stopWait

(* Every call of the pool ends: execute() and stop(), whatever children do. *)
EveryCallEnds == AcceptedSettles /\ StopEnds
=============================================================================
