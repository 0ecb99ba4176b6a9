--------------------------- MODULE ReadWorkerPool ---------------------------
(***************************************************************************)
(* ManagerReadWorkerPool of manager/managerReadWorkerPool.ts: pools of     *)
(* child processes that read for the Manager.  The pools share one bound   *)
(* on running reads, callers of one pool may share a read, and a worker    *)
(* keeps its lease until its process has closed.                           *)
(*                                                                         *)
(* A read is named by the caller that began it.  A pool has one key under  *)
(* which reads are shared.  With which value or error a read ends is left  *)
(* out.  What drain() does in one turn of the event loop is done here in   *)
(* steps between which nothing else happens.                               *)
(***************************************************************************)
EXTENDS Naturals, FiniteSets, Sequences, SequencesExt

CONSTANTS Pools,
          Readers,        \* callers
          PoolOf,         \* the pool that a caller asks
          Lanes,          \* places for workers, maxConcurrency of each pool
          LaneOf,         \* the pool of a place
          GlobalMax,      \* globalMaxConcurrency
          MaxQueued,      \* maxQueue
          MaxStops,       \* bound on the stops of all pools
          NoRead

MaxConcurrency(p) == Cardinality({w \in Lanes : LaneOf[w] = p})

ASSUME ReadAssumption ==
    /\ PoolOf \in [Readers -> Pools] /\ LaneOf \in [Lanes -> Pools]
    /\ IsFiniteSet(Pools) /\ IsFiniteSet(Lanes) /\ \A p \in Pools : MaxConcurrency(p) > 0
    /\ GlobalMax \in Nat \ {0} /\ {MaxQueued, MaxStops} \subseteq Nat
    /\ {NoRead, "new", "done"} \cap Readers = {}

VARIABLES waiting,      \* queue of each pool
          slots,        \* of each worker: its phase, its read (slot.active) and whether
                        \*   the promise of the read has settled
          leases,       \* active of each pool
          globalActive,
          instances,    \* the pools that drainAll visits, in order
          lifecycle,    \* accepting, stopped and stopPromise of each pool
          unconfirmed,  \* pools whose stop() has seen a worker that would not close
          stops,
          inFlight,     \* the shared read of each pool
          reader,       \* the read each caller waits for
          visits        \* the pools that the running drain has yet to visit

poolStates == <<leases, globalActive, instances, lifecycle, unconfirmed, stops>>
readVars == <<waiting, slots, poolStates, inFlight, reader, visits>>

Dying == {"term", "kill", "blocked"}
Phases == {"none", "up"} \cup Dying
Slot(phase, read) == [phase |-> phase, read |-> read, settled |-> FALSE]

ReadInit ==
    /\ waiting = [p \in Pools |-> <<>>]
    /\ slots = [w \in Lanes |-> Slot("none", NoRead)]
    /\ leases = [p \in Pools |-> 0] /\ globalActive = 0
    /\ instances = SetToSeq(Pools)
    /\ lifecycle = [p \in Pools |-> "open"]
    /\ unconfirmed = {} /\ stops = 0
    /\ inFlight = [p \in Pools |-> NoRead]
    /\ reader = [c \in Readers |-> "new"]
    /\ visits = <<>>

WorkersOf(p) == {w \in Lanes : LaneOf[w] = p /\ slots[w].phase # "none"}
DyingOf(p) == {w \in WorkersOf(p) : slots[w].phase \in Dying}
BlockedOf(p) == {w \in WorkersOf(p) : slots[w].phase = "blocked"}
Reading(r) == {w \in Lanes : slots[w].read = r}
HasLane(p) == leases[p] < MaxConcurrency(p) /\ globalActive < GlobalMax
Open(p) == lifecycle[p] = "open"

Waits(c) == reader[c] \in Readers
Subscribers(r) == {c \in Readers : reader[c] = r}

\* The promises of some reads settle, and with them those who share them.
Settles(reads) ==
    /\ reader' = [c \in Readers |-> IF reader[c] \in reads THEN "done" ELSE reader[c]]
    /\ inFlight' = [p \in Pools |-> IF inFlight[p] \in reads THEN NoRead ELSE inFlight[p]]

\* discardWorker up to its await
Discard(ws) ==
    slots' = [w \in Lanes |-> IF w \in ws /\ slots[w].phase = "up"
                              THEN [slots[w] EXCEPT !.phase = "term"] ELSE slots[w]]

-----------------------------------------------------------------------------
(* run, and the reads that are shared *)

\* what run() checks before it queues a read
Accepts(p) == /\ Open(p) /\ DyingOf(p) = {}
              /\ HasLane(p) \/ Len(waiting[p]) < MaxQueued

RunRefuses(c) ==
    /\ visits = <<>> /\ reader[c] = "new" /\ ~Accepts(PoolOf[c])
    /\ reader' = [reader EXCEPT ![c] = "done"]
    /\ UNCHANGED <<waiting, slots, poolStates, inFlight, visits>>

Run(c, shared) ==
    LET p == PoolOf[c] IN
    /\ visits = <<>> /\ reader[c] = "new" /\ Accepts(p)
    /\ shared => inFlight[p] = NoRead
    /\ reader' = [reader EXCEPT ![c] = c]
    /\ waiting' = [waiting EXCEPT ![p] = Append(@, c)]
    /\ inFlight' = IF shared THEN [inFlight EXCEPT ![p] = c] ELSE inFlight
    /\ visits' = <<p>>
    /\ UNCHANGED <<slots, poolStates>>

\* querySharedRead finds a read under way
Subscribe(c) ==
    /\ visits = <<>> /\ reader[c] = "new" /\ inFlight[PoolOf[c]] # NoRead
    /\ reader' = [reader EXCEPT ![c] = inFlight[PoolOf[c]]]
    /\ UNCHANGED <<waiting, slots, poolStates, inFlight, visits>>

LastSubscriber(c) == Subscribers(reader[c]) = {c}

\* The signal of a caller: a read of its own, or one that it is the last to share, is
\* taken from the queue.
AbortQueuedRead(c) ==
    LET r == reader[c]
        p == PoolOf[c]
    IN
    /\ visits = <<>> /\ Waits(c)
    /\ inFlight[p] = r => LastSubscriber(c)
    /\ \E i \in 1 .. Len(waiting[p]) :
          waiting[p][i] = r /\ waiting' = [waiting EXCEPT ![p] = RemoveAt(@, i)]
    /\ Settles({r})
    /\ UNCHANGED <<slots, poolStates, visits>>

\* Its worker is discarded.  Who shares the read is answered at once, who has it alone
\* when the worker is gone.
AbortActiveRead(c) ==
    LET r == reader[c]
        shared == inFlight[PoolOf[c]] = r
    IN
    /\ visits = <<>> /\ Waits(c) /\ Reading(r) # {}
    /\ shared => LastSubscriber(c)
    /\ Discard(Reading(r))
    /\ reader' = IF shared THEN [reader EXCEPT ![c] = "done"] ELSE reader
    /\ UNCHANGED <<waiting, poolStates, inFlight, visits>>

\* Others go on waiting for the read.
Unsubscribe(c) ==
    /\ visits = <<>> /\ Waits(c)
    /\ inFlight[PoolOf[c]] = reader[c] /\ ~LastSubscriber(c)
    /\ reader' = [reader EXCEPT ![c] = "done"]
    /\ UNCHANGED <<waiting, slots, poolStates, inFlight, visits>>

-----------------------------------------------------------------------------
(* drain *)

MayStart(p) == /\ Open(p) /\ DyingOf(p) = {}
               /\ HasLane(p) /\ waiting[p] # <<>>

Shift(p) == waiting' = [waiting EXCEPT ![p] = Tail(@)]

\* startPending, on an idle worker or a new one; when send() throws it is discarded
StartPending(p, w, sent) ==
    /\ Shift(p)
    /\ slots' = [slots EXCEPT ![w] = Slot(IF sent THEN "up" ELSE "term", Head(waiting[p]))]
    /\ leases' = [leases EXCEPT ![p] = @ + 1] /\ globalActive' = globalActive + 1
    /\ UNCHANGED <<reader, inFlight>>

\* createWorker fails: nothing was forked, or the child has no pid or no priority
CreateFails(p, w, forked) ==
    /\ Shift(p)
    /\ Settles({Head(waiting[p])})
    /\ slots' = IF forked THEN [slots EXCEPT ![w] = Slot("term", NoRead)] ELSE slots
    /\ UNCHANGED <<leases, globalActive>>

Idle(p) == {w \in WorkersOf(p) : slots[w].phase = "up" /\ slots[w].read = NoRead}
New(p) == {w \in Lanes : LaneOf[w] = p /\ slots[w].phase = "none"}

DrainStep ==
    /\ visits # <<>>
    /\ LET p == Head(visits) IN
         \/ /\ MayStart(p)
            /\ \E b \in BOOLEAN :
                 \/ \E w \in Idle(p) : StartPending(p, w, b)
                 \/ /\ Idle(p) = {}
                    /\ \E w \in New(p) : StartPending(p, w, b) \/ CreateFails(p, w, b)
            /\ UNCHANGED visits
         \/ /\ ~MayStart(p) /\ visits' = Tail(visits)
            /\ UNCHANGED <<waiting, slots, leases, globalActive, reader, inFlight>>
    /\ UNCHANGED <<instances, lifecycle, unconfirmed, stops>>

-----------------------------------------------------------------------------
(* Workers *)

ReleaseLease(p) == leases' = [leases EXCEPT ![p] = @ - 1] /\ globalActive' = globalActive - 1

\* mutant: only the worker's own pool is drained
DrainAllOwn(p) == visits' = <<p>>
\* drainAll
DrainAll(p) == visits' = instances

\* handleWorkerMessage, finish
Reply(w) ==
    /\ visits = <<>> /\ slots[w].phase = "up" /\ slots[w].read # NoRead
    /\ Settles({slots[w].read})
    /\ slots' = [slots EXCEPT ![w] = Slot("up", NoRead)]
    /\ ReleaseLease(LaneOf[w]) /\ DrainAll(LaneOf[w])
    /\ UNCHANGED <<waiting, instances, lifecycle, unconfirmed, stops>>

\* the worker reports an error or exits
WorkerFails(w) ==
    /\ visits = <<>> /\ slots[w].phase = "up"
    /\ Discard({w})
    /\ UNCHANGED <<waiting, poolStates, inFlight, reader, visits>>

\* the timer of startPending
ReadTimeout(w) == slots[w].read # NoRead /\ WorkerFails(w)

\* terminateAndConfirm: SIGTERM was not enough
TermTimeoutOf(w) ==
    /\ visits = <<>> /\ slots[w].phase = "term"
    /\ slots' = [slots EXCEPT ![w].phase = "kill"]
    /\ UNCHANGED <<waiting, poolStates, inFlight, reader, visits>>

\* discardWorker, blockTermination: the worker survives.  Its read and the queue are
\* rejected, its lease is kept.
KillTimeoutOf(w) ==
    LET p == LaneOf[w] IN
    /\ visits = <<>> /\ slots[w].phase = "kill"
    /\ slots' = [slots EXCEPT ![w].phase = "blocked", ![w].settled = TRUE]
    /\ Settles(ToSet(waiting[p]) \cup {slots[w].read})
    /\ waiting' = [waiting EXCEPT ![p] = <<>>]
    /\ unconfirmed' = IF lifecycle[p] = "stopping" THEN unconfirmed \cup {p} ELSE unconfirmed
    /\ UNCHANGED <<leases, globalActive, instances, lifecycle, stops, visits>>

\* mutant: there is nothing to release once the read was rejected
LeaseHeldUnsettled(w) == slots[w].read # NoRead /\ ~slots[w].settled
LeaseHeld(w) == slots[w].read # NoRead

\* handleWorkerClose
CloseWorker(w) ==
    /\ visits = <<>> /\ slots[w].phase # "none"
    /\ slots' = [slots EXCEPT ![w] = Slot("none", NoRead)]
    /\ Settles(IF slots[w].settled THEN {} ELSE {slots[w].read})
    /\ IF LeaseHeld(w) THEN ReleaseLease(LaneOf[w]) ELSE UNCHANGED <<leases, globalActive>>
    /\ DrainAll(LaneOf[w])
    /\ UNCHANGED <<waiting, instances, lifecycle, unconfirmed, stops>>

-----------------------------------------------------------------------------
(* stop and start *)

StopPool(p) ==
    /\ visits = <<>> /\ lifecycle[p] \in {"open", "failed"} /\ stops < MaxStops
    /\ stops' = stops + 1
    /\ lifecycle' = [lifecycle EXCEPT ![p] = "stopping"]
    /\ \/ ~Contains(instances, p) /\ UNCHANGED instances
       \/ \E i \in 1 .. Len(instances) :
             instances[i] = p /\ instances' = RemoveAt(instances, i)
    /\ unconfirmed' = IF BlockedOf(p) # {} THEN unconfirmed \cup {p} ELSE unconfirmed \ {p}
    /\ Settles(ToSet(waiting[p]))
    /\ waiting' = [waiting EXCEPT ![p] = <<>>]
    /\ Discard(WorkersOf(p))
    /\ UNCHANGED <<leases, globalActive, visits>>

Confirmed(p) == p \notin unconfirmed /\ WorkersOf(p) = {} /\ leases[p] = 0

TerminationsOver(p) == WorkersOf(p) = BlockedOf(p)

StopPoolEnds(p) ==
    /\ visits = <<>> /\ lifecycle[p] = "stopping"
    /\ TerminationsOver(p)
    /\ lifecycle' = [lifecycle EXCEPT ![p] = IF Confirmed(p) THEN "stopped" ELSE "failed"]
    /\ inFlight' = IF Confirmed(p) THEN [inFlight EXCEPT ![p] = NoRead] ELSE inFlight
    /\ UNCHANGED <<waiting, slots, leases, globalActive, instances, unconfirmed, stops, reader,
                   visits>>

StartPool(p) ==
    /\ visits = <<>> /\ lifecycle[p] = "stopped"
    /\ WorkersOf(p) = {} /\ leases[p] = 0 /\ waiting[p] = <<>>
    /\ lifecycle' = [lifecycle EXCEPT ![p] = "open"]
    /\ instances' = Append(instances, p)
    /\ UNCHANGED <<waiting, slots, leases, globalActive, unconfirmed, stops, inFlight, reader,
                   visits>>

WorkerTimer(w) == ReadTimeout(w) \/ TermTimeoutOf(w) \/ KillTimeoutOf(w)

ReadNext ==
    \/ DrainStep
    \/ \E c \in Readers : \/ RunRefuses(c) \/ Subscribe(c) \/ \E b \in BOOLEAN : Run(c, b)
                          \/ AbortQueuedRead(c) \/ AbortActiveRead(c) \/ Unsubscribe(c)
    \/ \E w \in Lanes : WorkerTimer(w) \/ Reply(w) \/ WorkerFails(w) \/ CloseWorker(w)
    \/ \E p \in Pools : StopPool(p) \/ StopPoolEnds(p) \/ StartPool(p)

ReadSpec == ReadInit /\ [][ReadNext]_readVars

\* The event loop turns and timers fire; which of them first is not needed.  A worker need
\* never answer and never close.
EventLoop == \/ DrainStep
             \/ \E w \in Lanes : WorkerTimer(w)
             \/ \E p \in Pools : StopPoolEnds(p)
ReadFairness == WF_readVars(EventLoop)
FairReadSpec == ReadSpec /\ ReadFairness

-----------------------------------------------------------------------------
\* Queues, slots and callers are well formed.
ReadTypeOK ==
    /\ waiting \in [Pools -> Seq(Readers)]
    /\ slots \in [Lanes -> [phase : Phases, read : Readers \cup {NoRead}, settled : BOOLEAN]]
    /\ leases \in [Pools -> Nat] /\ globalActive \in Nat
    /\ instances \in Seq(Pools) /\ visits \in Seq(Pools)
    /\ lifecycle \in [Pools -> {"open", "stopping", "failed", "stopped"}]
    /\ unconfirmed \subseteq Pools /\ stops \in 0..MaxStops
    /\ inFlight \in [Pools -> Readers \cup {NoRead}]
    /\ reader \in [Readers -> Readers \cup {"new", "done"}]

\* A lease, local and global, is held exactly by the workers that have a read and have not
\* closed, also after the read was rejected, and the shared bound is kept.
LeasesCounted ==
    /\ \A p \in Pools : leases[p] = Cardinality({w \in WorkersOf(p) : slots[w].read # NoRead})
    /\ globalActive = Cardinality({w \in Lanes : slots[w].read # NoRead})
    /\ globalActive <= GlobalMax

\* A pool that has stopped has no worker, no lease, no queue and nobody who waits for it,
\* so that start() finds it as it was made.
StoppedIsEmpty ==
    \A p \in Pools : lifecycle[p] = "stopped" =>
        /\ WorkersOf(p) = {} /\ leases[p] = 0 /\ waiting[p] = <<>>
        /\ \A c \in Readers : Waits(c) => PoolOf[c] # p

\* The lanes are accounted for, while pools run and when they have stopped.
LanesAccounted == LeasesCounted /\ StoppedIsEmpty

\* Workers that would not close hold every lane of the Manager.
Exhausted == GlobalMax = Cardinality({w \in Lanes : slots[w].phase = "blocked"
                                                     /\ slots[w].read # NoRead})

\* Every read is answered, though its worker never answers or never closes, unless such
\* workers hold all the lanes.
ReadsSettle == \A c \in Readers : Waits(c) ~> (~Waits(c) \/ Exhausted)

\* Every stop() resolves or rejects.
StopPoolSettles == \A p \in Pools : (lifecycle[p] = "stopping") ~> (lifecycle[p] # "stopping")

\* Nobody waits for a pool for ever: neither the callers of run(), unless the lanes
\* are exhausted, nor that of stop().
ReadCallsSettle == ReadsSettle /\ StopPoolSettles
=============================================================================
