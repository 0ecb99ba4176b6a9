---------------------------- MODULE RouteCatalog ----------------------------
(***************************************************************************)
(* RouteCatalogStartupLifecycle: the Manager's queue of catalog operations,*)
(* the attempts it makes of each one in a forked child (RouteJournal), the *)
(* deadline, cancellation, retries and hard block of an attempt, the       *)
(* asynchronous apply of a child's snapshot, and stop().                   *)
(*                                                                         *)
(* JavaScript runs one callback at a time: an action is one callback with  *)
(* the microtasks it queues.  A restart stands for a crash of the machine: *)
(* the Manager and its children are gone, the directory stays.  The state  *)
(* published to observers (running, ready, degraded) decides nothing here. *)
(***************************************************************************)
EXTENDS RouteJournal

CONSTANTS Operations,   \* what the caller of entry e may ask for
          MaxPending,
          MaxAttempts,
          MaxRestarts   \* bound on restarts

\* an attempt: its token, how far its end is, the error it ends with
Attempts == [tok : Tokens, phase : {"running", "cleaning", "cancelling", "unconfirmed"},
             err : {None, "conflict", "failed"}]

ASSUME CatalogAssumption ==
    /\ Operations \in [Entries -> SUBSET [kind : Kinds, id : Ids,
                                          digest : Digests, guarded : BOOLEAN]]
    /\ MaxPending \in Nat \ {0} /\ MaxAttempts \in Nat \ {0} /\ MaxRestarts \in Nat
    /\ None \notin Attempts

VARIABLES
    queue,       \* entries that wait
    active,      \* activeEntry
    attempts,    \* entry.attempts
    current,     \* currentAttempt
    timers,      \* pending retry timers of each entry
    retry,       \* retryTimer is set
    applying,    \* snapshots whose apply() has not settled
    flight,      \* applicationFlight: the attempt whose apply() was called last
    latest,      \* latestCatalog
    out,         \* what the caller of entry e was told
    hardBlocked, stopped,
    stopping,    \* what stopOnce waits for, or how it ended
    stopError,   \* stopOnce met a cleanup error
    restarts

queueVars == <<queue, active, attempts, current, children>>  \* what Pump assigns
applyVars == <<applying, flight, latest>>
stopVars == <<hardBlocked, stopped, stopping, stopError>>
diskVars == <<file, journal, receipt, commits>>
vars == <<diskVars, req, queueVars, timers, retry, applyVars, out, stopVars, restarts>>

Settled == {"ok", "unresolved", "conflict", "failed", "blocked", "stopped", "busy", "lost"}

ManagerInit ==
    /\ queue = <<>> /\ active = None /\ attempts = [e \in Entries |-> 0]
    /\ current = None /\ timers = [e \in Entries |-> 0] /\ retry = FALSE
    /\ applying = {} /\ flight = None /\ latest = None
    /\ hardBlocked = FALSE /\ stopped = FALSE
    /\ stopping = "no" /\ stopError = FALSE

Init ==
    /\ JournalInit /\ ManagerInit
    /\ req = [e \in Entries |-> None]
    /\ out = [e \in Entries |-> "new"]
    /\ restarts = 0

-----------------------------------------------------------------------------
Token(t, phase, err) == [tok |-> t, phase |-> phase, err |-> err]
In(phase) == current # None /\ current.phase = phase
EntryOf(t) == t[1]
GoneAssumed(t) == TRUE  \* mutant: cancel() does not wait for the exit
Gone(t) == \A c \in Running : c.tok # t

\* the child processes somebody still refers to
Kept(cur) == {c \in children : Alive(c) \/ (cur # None /\ cur.tok = c.tok)}

\* startAttempt(e), leaving a and q: a child is forked.  A factory that throws is
\* an attempt whose child fails at once.
Launch(e, a, q, cur) ==
    LET t == <<e, attempts[e] + 1>> IN
    /\ active' = a /\ queue' = q
    /\ attempts' = [attempts EXCEPT ![e] = @ + 1]
    /\ current' = Token(t, "running", None)
    /\ children' = Kept(cur) \cup {NewChild(t)}

\* pump()'s guard.  It does not look at applicationFlight.
MayPump(cur, rt) == ~stopped /\ ~hardBlocked /\ cur = None /\ ~rt

\* pump(), for the values the callback gives to activeEntry, queue, currentAttempt
\* and retryTimer: attempt the active entry or the next one of the queue
Pump(a, q, cur, rt) ==
    IF MayPump(cur, rt) /\ (a # None \/ q # <<>>)
    THEN IF a # None THEN Launch(a, a, q, cur) ELSE Launch(Head(q), Head(q), Tail(q), cur)
    ELSE /\ active' = a /\ queue' = q /\ current' = cur
         /\ children' = Kept(cur)
         /\ UNCHANGED attempts

-----------------------------------------------------------------------------
(* Callers *)

\* entries are numbered in the order they are added
NextEntry == Cardinality({e \in Entries : out[e] # "new"}) + 1

Full == Len(queue) + (IF active # None THEN 1 ELSE 0) >= MaxPending

\* the catalogs a caller may have seen: the last one, or the one of before the start
Seen == {[f \in Files |-> {}]} \cup ({latest} \ {None})

\* enqueue(); a guarded mutation expects a catalog its caller has seen
Enqueue(o) ==
    /\ NextEntry \in Entries /\ o \in Operations[NextEntry] /\ ~stopped /\ ~hardBlocked
    /\ \E expect \in IF o.guarded THEN Seen ELSE {None} :
          req' = [req EXCEPT ![NextEntry] = [kind |-> o.kind, id |-> o.id,
                                             digest |-> o.digest, expect |-> expect]]
    /\ IF Full
       THEN out' = [out EXCEPT ![NextEntry] = "busy"] /\ UNCHANGED queueVars
       ELSE /\ out' = [out EXCEPT ![NextEntry] = "waiting"]
            /\ Pump(active, Append(queue, NextEntry), current, retry)
    /\ UNCHANGED <<diskVars, timers, retry, applyVars, stopVars, restarts>>

-----------------------------------------------------------------------------
(* How an attempt ends *)

\* failEntry(e) with error err and the pump() that follows, currentAttempt having
\* become cur
FailEntry(e, err, cur) ==
    IF stopped \/ active # e
    THEN Pump(active, queue, cur, retry) /\ UNCHANGED <<timers, retry, out>>
    ELSE IF err = "conflict"
    THEN /\ out' = [out EXCEPT ![e] = "conflict"]
         /\ Pump(None, queue, cur, retry)
         /\ UNCHANGED <<timers, retry>>
    ELSE IF attempts[e] < MaxAttempts
    THEN /\ timers' = [timers EXCEPT ![e] = @ + 1] /\ retry' = TRUE
         /\ Pump(active, queue, cur, TRUE)
         /\ UNCHANGED out
    ELSE /\ out' = [out EXCEPT ![e] = "failed"]
         /\ Pump(None, queue, cur, retry)
         /\ UNCHANGED <<timers, retry>>

\* mutant: the timer clears itself and starts nothing
RetryFiresIdle(e) ==
    /\ timers[e] > 0
    /\ timers' = [timers EXCEPT ![e] = @ - 1] /\ retry' = FALSE
    /\ UNCHANGED <<diskVars, req, queueVars, applyVars, out, stopVars, restarts>>

\* setTimeout of failEntry: startAttempt(e), whatever entry is active by now
RetryFires(e) ==
    /\ timers[e] > 0
    /\ timers' = [timers EXCEPT ![e] = @ - 1] /\ retry' = FALSE
    /\ IF stopped \/ hardBlocked \/ current # None
       THEN UNCHANGED queueVars
       ELSE Launch(e, active, queue, None)
    /\ UNCHANGED <<diskVars, req, applyVars, out, stopVars, restarts>>

\* cleanupFailedAttempt(): cancel() is called
Cleanup(err) ==
    /\ current' = [current EXCEPT !.phase = "cleaning", !.err = err]
    /\ UNCHANGED <<diskVars, req, queue, active, attempts, children, timers,
                   retry, applyVars, out, stopVars, restarts>>

\* the deadline of the current attempt
Timeout == In("running") /\ Cleanup("failed")

Succeeded(c) == c.ans \in Successes
Result == {c \in children : ~Alive(c) /\ In("running") /\ current.tok = c.tok}

\* the child exited with an error or without a result
ResultError(c) ==
    /\ c \in Result /\ ~Succeeded(c)
    /\ Cleanup(IF c.ans = "conflict" THEN "conflict" ELSE "failed")

\* the child exited with a snapshot: the attempt is over and apply() is called.
\* cloneSnapshot() keeps the catalog and drops the child's verdict, resolvedMutation.
ResultOk(c) ==
    /\ c \in Result /\ Succeeded(c)
    /\ applying' = applying \cup {[tok |-> c.tok, snap |-> c.snap]}
    /\ flight' = c.tok
    /\ current' = None /\ children' = Kept(None)
    /\ UNCHANGED <<diskVars, req, queue, active, attempts, timers, retry,
                   latest, out, stopVars, restarts>>

\* SIGTERM or SIGKILL takes effect, wherever the child is
Killed(c) ==
    /\ c \in Running /\ current # None /\ current.tok = c.tok
    /\ current.phase \in {"cleaning", "cancelling", "unconfirmed"}
    /\ Become(c, [c EXCEPT !.pc = "done", !.ans = "failed", !.base = None, !.saved = None])
    /\ UNCHANGED <<diskVars, req, queue, active, attempts, current, timers,
                   retry, applyVars, out, stopVars, restarts>>

\* cancel() resolves: the process is gone and the entry fails or is retried
CancelConfirmed ==
    /\ In("cleaning") /\ Gone(current.tok)
    /\ FailEntry(EntryOf(current.tok), current.err, None)
    /\ stopping' = IF stopping = "cleanup" THEN "apply" ELSE stopping
    /\ UNCHANGED <<diskVars, req, applyVars, hardBlocked, stopped, stopError, restarts>>

\* cancel() rejects: the process outlived SIGKILL's deadline.  Every caller is
\* turned away and no child is started any more.
CancelUnconfirmed ==
    /\ In("cleaning") /\ ~Gone(current.tok)
    /\ current' = [current EXCEPT !.phase = "unconfirmed"]
    /\ IF stopped
       THEN /\ stopError' = TRUE /\ stopping' = "apply"
            /\ UNCHANGED <<hardBlocked, active, queue, out>>
       ELSE /\ hardBlocked' = TRUE /\ active' = None /\ queue' = <<>>
            /\ out' = [e \in Entries |->
                          IF out[e] = "waiting" /\ (e = EntryOf(current.tok)
                                                    \/ \E k \in DOMAIN queue : queue[k] = e)
                          THEN "blocked" ELSE out[e]]
            /\ UNCHANGED <<stopError, stopping>>
    /\ UNCHANGED <<diskVars, req, attempts, children, timers, retry, applyVars,
                   stopped, restarts>>

\* observeLateAttemptExit
LateExit ==
    /\ In("unconfirmed") /\ Gone(current.tok)
    /\ current' = None /\ children' = Kept(None)
    /\ UNCHANGED <<diskVars, req, queue, active, attempts, timers, retry,
                   applyVars, out, stopVars, restarts>>

-----------------------------------------------------------------------------
(* apply() settles *)

Landed(x) == /\ applying' = applying \ {x}
             /\ flight' = IF flight = x.tok THEN None ELSE flight

\* resolveRouteMutation() finds no resolvedMutation in the snapshot and throws
Answer(e) == IF req[e].kind = "resolve" THEN "unresolved" ELSE "ok"

\* completeEntry(): an entry that is not active any more is left alone
ApplyDone(x) ==
    /\ Landed(x)
    /\ IF stopped
       THEN UNCHANGED <<latest, queueVars, out>>
       ELSE /\ latest' = x.snap
            /\ IF active = EntryOf(x.tok)
               THEN /\ out' = [out EXCEPT ![active] = Answer(active)]
                    /\ Pump(None, queue, current, retry)
               ELSE UNCHANGED <<queueVars, out>>
    /\ UNCHANGED <<diskVars, req, timers, retry, stopVars, restarts>>

\* failEntry() leaves an entry that is not active any more alone
ApplyFails(x) ==
    /\ Landed(x)
    /\ IF ~stopped /\ active = EntryOf(x.tok)
       THEN FailEntry(active, "failed", current)
       ELSE UNCHANGED <<queueVars, timers, retry, out>>
    /\ UNCHANGED <<diskVars, req, latest, stopVars, restarts>>

-----------------------------------------------------------------------------
(* stop() *)

\* stopOnce() up to what it has to wait for
Stop ==
    /\ stopping \in {"no", "failed"}
    /\ stopped' = TRUE /\ retry' = FALSE
    /\ timers' = [e \in Entries |-> 0]  \* one that is not cleared does nothing any more
    /\ out' = [e \in Entries |->
                  IF out[e] = "waiting" /\ (e = active \/ \E k \in DOMAIN queue : queue[k] = e)
                  THEN "stopped" ELSE out[e]]
    /\ active' = None /\ queue' = <<>>
    /\ stopping' = CASE In("cleaning") -> "cleanup" [] In("running") -> "cancel"
                     [] OTHER -> "apply"
    /\ current' = IF In("running") THEN [current EXCEPT !.phase = "cancelling"] ELSE current
    /\ stopError' = In("unconfirmed")
    /\ UNCHANGED <<diskVars, req, attempts, children, applyVars, hardBlocked, restarts>>

\* stopOnce()'s own cancel() settles
StopCancelled ==
    /\ In("cancelling")
    /\ IF Gone(current.tok)
       THEN current' = None /\ children' = Kept(None) /\ UNCHANGED stopError
       ELSE /\ current' = [current EXCEPT !.phase = "unconfirmed"]
            /\ stopError' = TRUE /\ UNCHANGED children
    /\ stopping' = "apply"
    /\ UNCHANGED <<diskVars, req, queue, active, attempts, timers, retry,
                   applyVars, out, hardBlocked, stopped, restarts>>

\* the last application has settled and stop() is answered
StopEnds ==
    /\ stopping = "apply" /\ flight = None
    /\ stopping' = IF stopError THEN "failed" ELSE "stopped"
    /\ UNCHANGED <<diskVars, req, queue, active, attempts, current, children, timers, retry,
                   applyVars, out, hardBlocked, stopped, stopError, restarts>>

-----------------------------------------------------------------------------
\* the machine goes down and a new Manager starts on the same directory
Restart ==
    /\ restarts < MaxRestarts /\ restarts' = restarts + 1
    /\ queue' = <<>> /\ active' = None /\ attempts' = [e \in Entries |-> 0]
    /\ current' = None /\ timers' = [e \in Entries |-> 0] /\ retry' = FALSE
    /\ applying' = {} /\ flight' = None /\ latest' = None
    /\ hardBlocked' = FALSE /\ stopped' = FALSE
    /\ stopping' = "no" /\ stopError' = FALSE
    /\ children' = {}
    /\ out' = [e \in Entries |-> IF out[e] = "waiting" THEN "lost" ELSE out[e]]
    /\ UNCHANGED <<diskVars, req>>

ChildMove == /\ \E c \in Running : ChildStep(c)
             /\ UNCHANGED <<queue, active, attempts, current, timers, retry,
                            applyVars, out, stopVars, restarts>>

Manager ==
    \/ Timeout \/ CancelConfirmed \/ CancelUnconfirmed \/ LateExit
    \/ StopCancelled \/ StopEnds
    \/ \E c \in Result : ResultError(c) \/ ResultOk(c)
    \/ \E e \in Entries : RetryFires(e)
    \/ \E x \in applying : ApplyDone(x) \/ ApplyFails(x)

Next ==
    \/ \E o \in UNION {Operations[e] : e \in Entries} : Enqueue(o)
    \/ ChildMove \/ \E c \in Running : Killed(c)
    \/ Manager \/ Stop \/ Restart

\* Timers fire, promises settle and apply() ends.  A child may hang anywhere.
Fairness == WF_vars(Manager)
Spec == Init /\ [][Next]_vars /\ Fairness
-----------------------------------------------------------------------------
\* The lifecycle, the children and the directory hold values of their types.
RouteTypeOK ==
    /\ file \in Catalogs
    /\ \A i \in Ids : journal[i] = None \/ (journal[i].digest \in Digests
                                              /\ journal[i].backup \in Catalogs)
    /\ \A i \in Ids : receipt[i] \in Digests \cup {None}
    /\ \A k \in DOMAIN queue : queue[k] \in Entries
    /\ active = None \/ active \in Entries
    /\ \A x \in applying : x.snap \in Catalogs
    /\ latest = None \/ latest \in Catalogs
    /\ \A e \in Entries : out[e] \in Settled \cup {"new", "waiting"}
    /\ stopping \in {"no", "cleanup", "cancel", "apply", "failed", "stopped"}

\* Two children never work on the directory at the same time, although attempts
\* time out, are cancelled, are retried and can survive their cancellation.
OneChild == \A c, d \in Running : c = d

\* An operation id commits at most once, however often its attempts are interrupted
\* after the commit point, retried, or asked for again.
CommitsOnce ==
    \A j, k \in DOMAIN commits : req[commits[j]].id = req[commits[k]].id => j = k

\* A caller that was told of a conflict or of a full queue can ask anew: its operation has
\* not committed and never will, whatever attempts of it are retried or left over.
RefusedNeverCommits ==
    \A k \in DOMAIN commits : out[commits[k]] \notin {"busy", "conflict"}

\* A lifecycle that reports "stopped" has no child left that could still write.
StoppedIsQuiet == stopping = "stopped" => Running = {}

\* No child writes that the lifecycle does not know of: never two together, and none
\* after a stop.
NoStrayChild == OneChild /\ StoppedIsQuiet

\* An operation commits once or not at all, and not at all if that is what its caller was
\* told.
OneVerdict == CommitsOnce /\ RefusedNeverCommits

\* An operation whose caller waits is never left with nothing under way, neither an attempt
\* nor an application nor a retry: a mutation of the queue starts when its predecessor ends.
\* This does not hold, with a single attempt already: when an attempt ends after its entry
\* was answered, completeEntry() returns before it calls pump().
NobodyForgotten ==
    (\E e \in Entries : out[e] = "waiting") /\ ~stopped /\ ~hardBlocked =>
        current # None \/ applying # {} \/ retry

\* retryTimer is one field, but it can be overwritten: while a snapshot is being applied
\* the entry is attempted again, and both attempts may fail
OneRetryTimer == \A e, f \in Entries :
    timers[e] <= 1 /\ (timers[e] > 0 /\ timers[f] > 0 => e = f)

\* The entry that was taken from the queue never stays there, whatever its children do and
\* however many attempts it has, unless the lifecycle is blocked or there were two retry
\* timers.
ActiveSettles == []OneRetryTimer => []<>(active = None \/ hardBlocked)

\* stop() is answered, however the attempt that is cancelled behaves.
StopAnswered == []<>(stopping \notin {"cleanup", "cancel", "apply"})

\* Nobody waits for the lifecycle for ever: neither an operation it has started, unless it
\* is blocked or had two retry timers, nor stop().
EveryCallIsAnswered == ActiveSettles /\ StopAnswered

\* the atomic catalog is the directory, read as recovery would leave it
Atomic == INSTANCE AtomicCatalog WITH catalog <- Durable, req <- req, out <- out,
              Files <- Files, Entries <- Entries, None <- None

\* The lifecycle, its children and their journalled writes implement the atomic catalog:
\* a mutation takes effect as a whole and once, and every answer is true when given.
KeepsCatalog == Atomic!Spec
=============================================================================
