-------------------------- MODULE ThreadReservation --------------------------
(***************************************************************************)
(* createCodexThreadWithReservation: the reservation file of one key, the  *)
(* calls that create a Codex task for it, and the tasks that come to       *)
(* exist.  All calls run in one Manager, so what a call does between two   *)
(* awaits is one step; a crash may still fall between two writes of it.    *)
(***************************************************************************)
EXTENDS Naturals, FiniteSets

CONSTANTS Creators,     \* calls, each with the name of the task it would create
          Replacement,  \* is the key that of a replacement? (replacementForThreadId)
          NoTask

ASSUME ReservationAssumption ==
    /\ Replacement \in BOOLEAN
    /\ NoTask \notin Creators

VARIABLES record,   \* the reservation file; stale: older than staleCreatingMs
          creator,  \* where each call is
          known,    \* the task each call has been told of, NoTask before
          returned, \* the task each call has returned
          tasks,    \* tasks that exist
          named,    \* tasks that have their title
          overtaken \* history: a call has found the reservation stale while another
                    \* call was still at work on the key

reservationVars == <<record, creator, known, returned, tasks, named, overtaken>>

Stages == {"thread_created", "naming", "initial_turn"}
Reservation(state, task) == [state |-> state, task |-> task, stale |-> FALSE]

ReservationInit ==
    /\ record = Reservation("absent", NoTask)
    /\ creator = [c \in Creators |-> "idle"]
    /\ known = [c \in Creators |-> NoTask] /\ returned = [c \in Creators |-> NoTask]
    /\ tasks = {} /\ named = {} /\ overtaken = FALSE

Moves(c, to) == creator' = [creator EXCEPT ![c] = to]

-----------------------------------------------------------------------------
(* The call, up to create() *)

Reservable == record.state \in {"absent", "failed_before_create"}

\* reserveCreation succeeds and the reservation goes on to "creating"
ReserveCreation(c) ==
    /\ creator[c] = "idle" /\ Reservable
    /\ record' = Reservation("creating", NoTask)
    /\ Moves(c, "creating")
    /\ UNCHANGED <<known, returned, tasks, named, overtaken>>

\* a completed reservation answers
ReturnRecorded(c) ==
    /\ creator[c] = "idle" /\ record.state = "completed"
    /\ returned' = [returned EXCEPT ![c] = record.task]
    /\ Moves(c, "returned")
    /\ UNCHANGED <<record, known, tasks, named, overtaken>>

\* mutant: a reservation that names a task may be taken up too
StaleCreatingAnyStage == record.state \in {"creating"} \cup Stages /\ record.stale
StaleCreating == record.state = "creating" /\ record.stale

\* any other state blocks, an unreadable file too
Blocked(c) ==
    /\ creator[c] = "idle" /\ ~Reservable /\ record.state # "completed" /\ ~StaleCreating
    /\ Moves(c, "blocked")
    /\ UNCHANGED <<record, known, returned, tasks, named, overtaken>>

AtWork(c) == creator[c] \in {"asking", "missing", "creating"} \cup Stages

\* the stale reservation was written without a task: confirmMissing is awaited.  Nothing
\* keeps a second call from asking too, or from asking while create() still runs.
AskMissing(c) ==
    /\ creator[c] = "idle" /\ StaleCreating
    /\ Moves(c, "asking")
    /\ overtaken' = (overtaken \/ \E d \in Creators : AtWork(d))
    /\ UNCHANGED <<record, known, returned, tasks, named>>

\* a replacement is not looked for; otherwise the index lists no task of that title, and
\*   a task that its creator had not named yet is not listed
SeenMissing == Replacement \/ named = {}

ConfirmMissing(c) ==
    /\ creator[c] = "asking" /\ SeenMissing
    /\ Moves(c, "missing")
    /\ UNCHANGED <<record, known, returned, tasks, named, overtaken>>

\* failed_before_create, then reserveCreation once more
ReserveAgain(c) ==
    /\ creator[c] = "missing"
    /\ record' = Reservation("creating", NoTask)
    /\ Moves(c, "creating")
    /\ UNCHANGED <<known, returned, tasks, named, overtaken>>

\* a candidate is listed, or the question fails
NotConfirmed(c) ==
    /\ creator[c] = "asking"
    /\ record' = Reservation("uncertain", NoTask)
    /\ Moves(c, "blocked")
    /\ UNCHANGED <<known, returned, tasks, named, overtaken>>

-----------------------------------------------------------------------------
(* create() *)

\* thread/start: the task exists before its creator knows (external)
TaskStarts(c) ==
    /\ creator[c] = "creating" /\ c \notin tasks
    /\ tasks' = tasks \cup {c}
    /\ UNCHANGED <<record, creator, known, returned, named, overtaken>>

\* thread/name/set (external)
NameSet(c) ==
    /\ creator[c] = "naming" /\ c \notin named
    /\ named' = named \cup {c}
    /\ UNCHANGED <<record, creator, known, returned, tasks, overtaken>>

\* onStage
Stage(c) ==
    /\ creator[c] \in {"creating"} \cup (Stages \ {"initial_turn"}) /\ c \in tasks
    /\ creator[c] = "naming" => c \in named
    /\ LET next == CASE creator[c] = "creating" -> "thread_created"
                     [] creator[c] = "thread_created" -> "naming"
                     [] creator[c] = "naming" -> "initial_turn"
       IN /\ record' = Reservation(next, c)
          /\ Moves(c, next)
    /\ known' = [known EXCEPT ![c] = c]
    /\ UNCHANGED <<returned, tasks, named, overtaken>>

\* create() returns, without an initial turn when there is no prompt
Complete(c) ==
    /\ creator[c] \in {"naming", "initial_turn"} /\ c \in named
    /\ record' = Reservation("completed", c)
    /\ returned' = [returned EXCEPT ![c] = c]
    /\ Moves(c, "returned")
    /\ UNCHANGED <<known, tasks, named, overtaken>>

AfterError(c) == Reservation("uncertain", known[c])

\* create() throws, wherever it is
CreateThrows(c) ==
    /\ creator[c] \in {"creating"} \cup Stages
    /\ record' = AfterError(c)
    /\ Moves(c, "blocked")
    /\ UNCHANGED <<known, returned, tasks, named, overtaken>>

-----------------------------------------------------------------------------
(* The Manager dies, after any of the writes of a step. *)

CrashWith(r) ==
    /\ record' = r
    /\ creator' = [c \in Creators |-> IF creator[c] \in {"idle", "returned", "blocked"}
                                      THEN creator[c] ELSE "dead"]
    /\ UNCHANGED <<known, returned, tasks, named, overtaken>>

ManagerDies ==
    /\ \E c \in Creators : creator[c] \notin {"idle", "returned", "blocked", "dead"}
    /\ CrashWith(record)

\* between the writes of ReserveCreation: the file is empty, or says "reserved"
CrashReserving ==
    /\ Reservable /\ \E c \in Creators : creator[c] = "idle"
    /\ \/ CrashWith(Reservation("reserved", NoTask))
       \/ record.state = "absent" /\ CrashWith(Reservation("unreadable", NoTask))

\* between the writes of ReserveAgain
CrashReservingAgain ==
    /\ \E c \in Creators : creator[c] = "missing"
    /\ \E s \in {"failed_before_create", "reserved"} : CrashWith(Reservation(s, NoTask))

\* staleCreatingMs have passed, whether or not create() still runs: it has no deadline
GrowStale ==
    /\ record.state \in {"creating"} \cup Stages /\ ~record.stale
    /\ record' = [record EXCEPT !.stale = TRUE]
    /\ UNCHANGED <<creator, known, returned, tasks, named, overtaken>>

CreatorStep(c) ==
    \/ ReserveCreation(c) \/ ReturnRecorded(c) \/ Blocked(c) \/ AskMissing(c) \/ ConfirmMissing(c)
    \/ ReserveAgain(c) \/ NotConfirmed(c) \/ Stage(c) \/ Complete(c) \/ CreateThrows(c)

ReservationNext ==
    \/ ManagerDies \/ CrashReserving \/ CrashReservingAgain \/ GrowStale
    \/ \E c \in Creators : CreatorStep(c) \/ TaskStarts(c) \/ NameSet(c)

ReservationSpec == ReservationInit /\ [][ReservationNext]_reservationVars

-----------------------------------------------------------------------------
\* The file and the calls are well formed.
ReservationTypeOK ==
    /\ record.state \in {"absent", "unreadable", "reserved", "creating", "completed",
                         "uncertain", "failed_before_create"} \cup Stages
    /\ record.task \in Creators \cup {NoTask} /\ record.stale \in BOOLEAN
    /\ creator \in [Creators -> {"idle", "asking", "missing", "creating", "returned",
                                 "blocked", "dead"} \cup Stages]
    /\ known \in [Creators -> Creators \cup {NoTask}]
    /\ returned \in [Creators -> Creators \cup {NoTask}]
    /\ tasks \subseteq Creators /\ named \subseteq tasks
    /\ overtaken \in BOOLEAN

\* the Manager died before the call heard of its task
Abandoned(c) == creator[c] = "dead" /\ known[c] = NoTask

\* One task is created for a key, through errors, crashes and the retries that follow,
\* not counting a task whose creator's Manager died before it was told of it: that one
\* has no title, and no look at the index finds it.
CreatesOnce == \A c, d \in tasks : c = d \/ Abandoned(c) \/ Abandoned(d)

\* The task a call has returned is the one on file, also after errors, late answers and
\* crashes of other calls, so that every later call returns it too.
AnswerOnFile == \A c \in Creators : returned[c] # NoTask =>
    record.state = "completed" /\ record.task = returned[c]

\* "Concurrent calls and retries after an HTTP timeout share or reuse the same creation
\* result instead of creating duplicate tasks."
OneTask == CreatesOnce /\ AnswerOnFile

\* All calls of a key agree on one task, through errors, crashes between any two writes
\* and retries, as long as no call finds the reservation stale while another call still
\* works on the key: one in a create() that takes more than five minutes, or one that
\* awaits its look at the index.
OneTaskInTurn == overtaken \/ OneTask

=============================================================================
