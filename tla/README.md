# RabiRoute: TLA+ models, model checking and proofs

RabiRoute is an agent-neutral message gateway: adapters take messages in, a
Manager process routes them to agents, keeps plans, boards and routes on disk,
and sends replies and mutations out through services that can fail. This
directory models the parts of the TypeScript core (`src/src`) whose correctness
depends on interleavings, crashes and failures. File and line references below
are to that source tree; the exact lines behind every definition are in
`PROJECT.json` (`map`).

## 1. Inventory

| Component | State it keeps | Operations | What is hard | Status |
|---|---|---|---|---|
| Durable delivery, `manager/durableDeliveryIdempotency.ts` | a receipt file per deliveryId, a mutation lock file, a heartbeat worker per execution | `executeDurableDelivery`: reserve, wait, claim, deliver, recover, retry, settle | processes and hosts, crashes between effect and record, leases, failing I/O | modelled |
| File lock, `shared/filePersistence.ts` | a lock file with owner record and mtime | `withFileLockSync`, staleness reclaim, release | check-then-unlink races, dead owners | lock modelled; `atomicWriteFileSync` is one atomic step |
| Agent send front, `manager/agentSendIdempotency.ts` | recent replies, shared deliveries, receipts | `executeIdempotentAgentSend` | check before an await, record after it; restarts | modelled |
| Agent requests, `agentRequests/*.ts`, `manager/messageProcessingAutomationService.ts` | records in memory and in a JSON file, timers | prepare, bind, commit, abort, recover, turn end, reminder, cancel, replace, restart | unconfirmed deliveries, failing writes, reminders racing answers | modelled |
| Thread reservations, `codexThreadCreationReservations.ts` | a reservation file per task | reserve, create by stages, stale recovery | read-then-write without a lock, Manager deaths | modelled |
| Manager instance lock, `managerInstanceLock.ts` | a pipe or socket address, a diagnostic file | acquire, probe, release | probe-then-unlink | modelled |
| Storage mutation pool, `manager/managerStorageMutationPool.ts` | queue, active request, child slot, blocked slot, stop promise | `execute`, `stop`, child events, deadlines, aborts | late answers, children that do not die, stop races | modelled |
| Storage mutation child, `manager/managerStorageMutationChild.ts` | one request | run, answer | killed mid-way | partly: its protocol, not the mutations |
| Read worker pool, `manager/managerReadWorkerPool.ts` | queues, workers, leases shared by all pools, shared reads | run, subscribe, stop, start | lanes held by dying workers, several pools | modelled |
| Route catalog, `manager/routeCatalog*.ts` | route files, journals, receipts, an operation queue, one child | capture, replace, upsert, remove, resolve, stop | crashes at every step, lost answers, children that outlive SIGKILL | modelled |
| Plugin kernel, `plugin-kernel/generationRuntime.ts` | generations, activations, effects | switch, fail, patch, dispose | partial commits, late failures | modelled |
| Board persistence, `messageProcessing/persistence.ts` | pending snapshot, active write, timer, stop promise | `write`, `stop`, `start` | coalescing with failing asynchronous writes | modelled |
| Message board, `messageProcessing/board.ts` | requirements and their outcomes | report, claim, hand off, outcome | long call sequences | not modelled, planned |
| Message agent pool, `messageAgentPool.ts` | slots, assignments | assign, notify, release | notification through durable delivery | not modelled, planned |
| Plan storage, `plan-storage/internal/lease.ts`, `planStorage*.ts` | lease, journal, packages | acquire, fence, reconcile | crash recovery | not modelled, planned |
| Lease registry, failure circuit, `runtime/` | leases, counters | register, trip, reset | sequential | not modelled |
| Control plane routes, routing, adapters, outbox, history, Codex bridge, RabiLink, persona sync, role knowledge | files and connections | I/O and data transformation | external protocols | not modelled |
| WebGUI, desktop shells, Android and AIUI apps, speech plugin | user interfaces and separate programs | | | not modelled |

Interactions. The HTTP routes call `executeIdempotentAgentSend`, the agent
request store (through `agentThreads.ts`), the read pools, the route catalog's
lifecycle and the storage mutation pool. The pool forks a child process, which
runs every mutation through `executeDurableDelivery` (with the request's
idempotency key as deliveryId), so that a killed child or a repeated request is
settled by the receipt; so does an agent send. The receipt is changed under
`withFileLockSync`; a worker thread renews its lease without taking that lock.
The route catalog forks a child per attempt, which recovers the journals of its
predecessors before it does anything. A reminder of an agent request is a send
to a task, which the thread reservation creates when it is missing. The message
board hands its state to the board persistence.

## 2. Modules

| Module | Models |
|---|---|
| `DeliveryContract` | what `executeDurableDelivery` promises: at most one effect, answers that are true when given |
| `DurableDelivery` | the protocol for one deliveryId, all its calls, the receipt, external requests, crashes |
| `HeartbeatFence` | the heartbeat worker's `renew()` against a contender's `claimReceipt`, one file operation per step |
| `FileLock` | `withFileLockSync`, one file operation per step |
| `AgentSend` | `executeIdempotentAgentSend` over the receipts |
| `AgentRequests` | the store of requests between agents, its senders, recovery and reminders |
| `ThreadReservation` | `createCodexThreadWithReservation` |
| `InstanceLock` | `acquireManagerInstanceLock` and `release()` |
| `StorageMutationPool` | the pool and its children |
| `ReadWorkerPool` | several `ManagerReadWorkerPool`s and the lanes they share |
| `AtomicCatalog` | what callers of the route catalog may rely on |
| `RouteJournal` | the child: recovery and the journalled write, one file operation per step |
| `RouteCatalog` | the Manager's `RouteCatalogStartupLifecycle`, composed with `RouteJournal` |
| `PluginGeneration` | `GenerationRuntime` |
| `BoardPersistence` | `CoalescingMessageProcessingBoardPersistence` |
| `MC*` | instances for TLC |
| `FileLockProofs`, `BoardPersistenceProofs`, `RouteCatalogProofs` | theorems about the module of that name, checked with TLAPS |
| `DurableDeliveryProofs`, `HeartbeatFenceProofs` | the same, and about `MCDelivery` and `MCFencing`, which put them next to others |
| `ManagerProofs` | theorems about `StorageMutationPool`, `PluginGeneration`, and both in `MCManager` |
| `ResourceProofs` | theorems about `InstanceLock`, `ReadWorkerPool`, and all of `MCResources` |
| `AgentProofs` | theorems about `AgentSend`, `AgentRequests` and `ThreadReservation` |

Layers and refinements. `FileLock` is the lock that `HeartbeatFence` takes as
atomic; `HeartbeatFence` justifies (and on several hosts refutes) the atomic
ownership proof of `DurableDelivery`; `DurableDelivery` implements
`DeliveryContract` (`Promise == INSTANCE DeliveryContract WITH ...`, property
`KeepsContract`, also proved); `AgentSend` uses the receipts by what
`DurableDelivery` shows of them. `RouteCatalog` extends `RouteJournal` with the
Manager's side, and the two together implement `AtomicCatalog`
(`Atomic == INSTANCE AtomicCatalog WITH catalog <- Durable, ...`, property
`KeepsCatalog`): `Durable` is the directory as the recovery of the next child
would leave it.

The definitions that a comment calls mutants are plausible bugs in another one, X;
each property is violated once the matching mutant replaces X (`PROJECT.json`,
`mutants`), so no property holds vacuously.

### DurableDelivery

A call is its `executionId`. `pc` follows `executeDurableDelivery` and
`executeClaimedDelivery` from await to await. The receipt has the code's states
(`reserved` is never written and left out) plus `partial`, the file between
`openSync("wx")` and its first complete content. Digests are compared, never
computed. Time is the bit `expired`: the lease can run out only while no
heartbeat of the owner renews it. An external request is flying, landed or lost,
independently of whether its sender still lives or has seen an error.

Abstractions to know about: what runs under the mutation lock is one step; a file
operation that throws (`IOMayFail`) leaves the file as it was, so an error
*after* the commit (a lock release that throws) is not modelled; `deliver()`
returns a defined result; `recover()` is external and authoritative: it says
"retry" only if nothing has taken effect and nothing is under way. With a
recovery that guesses, no protocol of this kind delivers at most once.

### HeartbeatFence, FileLock

`HeartbeatFence` has two threads per process: `main` (claim, then wait for the
heartbeat) and `worker` (`look`, `open`, `recheck`, `touch`, `verify`,
`lookAgain`). Every write of the receipt is a rename: the path gets a new inode
(`file.inode`), while the worker's descriptor (`fd`) stays with the file it opened, and
`RenewTouch` (`futimesSync` on the descriptor) reaches the receipt only as long as both
are the same. `FileLock` has a process per owner token; the reclaim's judgement and its
unlink, and the release's check and its unlink, are separate steps. `CrashInLock`
and `SlowCreate` open or close two situations that the theorem excludes.

### AgentSend

A send is a deliveryId with a request: its content, whether it comes from a
message-processing agent (`pooled`: equal contents share a delivery) and whether it
is a permitted follow-up. The table of recent replies and the table of shared
deliveries are in memory; a restart empties both and the first is hydrated from
the receipts, without fingerprints. The outbox posts a request once it has it, and
may be asked (`AskOutbox`) what became of it. The entry of a shared delivery expires two
minutes after the delivery began, whether or not it is still under way
(`SharingExpires`): the post has no timeout (`napcat.ts:228`). Calls that joined it
still get its result (`poster`), a new call posts beside it, and when the late delivery
fails it removes whatever entry is there by then, also its successor's (`Unshare`, lines
236 and 239 delete unconditionally). `overran` records the contents to which this happened.

### AgentRequests

A delivery may answer one request and be a request itself. `call` follows the send
handler of `agentThreads.ts` from await to await, `records` is the store's map,
`filed` the JSON file; a write may fail (`WritesFail`), and what the code then takes
back in memory, and what it does not, differs from operation to operation and is
modelled as it is. A message arrives or is lost whatever its sender believes.
`reminding` is the reminder under way. Recovery looks into the rollout of the
target task for evidence of a reply. `ConfirmOriginal` records that a request was
delivered when its reply arrives first; an original that is itself a reply leaves the
request it answers as it is, since the commit there names no request it replies to.

### ThreadReservation, InstanceLock

`ThreadReservation` is one key: the file, the calls of one Manager life after
another, the tasks and their titles. `confirmMissing` looks tasks up by title, so it
sees only named ones. Nothing keeps two calls from judging one stale reservation, and
`create()` has no deadline, so that a reservation can be judged stale while its creator is
at work; `overtaken` records that one of these has happened. The instance has `Replacement = TRUE`, with which the guard of
`ConfirmMissing` is weaker; its behaviours include those of the other value.
`InstanceLock` covers the pipe of Windows and the Unix socket (`unix`).

### StorageMutationPool, ReadWorkerPool

Both classes run on one event loop: a step is a task with its microtasks. In the
first a queued `drain()` is a state of its own (`drainDue`), because API calls of
other microtasks may come first. `flight` is the slot's `terminationFlight` (SIGTERM,
SIGKILL, failed); `work` and `committed` say what a child is doing and what reached
the disk. In the second a drain goes through all pools (`visits`); a worker keeps its
lease until it has closed, whatever became of its read.

### RouteJournal, RouteCatalog

A mutation merges its operation id into every route file, so that a file's content
is the set of mutations it holds, or `Torn` while `writeFileSync` is at work. The
child's steps are its file operations; it can be killed or hang between any two.
The Manager has a queue of entries, one active entry with its attempt, retry
timers, applications under way, the hard block after a child that would not die,
and `stop()`. `cloneSnapshot` (lines 132-144) copies a child's snapshot without its
`resolvedMutation`, so that the caller of `resolveMutation()` gets the error of
`controlPlaneRoutes.ts:1673` whatever the child has found (`Answer`). `latest` is what
callers may build on: the catalog that a guarded mutation expects. A mutation is taken to
leave a content that was not there before; one that restores an earlier content, and with
it the hash that an older guarded mutation expects, is not modelled. `Restart` takes the
whole machine down. The status shown to observers
decides nothing and is left out; `fork` failing at once is a child that fails at once.

### PluginGeneration, BoardPersistence

In `PluginGeneration` a plugin's revision is its manifest, entry and config, a scope
one activation. `op` is the operation that runs, with its local variables, behind
`#mutationTail`. Components of linked plugins are prepared one after the other,
effects committed plugin by plugin; both may fail. In `BoardPersistence` snapshots
are numbered in order of acceptance; the worker's rename is a step between start and
end of a write, and a write may fail before or after it.

## 3. Runs

Parts of the system that share no state are checked in one run where this is
convenient: the MC module has a variable `part` that its first state chooses, and only
that part moves. The states are the sum of the parts' states and not their product,
fairness is conditioned on the part, and a property speaks of the variables of one part,
except the conjunctions that the MC modules put together from the parts' own: the type
invariants (`ResourcesTypeOK`, `ManagerTypeOK`, `RecordsTypeOK`, `FencingTypeOK`; also
`RouteTypeOK`), `DeadOwnersGiveWay` and `EveryCallReturns`. The other conjunctions
(`LanesAccounted`, `RecordsAgree`, `GenerationIsWhole`, `NoStrayChild`, `OneVerdict`, ...)
are defined in their modules, beside the parts they name.

| Run | Instance | Checks |
|---|---|---|
| `resources` | lock: 2 processes of a host; instance: 3 Managers, pipe and socket; board: 3 snapshots; read: 2 pools, 3 readers (2 may share), 3 lanes of which 2 at a time, queue of 1, 2 stops; fairness | `MutualExclusion` and `OneManagerByPipe`: one holder; `DeadOwnersGiveWay`; `NewestKept`, `StopSaves`, `BoardSettles`: no snapshot lost; `LanesAccounted`: every lane given back once; `ReadCallsSettle`: no lost wake-up |
| `manager` | pool: 3 requests, 2 children, queue of 1; kernel: 3 plugins with 4 profiles, 3 operations, 1 runtime failure; fairness | `OneWriter`, `NoRequestLost`, `NoLateCommit` (none after the verdict), `StoppedOwnsNothing`, `EveryCallEnds`; `GenerationIsWhole`: active plugins are alive and served, nothing else is left behind (of profiles between which nothing moves); `FailureIsContained` |
| `delivery` | receipts: 4 calls in 2 processes of one host, one with another payload, failing I/O; requests: a request, a reply that asks back, another reply, failing writes, 2 events (turn ends, replacements, restarts); reservation: 3 calls | `AtMostOnce` (one effect), `SoleExecutor`, `SendingIsWorkedOn` (an owned receipt has a worker), `KeepsContract`; `RecordsAgree`: true records, tracked follow-ups, closed requests not due; `OneReplyArrives`, `AnsweredIsFinal`; `OneTaskInTurn`: one task per key, the one every call returns |
| `fencing` | calls: 2 calls on 2 hosts with every option, failing heartbeats and I/O; files: 3 processes on a machine or 2 on two, slow workers; sends: 2 sends in 4 combinations, 2 restarts; fairness | `ReplacementUntouched`, `CompletedIsFinal`, `AnswersAgree`: a replaced call changes nothing; `SoleDelivererOnOneMachine`, `LeaseIsOwn` (a worker renews no other's lease); `OnePostingInTime`, `RecentReplyBlocks`; `EveryCallReturns` |
| `route_catalog` | 2 files, 2 operation ids, 2 payloads, 3 entries, 3 attempts each, 1 restart; fairness | `NoStrayChild` beside another or after a stop; `OneVerdict`: committed once, and never after a refusal; `KeepsCatalog`; `EveryCallIsAnswered` |
| `file_lock_race` | 3 processes | **violated**: `MutualExclusion` (finding 1) |
| `delivery_remote_retry` | 2 calls, 2 hosts | **violated**: `DeliveringIsFenced` (finding 2) |
| `heartbeat_race` | 2 hosts | **violated**: `SoleDeliverer` (finding 3) |
| `route_catalog_forgotten` | 1 file, the capture of the start and 2 mutations, 1 attempt each | **violated**: `NobodyForgotten` (finding 4) |
| `plugin_moving` | 2 plugins, a key that moves | **violated**: `NothingLeft` (finding 5) |
| `agent_send_repeat` | a reply and a follow-up | **violated**: `RepeatGetsResult` (finding 6) |
| `agent_reminder` | a request and two replies | **violated**: `NextReminderScheduled` (finding 7) |

Bounds. Four calls in two processes are a running execution, a contender of the same
process, one that takes over after a death, and one with another payload; the first two
are alike, and TLC takes them as symmetric (`Alike`: `delivery` has no liveness). The lock
needs three processes for its race (the dead owner, the winner, the late unlinker)
and two show the intended behaviour; three Managers are a dying one, its successor
and one that probes meanwhile. Three calls let a creation fail or its
Manager die, be judged stale and be repeated, while another call looks on. With three requests and a queue of one, one request
runs, one waits and one is refused; two children give a replacement. Two pools, two
lanes at a time and three places make the pools compete. Two files are a mutation
half done, three entries a mutation, a rival that expects what its caller saw, and a
repeat or the question what became of the first. Three attempts are the least with two
retry timers of one entry (section 4); the code's default is five, and the theorems speak
of any number. Finite sets of calls run out
and processes stop for good, so deadlock is not checked: a stop that is wrong shows as
a liveness property violated.

Fairness. Weak fairness of the steps of a live process, of timers, promises and
microtasks, and of the ageing of a file. `deliver()`, `recover()`, plugin activations
and the catalog's `apply()` end: the code has no deadline of its own for the last, and
a hanging one would block `stop()`. No fairness is assumed of any child process or
worker, nor of callers. For the board, writes do not fail for ever (strong fairness of
the rename and the success), which is what retrying relies on. `ReadCallsSettle` excepts the
state in which workers that survived SIGKILL hold every lane of the process
(`Exhausted`): the queue of a third pool then has no deadline.

## 4. Findings

1. `filePersistence.ts:58`: a waiter judges a lock stale, another waiter removes
   it and creates its own, and the first then unlinks that one. Both are inside.
2. `durableDeliveryIdempotency.ts:792` and `:815`: `return deliverOnce(false)` in a
   `try` with a `finally` that stops the heartbeat. The promise is not awaited
   there, so the one authorised retry runs without a heartbeat, and a call on
   another host may take over once the lease has run out. (On one host the owner's
   live process protects it.)
3. `durableDeliveryIdempotency.ts:178`: the second look at the mutation lock does
   not see a claim that began after the first look and ended before the second,
   if it read the expired receipt before the renewal and wrote after the re-read.
   Two hosts then deliver together.
4. `routeCatalogStartupLifecycle.ts:695`: `pump()` (line 581) does not look at
   `applicationFlight`, so that an `enqueue` during an application starts the next attempt
   of the entry that is still active. The application ends and answers the entry; when the
   superfluous attempt ends, `completeEntry` returns at line 695, before it would pump at
   line 719. What is queued then waits with nothing under way until the next call. No
   failure is needed; routeCatalogStartupLifecycle.test.ts:342 has "queued mutation did
   not start after capture closed" as the failure of a test whose `apply` is synchronous.
5. `generationRuntime.ts:588`: a contribution key moves from one plugin to another, the
   first one's commit fails and its old activation, with the key, is kept. The second
   validation throws outside every `try` and plugins already committed stay alive without
   belonging to any generation.
6. `agentSendIdempotency.ts:328`: the recent-reply check comes before the receipt. After
   a follow-up, or after a restart, the repeat of a completed delivery is refused as a
   conflicting reply and does not get its result.
7. `store.ts:624`: the result of a reminder clears `nextReminderAt`. A turn of the target
   that ended while the reminder was being delivered is followed by no reminder.

Findings 2 and 3 need a receipt directory shared by hosts; the one-host theorems
below show that a single machine is safe given the lock.

Seen while modelling and stated in the hazards, without a run of their own:

- On a Unix socket two Managers can hold the lease (`OneManager` fails with three
  Managers; `OneManagerByPipe` is what holds).
- Two calls that judge one stale reservation at the same time, or a `create()` longer
  than the stale threshold, create two tasks or overwrite a completed answer: `OneTask`,
  which is "Concurrent calls and retries after an HTTP timeout share or reuse the same
  creation result instead of creating duplicate tasks" (rabi-agent-interfaces_en.md:669),
  is false. What is checked and proved is `OneTaskInTurn`: it holds until a call finds the
  reservation stale while another is at work. The death of a Manager between
  `thread/start` and the record of the task's id also leads to a second task: the first
  has no title yet and nobody finds it. Both properties leave such abandoned tasks out.
- A delivery of shared content that takes longer than two minutes can be posted beside a
  second one (`OnePosting`, "coalesce identical concurrent content", is false);
  `OnePostingInTime` holds until a delivery has outlived its entry.
- `GET /gateways/mutations/:operationId`, which returns "`committed` or `not_committed`"
  by code-architecture_en.md:460, always fails with "Route mutation resolution is
  unavailable.": `cloneSnapshot` drops the child's verdict. `OneVerdict` therefore speaks of
  the refusals that callers do get, a conflict or a full queue.
- `failEntry` sets `retryTimer` (line 773) without clearing the one that may be set. When
  an application and the attempt started beside it (finding 4) both fail, the entry has
  two timers. From three attempts on the left-over one attempts an entry again that was
  answered, or is spent while a stale attempt is current, and the active entry then waits
  for the next call. `EveryCallIsAnswered` excepts operations once there were two timers
  (`OneRetryTimer`). `OneVerdict` and `KeepsCatalog` hold nevertheless.
- `pump()` not looking at `applicationFlight` (finding 4) also lets the next mutation run
  while the previous snapshot is still being applied: the older application can end last,
  and an older catalog is published after a newer mutation was answered.
- An activation that fails keeps the plugin's old revision. If the profile has meanwhile
  moved to another provider, or the old provider's new revision, in another component, no
  longer provides it, the old revision runs on without what it requires
  (`RequiresServed` fails with two plugins; `SteadyRequirements` excludes it).
- A reply on its way when a party of its request is replaced loses its reservation, and a
  second reply can arrive (`OneReplyArrives` leaves out replaced requests).

## 5. Theorems

All proofs are checked by TLAPS without assumptions other than the named ASSUMEs
and the hypotheses given here. A theorem holds for every value of the constants that
the ASSUMEs allow: any number of processes, calls, children, scopes and files, whatever
bounds the runs use. Every safety and action property of a passing run is stated by one.
The invariants below were checked with TLC on the runs' instances before they were proved.

Three kinds go together for a component: its types, that nothing bad happens, and, where
the run checks that callers are answered, that nobody waits for nothing. The last are
invariants too: whoever waits has a timer, a termination, a queue to be visited or an
application under way. They are what the liveness properties rest on and where a lost
wake-up shows; that the step which is due also leads to the answer is left to TLC.

- `FileLockProofs`: `LockTypeCorrect`; `LockExcludes`: on one host, if nobody dies
  inside the lock and the file is filled before it counts as stale, the lock
  excludes, for any number of processes. The invariant `LockInv` says that
  whoever is past creation and not yet released owns the file at the path and
  that no judged waiter exists while an owner lives. Finding 1 shows that the
  crash hypothesis is needed. `TwoExcludeThroughCrashes` does without it for two
  processes: by `PairInv` whoever has judged a file stale is the only one alive,
  and finding 1 needs a third.
- `DurableDeliveryProofs`, with failing I/O and heartbeats and every combination of
  options. On any number of hosts: `DeliveryTypeCorrect`, `NamedCallIsWorking`,
  `ReplacedCallKeepsOff`, `AnswersStayTrue` and `CompletedReceiptIsFinal`. Their
  `ReceiptInv` says that a new file has one creator (`CreatorInv`), what a live call that
  the receipt names is doing (`NamedInv`), and that a reported success is on file
  (`AnswerInv`). On one host: `DeliveredAtMostOnce`, `TakeoverIsExclusive`,
  `OneMachineFences` (finding 2 needs the second host) and `ContractKept`, the refinement
  of `DeliveryContract`. Their `DeliveryInv` adds `OwnershipInv` (a live executing call
  owns the receipt: on one host a live owner is never replaced), `FlightInv` (which
  requests can exist, and that a retry starts only with none flying and no effect) and
  `TruthInv` (what the receipt's state and the answers say about the effect).
- `HeartbeatFenceProofs`: `FenceTypeCorrect`; `OneDeliverer`: if all processes are on one
  machine, no two of them deliver together, however slow a heartbeat worker is;
  `SuccessorsLeaseIsItsOwn`: on any machines an expired lease comes back only through the
  running worker of the process that the receipt names, although claims fall between the
  file operations of a worker. `FenceInv` has the holder of the mutation lock (`MutexInv`),
  says that on one machine a contender overwrites dead owners only (`OwnerInv`), and that
  a worker past its first look has open a file that was its process's, so that the same
  inode at the path means the same owner (`DescriptorInv`).
- `ManagerProofs`, storage mutation pool: `PoolTypeCorrect`, `PoolHasOneWriter`,
  `PoolStopIsTrue`, `AcceptedIsNeverLost` and `AnswersPrecedeNoCommit`. `SlotInv` ties the
  running child, the slot, the active request and the blocked slot together; `StopInv`
  says what is already given up when the pool no longer accepts; for the last two,
  `RequestInv` adds that a request is at exactly one place (`Placed`, over a queue without
  repetitions) and that a child which may still commit works on the active request or on
  one whose caller was told that the termination is unconfirmed (`WorkInv`).
  `PoolNeverSleeps`: while a request has no answer or a stop() waits, `drain()`, the
  active request's deadline or a termination is due, steps that no child can withhold
  (`WakeInv`: a queue has its microtask or an active request before it).
- `ManagerProofs`, plugin kernel. Whatever the profiles contribute: `PluginTypeCorrect`,
  `ActivePluginsLive`, `FailureStaysContained`. `KernelInv` says that what is still to do
  and what is decided are whole components (`SwitchInv`, over the lemma that the
  components part the plugins), that candidates are new activations (`FreshInv`, which is
  why a rollback cannot touch what runs) and that a queued failure was reported
  (`QueueInv`). `NothingIsLeft` assumes `SteadyContributions`: no capability and no
  contribution key moves from one plugin to another. Finding 5 is what happens otherwise.
  `GenerationStaysWhole` also assumes `SteadyRequirements`: what any revision of a plugin
  requires is provided within the component of every profile in which it can start;
  section 4 says what happens otherwise. The instance of the run `manager` satisfies both.
- `BoardPersistenceProofs`: `BoardTypeCorrect`, `NewestIsNeverLost` and `StopHasSaved`, for
  any number of snapshots. `PhaseInv` says that only an accepting persistence has a timer,
  never beside an active write, and that a waiting stop has a write to wait for.
  `BoardNeverSleeps`: what is scheduled stays scheduled or is being written until stop().
- `ResourceProofs`: `InstanceTypeCorrect` and `PipeElectsOne`, the latter on a named pipe
  (on a Unix socket it is false, section 4); `ReadTypeCorrect` and `LanesAreAccounted` for
  any pools, places and callers, from `ReadInv`: the counters of leases are the numbers of
  workers that hold one (`LeaseInv`), nobody waits for a read that is over (`WaitInv`), a
  stopped pool has no worker (`LifeInv`). `ReadsNeverSleep`: a caller
  that waits has pools that `drainAll` is to visit, a worker with a timer, or all lanes
  are held by workers that outlived SIGKILL; `StopsNeverSleep`: a waiting stop() has a
  termination under way. Their `VigilInv` says that a pool in which `drain` could start
  a read is still to be visited (`VisitInv`), that `drainAll` lists every open pool
  (`ListInv`), and that a stopping pool has no worker that nobody terminates (`LaneInv`).
- `AgentProofs`, agent sends: `SendTypeCorrect`; `ContentIsPostedOnce` (`OnePostingInTime`:
  who posts a content is the one the table names, as long as no delivery of it outlived its
  entry, `SharingInv`); `NoSecondReply` (a filled table that names no reply has none);
  `SentReceiptIsTrue` (a receipt never says "sent" of a content that was not posted, also
  one that a joined or recovered call wrote) and `JoinerHasAPoster` (a joined call waits
  for one that posts the same content and whose end it hears of), from `FrontInv`: calls in
  progress have open receipts (`OpenInv`), and a joined call names the delivery that it
  awaits, which is under way even when its entry has gone (`JoinedInv`).
- `AgentProofs`, agent requests, for any deliveries that answer each other:
  `RequestTypeCorrect`, `StoreIsTrue`, `RequesterGetsOneReply`, `AnswerIsFinal`. Their
  `RequestInv` says, entry by entry, what each status means for the reply and its
  reminders, that an answer is on file before anyone relies on it (`FiledInv`) and what
  keeps a second reply away from a request whose reply was sent (`SentInv`).
- `AgentProofs`, reservations: `ReservationTypeCorrect` and `KeyHasOneTask`
  (`OneTaskInTurn`), both without hypotheses. `ReservationInv`: until a call is overtaken,
  one call is at work on the key (`AloneInv`), at the stage that the file tells
  (`StageInv`), what a call was asked about has not been written since (`AskInv`), and the
  file keeps others out of a task whose creator left a trace (`TaskInv`).
- `RouteCatalogProofs`, for any entries, files, attempts, kills and restarts:
  `RouteTypeCorrect`, `NoChildIsStray`, and `CatalogIsWhole`: the
  directory as the next recovery leaves it (`Durable`) holds whole mutations, exactly
  those with a receipt, and changes by one whole mutation at a time. The latter's
  `LogInv` relates journals, receipts and file contents at every point of a journalled
  write (torn files are files that a journal restores), and `WriterInv` says what the one
  child at work has done so far. `VerdictIsOne`: an operation commits once, and never when
  its caller was refused; `CatalogIsKept`: lifecycle and children refine `AtomicCatalog`.
  They need no order of the attempts, because the catalog only grows: what a caller
  expects and what a child captured was the catalog at some time (`SeenInv`), so that who
  met a conflict once meets it in every later attempt (`Refused`, `DeniedInv`), what a
  child has answered stays true while its snapshot is on the way (`HonestInv`), and
  whoever is attempted has not been turned away for a full queue (`AskerInv`).
  `StopGoesOn`: the cleanup, cancellation or application that stop()
  waits for is under way (`AwakeInv`). That the queue goes on is false (finding 4).
- What the MC modules compose: `ManagerTypeCorrect`, `ResourcesTypeCorrect`,
  `RecordsTypeCorrect`, `FencingTypeCorrect` and `ManagerIsSafe` are about the
  specifications that the runs check. Each follows from a lemma that a behaviour of the
  composition is one of every part, if only by stuttering (`ManagerRunsBoth`,
  `ResourcesRunTogether`, `RecordsRunTogether`, `FencingRunsTogether`). The parts'
  specifications are taken without their fairness there: the fairness of a composition
  holds for the part that moves (`FairKernelSpec` is the kernel's own).

Only model-checked: the liveness properties (`DeadOwnersGiveWay`, `BoardSettles`,
`ReadCallsSettle`, `EveryCallEnds`, `EveryCallReturns`, `EveryCallIsAnswered`), since
fairness and ENABLED are outside the prover's reach. The properties of the runs that
expect a violation are false of the code, and the theorems name the hypotheses under
which their neighbours hold.

## 6. Not modelled

- The repository has some 196 thousand lines of implementation. Most of them are the web
  interface, the HTTP handlers of `controlPlaneRoutes.ts`, the RabiLink relay, message
  adapters and text processing over role files: sequential data transformation and
  transport I/O with no protocol of their own. The models cover the modules in which
  concurrency, failure and recovery are decided; as a share of all lines that is a few
  percent at most, and modelling the rest would mean writing down formatting.
- In modelled components: an error after a committed file operation; parsing, digests
  and texts; the Manager's fallback root; capability cycles, host capabilities and the
  order of disposal in the plugin kernel; a Manager that dies alone and leaves a catalog
  child behind; the extra template files of `ensure_persona`; delays (only that time passes).
- Message board, message agent pool and plan storage are state machines worth modelling
  and not modelled yet.

## 7. Plan

1. Modules: plan storage lease and reconciliation, which implements an atomic journalled
   update like the route catalog; the message board's requirements over
   `BoardPersistence`; the agent pool over `DeliveryContract`.
2. An exclusive lock as the common abstraction of `FileLock`, `InstanceLock` and the
   mutex of `HeartbeatFence`, implemented by the first two under the hypotheses of
   `LockExcludes` and `PipeElectsOne`.
3. Proofs: that `HeartbeatFence` on one machine implements the atomic ownership step of
   `DurableDelivery`; that `NobodyForgotten`, and
   `ActiveSettles` without its exception, hold of a lifecycle whose `pump()` waits for
   `applicationFlight`.
