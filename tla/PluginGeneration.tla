-------------------------- MODULE PluginGeneration --------------------------
(***************************************************************************)
(* GenerationRuntime of the plugin kernel: switch(), dispose(), a plugin's *)
(* lifecycle.fail and publishSourcePatch(), one after the other through    *)
(* #mutationTail.  A switch prepares the dependency components of the      *)
(* wanted plugins, checks the registries, commits the effects plugin by    *)
(* plugin, publishes the generation and disposes what it replaced; every   *)
(* activation and every commit may fail.                                   *)
(*                                                                         *)
(* A revision is a plugin's manifest, entry and config; a scope is one     *)
(* activation of it and owns its effects.  Components are handled in any   *)
(* order and so are the plugins of one component: the code's order follows *)
(* from instance names, which are free.  A disposer that throws is only    *)
(* recorded by the code, and the scope is closed all the same.             *)
(***************************************************************************)
EXTENDS Naturals, Sequences, FiniteSets

CONSTANTS Plugins,     \* instance ids
          Revisions,   \* [plugin, rev, provides, requires, optional, claims]
          Profiles,    \* the sets of revisions switch() may be called with
          Required,    \* readyRequires
          MaxCalls,    \* bound on calls of switch(), dispose() and publishSourcePatch()
          MaxFailures, \* bound on calls of lifecycle.fail
          NoOp

ASSUME PluginAssumption ==
    /\ \A r \in Revisions : r.plugin \in Plugins
    /\ \A w \in Profiles : /\ w \subseteq Revisions
                           /\ \A r, s \in w : r.plugin = s.plugin => r = s
    /\ MaxCalls \in Nat /\ MaxFailures \in Nat

VARIABLES
    waiting,      \* operations behind #mutationTail
    op,           \* the operation that runs, with its local variables
    running,      \* #active: the scopes of the current generation
    generation,   \* #current: a number for its identity
    degraded,     \* some record of #current is not active or carries an error
    live,         \* scopes whose effects and resources exist
    failing,      \* scopes that have called lifecycle.fail
    disposed,     \* #disposed
    calls,
    turn          \* switches that were begun

kernelVars == <<waiting, op, running, generation, degraded, live, failing, disposed,
                calls, turn>>

Scopes == [rev : Revisions, act : Nat]

\* the operations at the head of #mutationTail, with their local variables
SwitchOps == [kind : {"switch"}, phase : {"prepare", "commit"}, want : Profiles,
              todo : SUBSET Plugins, next : SUBSET Scopes, prepared : SUBSET Scopes,
              committed : SUBSET Scopes, flawed : BOOLEAN]
KernelOps == SwitchOps \cup [kind : {"cleanup"}, gone : SUBSET Scopes]
                       \cup [kind : {"patch"}, expect : Nat]

ASSUME NoOpAssumption == NoOp \notin KernelOps

KernelInit ==
    /\ waiting = <<>> /\ op = NoOp
    /\ running = {} /\ generation = 0 /\ degraded = FALSE
    /\ live = {} /\ failing = {} /\ disposed = FALSE
    /\ calls = 0 /\ turn = 0

-----------------------------------------------------------------------------
(* The capability graph *)

Instances(w) == {r.plugin : r \in w}
Provides(S) == UNION {s.rev.provides : s \in S}
Claims(S) == UNION {s.rev.claims : s \in S}
Of(S, p) == {s \in S : s.rev.plugin = p}
Wanted(w, p) == CHOOSE r \in w : r.plugin = p

\* planCapabilityGraph throws: a capability has two providers
Unplannable(w) == \E r, s \in w : r # s /\ r.provides \cap s.provides # {}

\* the least set of plugins with a required capability that nobody provides,
\* or only a plugin of the set
Unmet(w, r, S) == \E c \in r.requires : \A s \in w : c \in s.provides => s.plugin \in S
WaitingPlugins == [w \in Profiles |->
    {p \in Instances(w) : \A S \in SUBSET Instances(w) :
        (\A r \in w : Unmet(w, r, S) => r.plugin \in S) => p \in S}]

\* dependencyComponents: connected by required and optional capabilities
Linked(r, s) == \/ (r.requires \cup r.optional) \cap s.provides # {}
                \/ (s.requires \cup s.optional) \cap r.provides # {}
Component == [w \in Profiles |-> [p \in Instances(w) |->
    {q \in Instances(w) : \A S \in SUBSET Instances(w) :
        (p \in S /\ \A r, s \in w : (Linked(r, s) /\ r.plugin \in S) => s.plugin \in S)
            => q \in S}]]

\* buildGenerationSnapshots throws
Clash(S) == \E s, t \in S : s # t /\ (s.rev.provides \cap t.rev.provides # {}
                                      \/ s.rev.claims \cap t.rev.claims # {})

-----------------------------------------------------------------------------
(* Callers and plugins *)

Call(o) ==
    /\ calls < MaxCalls /\ calls' = calls + 1
    /\ waiting' = Append(waiting, o)
    /\ UNCHANGED <<op, running, generation, degraded, live, failing, disposed, turn>>

CallSwitch == \E w \in Profiles : Call([kind |-> "switch", want |-> w])
CallDispose == Call([kind |-> "dispose"])
CallPatch == Call([kind |-> "patch", expect |-> generation])

\* lifecycle.fail of a running plugin
Fail(s) ==
    /\ s \in live \ failing /\ Cardinality(failing) < MaxFailures
    /\ failing' = failing \cup {s}
    /\ waiting' = Append(waiting, [kind |-> "fail", scope |-> s])
    /\ UNCHANGED <<op, running, generation, degraded, live, disposed, calls, turn>>

-----------------------------------------------------------------------------
(* #mutationTail *)

Idle == op = NoOp /\ waiting # <<>>
Take(kind) == Idle /\ Head(waiting).kind = kind /\ waiting' = Tail(waiting)

\* switch() has nothing to do
Unchanged(w) ==
    /\ ~degraded /\ Cardinality(w) = Cardinality(running)
    /\ \A r \in w : \E s \in running : s.rev = r

BeginSwitch ==
    /\ Take("switch") /\ turn' = turn + 1
    /\ LET w == Head(waiting).want IN
         op' = IF disposed \/ Unplannable(w) \/ Unchanged(w) THEN NoOp
               ELSE [kind |-> "switch", phase |-> "prepare", want |-> w,
                     todo |-> Instances(w), next |-> {}, prepared |-> {},
                     committed |-> {}, flawed |-> FALSE]
    /\ UNCHANGED <<running, generation, degraded, live, failing, disposed, calls>>

At(phase) == op # NoOp /\ op.kind = "switch" /\ op.phase = phase

NewScope(r) == [rev |-> r, act |-> turn]

\* One component is prepared: it waits, is kept as it is, is activated, or its
\* activation fails and what ran before is kept.
Prepare(C) ==
    LET old == UNION {Of(running, p) : p \in C}
        new == {NewScope(Wanted(op.want, p)) : p \in C}
        Done(next, prepared, flawed) ==
            op' = [op EXCEPT !.todo = @ \ C, !.next = @ \cup next,
                             !.prepared = @ \cup prepared, !.flawed = @ \/ flawed]
    IN
    IF C \cap WaitingPlugins[op.want] # {}
    THEN Done({}, {}, TRUE) /\ UNCHANGED live
    ELSE IF {s.rev : s \in old} = {s.rev : s \in new}
    THEN Done(old, {}, FALSE) /\ UNCHANGED live
    ELSE \/ /\ ~Clash(new) /\ Claims(new) \cap Claims(op.next) = {}
            /\ Done(new, new, FALSE)
            /\ live' = live \cup new
         \/ Done(old, {}, TRUE) /\ UNCHANGED live

PrepareComponent ==
    /\ At("prepare")
    /\ \E p \in op.todo : Prepare(Component[op.want][p])
    /\ UNCHANGED <<waiting, running, generation, degraded, failing, disposed, calls, turn>>

\* the registries are built once before the effects are committed
Validate ==
    /\ At("prepare") /\ op.todo = {}
    /\ IF Clash(op.next)
       THEN op' = NoOp /\ live' = live \ op.prepared
       ELSE op' = [op EXCEPT !.phase = "commit"] /\ UNCHANGED live
    /\ UNCHANGED <<waiting, running, generation, degraded, failing, disposed, calls, turn>>

ToCommit == (op.prepared \cap op.next) \ op.committed

CommitScope(s) ==
    /\ At("commit") /\ s \in ToCommit
    /\ op' = [op EXCEPT !.committed = @ \cup {s}]
    /\ UNCHANGED <<waiting, running, generation, degraded, live, failing, disposed, calls,
                   turn>>

\* mutant: only the plugin that failed is disposed
RollbackOne(s) == {s}
\* the prepared scopes of the component of s
Rollback(s) == {t \in op.prepared : t.rev.plugin \in Component[op.want][s.rev.plugin]}

\* an effect does not start: its component goes back to what ran before
CommitFails(s) ==
    /\ At("commit") /\ s \in ToCommit
    /\ LET C == Component[op.want][s.rev.plugin] IN
         op' = [op EXCEPT !.next = {t \in @ : t.rev.plugin \notin C}
                                     \cup UNION {Of(running, p) : p \in C},
                          !.flawed = TRUE]
    /\ live' = live \ Rollback(s)
    /\ UNCHANGED <<waiting, running, generation, degraded, failing, disposed, calls, turn>>

Missing(S) == Required \ Provides(S)

\* The registries are built again.  A clash throws out of switch() as it is; missing
\* readyRequires dispose the candidates first.
Reject ==
    /\ At("commit") /\ ToCommit = {}
    /\ \/ Clash(op.next) /\ UNCHANGED live
       \/ ~Clash(op.next) /\ Missing(op.next) # {} /\ live' = live \ op.prepared
    /\ op' = NoOp
    /\ UNCHANGED <<waiting, running, generation, degraded, failing, disposed, calls, turn>>

Publishable(S) == ~Clash(S) /\ Missing(S) = {}

\* what ran and is not part of the new generation
Superseded == running \ op.next

\* the generation pointer moves
Publish ==
    /\ At("commit") /\ ToCommit = {} /\ Publishable(op.next)
    /\ running' = op.next /\ generation' = generation + 1 /\ degraded' = op.flawed
    /\ op' = [kind |-> "cleanup", gone |-> Superseded]
    /\ UNCHANGED <<waiting, live, failing, disposed, calls, turn>>

\* handleRuntimeFailure: the plugin and, transitively, those that require what it
\* provided leave the generation; a failure of a replaced activation is void
Removed(s) ==
    {t \in running : \A S \in SUBSET running :
        (s \in S /\ \A u \in running : u.rev.requires \cap Provides(S) # {} => u \in S)
            => t \in S}
\* mutant: the failure is matched by instance and not by activation
ConcernsAny(s) == \E t \in running : t.rev.plugin = s.rev.plugin
Concerns(s) == s \in running

RuntimeFailure ==
    /\ Take("fail")
    /\ LET s == Head(waiting).scope IN
         IF ~disposed /\ Concerns(s)
         THEN LET gone == UNION {Removed(t) : t \in Of(running, s.rev.plugin)} IN
              /\ running' = running \ gone
              /\ generation' = generation + 1 /\ degraded' = TRUE
              /\ op' = [kind |-> "cleanup", gone |-> gone]
         ELSE op' = NoOp /\ UNCHANGED <<running, generation, degraded>>
    /\ UNCHANGED <<live, failing, disposed, calls, turn>>

Dispose ==
    /\ Take("dispose")
    /\ disposed' = TRUE /\ running' = {}
    /\ op' = [kind |-> "cleanup", gone |-> running]
    /\ UNCHANGED <<generation, degraded, live, failing, calls, turn>>

\* cleanupStates of what left the generation
Cleanup ==
    /\ op # NoOp /\ op.kind = "cleanup"
    /\ live' = live \ op.gone /\ op' = NoOp
    /\ UNCHANGED <<waiting, running, generation, degraded, failing, disposed, calls, turn>>

\* publishSourcePatch runs its operation if the generation is the expected one
BeginPatch ==
    /\ Take("patch")
    /\ op' = IF ~disposed /\ Head(waiting).expect = generation
             THEN [kind |-> "patch", expect |-> generation] ELSE NoOp
    /\ UNCHANGED <<running, generation, degraded, live, failing, disposed, calls, turn>>
EndPatch ==
    /\ op # NoOp /\ op.kind = "patch" /\ op' = NoOp
    /\ UNCHANGED <<waiting, running, generation, degraded, live, failing, disposed, calls,
                   turn>>

Runtime ==
    \/ BeginSwitch \/ PrepareComponent \/ Validate \/ Reject \/ Publish \/ Cleanup
    \/ RuntimeFailure \/ Dispose \/ BeginPatch \/ EndPatch
    \/ \E s \in live : CommitScope(s) \/ CommitFails(s)

KernelNext == CallSwitch \/ CallDispose \/ CallPatch \/ (\E s \in live : Fail(s)) \/ Runtime

KernelSpec == KernelInit /\ [][KernelNext]_kernelVars

\* activations, commits and disposers settle or run into their deadlines
FairKernelSpec == KernelSpec /\ WF_kernelVars(Runtime)

-----------------------------------------------------------------------------
\* The state of the runtime is well formed.
PluginTypeOK ==
    /\ running \subseteq Scopes /\ live \subseteq Scopes /\ failing \subseteq Scopes
    /\ \A s, t \in running : s.rev.plugin = t.rev.plugin => s = t
    /\ generation \in Nat /\ degraded \in BOOLEAN /\ disposed \in BOOLEAN
    /\ op # NoOp => op.kind \in {"switch", "cleanup", "patch"}

\* A plugin of the current generation has not been disposed, through rejected
\* switches, rolled back components and cleanups of replaced generations.
ActiveIsLive == running \subseteq live

\* Between two operations nothing exists that belongs to no active plugin: rejected
\* candidates, replaced, removed and failed plugins have left no effect behind.
NothingLeft == op = NoOp => live = running

\* An active plugin has every capability it requires.
RequiresServed == \A s \in running : s.rev.requires \subseteq Provides(running)

\* What runs, what exists and what is needed agree, whichever step of a switch failed, for
\* profiles in which no capability or key moves from one plugin to another and what a
\* plugin requires stays in its component: with moving keys NothingLeft fails, with moving
\* providers RequiresServed.
GenerationIsWhole == ActiveIsLive /\ NothingLeft /\ RequiresServed

\* Outside a switch and a shutdown, a plugin leaves the generation only when its own
\* activation failed or, transitively, one that provides what it requires.
FailureIsContained ==
    [][\A s \in running \ running' :
          \/ At("commit") \/ disposed'
          \/ \E t \in failing \cap running : s \in Removed(t)]_kernelVars

=============================================================================
