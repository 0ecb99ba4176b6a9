---------------------------- MODULE InstanceLock ----------------------------
(***************************************************************************)
(* acquireManagerInstanceLock and release() of managerInstanceLock.ts:     *)
(* the lease address (a named pipe on Windows, a Unix socket elsewhere)    *)
(* decides who is the Manager; manager-instance.lock only names it.        *)
(*                                                                         *)
(* A Manager process has one life.  Binding and listening are one step.    *)
(* A pipe disappears with its server; the file of a Unix socket stays when *)
(* its process dies, and close() unlinks it by its path (external).        *)
(***************************************************************************)
CONSTANTS Managers,   \* processes that may be started
          Platforms,  \* is this Unix? the platforms to consider
          NoManager

ASSUME InstanceAssumption == Platforms \subseteq BOOLEAN /\ NoManager \notin Managers

VARIABLES unix,       \* the platform; never changes
          address,    \* whose server the lease address names
          listening,  \* processes whose server accepts connections
          diagnostic, \* whose record manager-instance.lock holds
          stage       \* what each process does next, or how it ended

instanceVars == <<unix, address, listening, diagnostic, stage>>

InstanceInit ==
    /\ unix \in Platforms
    /\ address = NoManager /\ listening = {} /\ diagnostic = NoManager
    /\ stage = [p \in Managers |-> "idle"]

Ended == {"refused", "failed", "gone"}
Goes(p, from, to) == stage[p] = from /\ stage' = [stage EXCEPT ![p] = to]

-----------------------------------------------------------------------------
(* acquireOsLease *)

StartManager(p) ==
    /\ Goes(p, "idle", "listen")
    /\ UNCHANGED <<unix, address, listening, diagnostic>>

\* listenLease, from the first attempt or after the stale socket was unlinked
ListenLease(p) ==
    /\ stage[p] \in {"listen", "relisten"} /\ address = NoManager
    /\ stage' = [stage EXCEPT ![p] = "leased"]
    /\ address' = p /\ listening' = listening \cup {p}
    /\ UNCHANGED <<unix, diagnostic>>

\* mutant: a pipe is probed too
AddressInUseProbed(p) ==
    /\ stage[p] \in {"listen", "relisten"} /\ address # NoManager
    /\ stage' = [stage EXCEPT ![p] = IF @ = "listen" THEN "probe" ELSE "refused"]
    /\ UNCHANGED <<unix, address, listening, diagnostic>>
\* EADDRINUSE: the first time, a Unix socket is probed
AddressInUse(p) ==
    /\ stage[p] \in {"listen", "relisten"} /\ address # NoManager
    /\ stage' = [stage EXCEPT ![p] = IF unix /\ @ = "listen" THEN "probe" ELSE "refused"]
    /\ UNCHANGED <<unix, address, listening, diagnostic>>

\* ECONNREFUSED or ENOENT
Unanswered == address \notin listening

Probe(p) ==
    /\ Goes(p, "probe", IF Unanswered THEN "unlink" ELSE "refused")
    /\ UNCHANGED <<unix, address, listening, diagnostic>>

\* whatever is at the path now
UnlinkStale(p) ==
    /\ Goes(p, "unlink", "relisten")
    /\ address' = NoManager
    /\ UNCHANGED <<unix, listening, diagnostic>>

-----------------------------------------------------------------------------
(* The diagnostic record *)

RemoveDiagnostic(p) ==
    /\ Goes(p, "leased", "unnamed")
    /\ diagnostic' = NoManager
    /\ UNCHANGED <<unix, address, listening>>

\* writeExclusive
WriteDiagnostic(p) ==
    /\ Goes(p, "unnamed", "running")
    /\ diagnostic = NoManager /\ diagnostic' = p
    /\ UNCHANGED <<unix, address, listening>>

\* The pipe is gone with its server; the socket's path is unlinked.
AddressAfterClose(p) == IF unix \/ address = p THEN NoManager ELSE address

CloseLease(p) == listening' = listening \ {p} /\ address' = AddressAfterClose(p)

\* the record cannot be replaced: EEXIST or another error
AcquireFails(p) ==
    /\ stage[p] \in {"leased", "unnamed"}
    /\ stage' = [stage EXCEPT ![p] = "failed"]
    /\ CloseLease(p)
    /\ UNCHANGED <<unix, diagnostic>>

-----------------------------------------------------------------------------
(* release() *)

Release(p) ==
    /\ Goes(p, "running", "closed")
    /\ CloseLease(p)
    /\ UNCHANGED <<unix, diagnostic>>

ReadDiagnostic(p) ==
    /\ Goes(p, "closed", IF diagnostic = p THEN "unnaming" ELSE "leaving")
    /\ UNCHANGED <<unix, address, listening, diagnostic>>

UnlinkDiagnostic(p) ==
    /\ Goes(p, "unnaming", "leaving")
    /\ diagnostic' = NoManager
    /\ UNCHANGED <<unix, address, listening>>

\* the path once more, except on Windows
UnlinkAddress(p) ==
    /\ Goes(p, "leaving", "gone")
    /\ address' = IF unix THEN NoManager ELSE address
    /\ UNCHANGED <<unix, listening, diagnostic>>

\* what a dead process leaves at the address
AfterDeath(p) == IF ~unix /\ address = p THEN NoManager ELSE address

\* A process exits, and its exit handler has closed the lease, or it is killed.
Exit(p) ==
    /\ Goes(p, "running", "gone")
    /\ CloseLease(p)
    /\ UNCHANGED <<unix, diagnostic>>
Killed(p) ==
    /\ stage[p] \notin Ended \cup {"idle"}
    /\ stage' = [stage EXCEPT ![p] = "gone"]
    /\ listening' = listening \ {p} /\ address' = AfterDeath(p)
    /\ UNCHANGED <<unix, diagnostic>>

ManagerStep(p) ==
    \/ ListenLease(p) \/ AddressInUse(p) \/ Probe(p) \/ UnlinkStale(p)
    \/ RemoveDiagnostic(p) \/ WriteDiagnostic(p)
    \/ ReadDiagnostic(p) \/ UnlinkDiagnostic(p) \/ UnlinkAddress(p)

InstanceNext == \E p \in Managers :
    \/ ManagerStep(p) \/ StartManager(p) \/ AcquireFails(p) \/ Release(p) \/ Exit(p)
    \/ Killed(p)

InstanceSpec == InstanceInit /\ [][InstanceNext]_instanceVars
FairInstanceSpec ==
    InstanceSpec /\ \A p \in Managers : WF_instanceVars(ManagerStep(p))

-----------------------------------------------------------------------------
\* The lease, the record and the processes are well formed.
InstanceTypeOK ==
    /\ unix \in BOOLEAN /\ listening \subseteq Managers
    /\ address \in Managers \cup {NoManager} /\ diagnostic \in Managers \cup {NoManager}
    /\ stage \in [Managers -> {"idle", "listen", "probe", "unlink", "relisten", "leased",
                               "unnamed", "running", "closed", "unnaming", "leaving"}
                              \cup Ended]

\* One process is the Manager.
OneManager == \A p, q \in Managers : stage[p] = "running" /\ stage[q] = "running" => p = q

\* On Windows one process is the Manager, through deaths and handovers.
OneManagerByPipe == ~unix => OneManager

\* When every other process has ended, however it ended, a start is not refused.
StartSucceeds == \A p \in Managers :
    (stage[p] = "listen" /\ \A q \in Managers \ {p} : stage[q] \in Ended)
        ~> stage[p] \in {"running", "failed", "gone"}
=============================================================================
