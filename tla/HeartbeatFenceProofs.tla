-------------------------- MODULE HeartbeatFenceProofs --------------------------
(***************************************************************************)
(* Theorems about HeartbeatFence, for any number of processes on any       *)
(* machines and workers of any speed: on one machine one process delivers,  *)
(* and a lease that has run out comes back only through the worker of the  *)
(* process the receipt names.  Last, that calls, files and sends keep      *)
(* their types side by side (MCFencing).                                   *)
(***************************************************************************)
EXTENDS MCFencing, AgentProofs

MutexStages == {"deciding", "writing", "leaving", "claimed"}
OwnerStages == {"claimed", "starting", "delivering"}

(* The machines never change, and only processes that take part live.       *)
HostInv ==
    /\ host \in Topologies
    /\ \A p \in Contenders : living[p] => p \in DOMAIN host

(* withReceiptMutation: what is done under the mutation lock, its holder does. *)
MutexInv == \A p \in Contenders : main[p] \in MutexStages => mutex = p

(* On one machine a live process that has claimed and not given up is the    *)
(* one the receipt names, and a contender only gets to write its claim     *)
(* over a dead one.                                                        *)
OwnerInv ==
    (\A p, q \in DOMAIN host : host[p] = host[q]) =>
        /\ \A p \in Contenders : living[p] /\ main[p] \in OwnerStages => file.owner = p
        /\ \A p, q \in Contenders : main[p] = "writing" /\ file.owner = q => ~living[q]

(* A worker that has opened a receipt has opened its own: while the path     *)
(* still has that file, the receipt there names it.  What was written since *)
(* has an inode of its own.                                                *)
DescriptorInv == \A p \in Contenders :
    /\ fd[p] <= file.inode
    /\ worker[p] \in {"recheck", "touch"} /\ fd[p] = file.inode => file.owner = p

(* The inductive invariant.                                                *)
FenceInv == FenceTypeOK /\ HostInv /\ MutexInv /\ OwnerInv /\ DescriptorInv

(* What a step of the main thread does to the stages.                       *)
LEMMA MainMoves ==
    ASSUME FenceTypeOK, NEW p \in Contenders, NEW from, NEW to, Main(p, from, to)
    PROVE  /\ living[p] /\ main[p] = from /\ main'[p] = to
           /\ \A q \in Contenders : q # p => main'[q] = main[q]
BY DEF Main, FenceTypeOK

(* Every step keeps the types.                                             *)
LEMMA FenceTypeStep == FenceTypeOK /\ [FenceNext]_fenceVars => FenceTypeOK'
<1> SUFFICES ASSUME FenceTypeOK, [FenceNext]_fenceVars PROVE FenceTypeOK'
  OBVIOUS
<1> USE DEF FenceTypeOK
<1>1. CASE UNCHANGED fenceVars
  BY <1>1 DEF fenceVars
<1>2. CASE LeaseExpires
  BY <1>2 DEF LeaseExpires
<1>3. ASSUME NEW p \in Contenders, MainStep(p) PROVE FenceTypeOK'
  <2>1. CASE LockMutation(p) \/ DecideClaim(p) \/ StartDelivery(p)
    BY <2>1 DEF LockMutation, DecideClaim, StartDelivery, Main
  <2>2. CASE WriteClaim(p)
    BY <2>2 DEF WriteClaim, Main, Rewritten
  <2>3. CASE UnlockMutation(p)
    BY <2>3 DEF UnlockMutation, Main
  <2>4. CASE GiveUp(p)
    BY <2>4 DEF GiveUp, Main, Rewritten
  <2> QED
    BY <1>3, <2>1, <2>2, <2>3, <2>4 DEF MainStep
<1>4. ASSUME NEW p \in Contenders, WorkerStep(p) PROVE FenceTypeOK'
  <2>1. worker' \in [Contenders -> {"off", "look", "open", "recheck", "touch", "verify",
                                    "lookAgain", "failed"}]
    BY <1>4 DEF WorkerStep, RenewLook, RenewOpen, RenewRecheck, RenewTouch, RenewVerify,
       RenewPublish, Worker
  <2>2. file' \in [inode : Nat, owner : Contenders \cup {NoOwner}, fresh : BOOLEAN]
    BY <1>4 DEF WorkerStep, RenewLook, RenewOpen, RenewRecheck, RenewTouch, RenewVerify,
       RenewPublish
  <2>3. first' \in [Contenders -> BOOLEAN] /\ fd' \in [Contenders -> Nat]
    BY <1>4 DEF WorkerStep, RenewLook, RenewOpen, RenewRecheck, RenewTouch, RenewVerify,
       RenewPublish
  <2> QED
    BY <1>4, <2>1, <2>2, <2>3 DEF WorkerStep, RenewLook, RenewOpen, RenewRecheck, RenewTouch,
       RenewVerify, RenewPublish
<1>5. ASSUME NEW p \in Contenders, Dies(p) PROVE FenceTypeOK'
  BY <1>5 DEF Dies
<1> QED
  BY <1>1, <1>2, <1>3, <1>4, <1>5 DEF FenceNext

(* The steps of the worker leave the lock, the owner and the stages alone.  *)
LEMMA WorkerKeepsOwner ==
    ASSUME FenceTypeOK, NEW p \in Contenders, WorkerStep(p)
    PROVE  UNCHANGED <<host, mutex, main, living>> /\ file'.owner = file.owner
BY DEF FenceTypeOK, WorkerStep, RenewLook, RenewOpen, RenewRecheck, RenewTouch, RenewVerify,
       RenewPublish

(* Every step keeps what the descriptors are of.                            *)
LEMMA DescriptorStep ==
    ASSUME FenceTypeOK, DescriptorInv, [FenceNext]_fenceVars
    PROVE  DescriptorInv'
<1>0. FenceTypeOK'
  BY FenceTypeStep
<1> USE <1>0 DEF FenceTypeOK, DescriptorInv
<1>1. CASE UNCHANGED fenceVars
  BY <1>1 DEF fenceVars
<1>2. CASE LeaseExpires
  BY <1>2 DEF LeaseExpires
<1>3. ASSUME NEW p \in Contenders, MainStep(p) PROVE DescriptorInv'
  <2>1. CASE LockMutation(p) \/ DecideClaim(p) \/ StartDelivery(p)
    BY <2>1 DEF LockMutation, DecideClaim, StartDelivery
  <2>2. CASE WriteClaim(p)
    BY <2>2 DEF WriteClaim, Rewritten
  <2>3. CASE UnlockMutation(p)
    BY <2>3 DEF UnlockMutation
  <2>4. CASE GiveUp(p)
    BY <2>4 DEF GiveUp, Rewritten
  <2> QED
    BY <1>3, <2>1, <2>2, <2>3, <2>4 DEF MainStep
<1>4. ASSUME NEW p \in Contenders, RenewOpen(p) PROVE DescriptorInv'
  BY <1>4 DEF RenewOpen, Worker
<1>5. ASSUME NEW p \in Contenders, RenewTouch(p) PROVE DescriptorInv'
  BY <1>5 DEF RenewTouch, Worker
<1>6. ASSUME NEW p \in Contenders,
             RenewLook(p) \/ RenewRecheck(p) \/ RenewVerify(p) \/ RenewPublish(p)
      PROVE  DescriptorInv'
  BY <1>6 DEF RenewLook, RenewRecheck, RenewVerify, RenewPublish, Worker
<1>7. ASSUME NEW p \in Contenders, Dies(p) PROVE DescriptorInv'
  BY <1>7 DEF Dies
<1> QED
  BY <1>1, <1>2, <1>3, <1>4, <1>5, <1>6, <1>7 DEF FenceNext, WorkerStep

(* The inductive step: one case per action.                                 *)
LEMMA FenceInvStep == FenceInv /\ [FenceNext]_fenceVars => FenceInv'
<1> SUFFICES ASSUME FenceInv, [FenceNext]_fenceVars PROVE FenceInv'
  OBVIOUS
<1>0. FenceTypeOK /\ FenceTypeOK'
  BY FenceTypeStep DEF FenceInv
<1>d. DescriptorInv'
  BY DescriptorStep DEF FenceInv
<1> USE FenceAssumption, <1>0, <1>d DEF FenceInv, HostInv, MutexInv, OwnerInv, MutexStages, OwnerStages
<1>1. CASE UNCHANGED fenceVars
  BY <1>1 DEF fenceVars
<1>2. CASE LeaseExpires
  <2>1. file'.owner = file.owner /\ UNCHANGED <<host, mutex, main, living>>
    BY <1>2 DEF LeaseExpires, FenceTypeOK
  <2> QED
    BY <2>1
<1>3. ASSUME NEW p \in Contenders, LockMutation(p) PROVE FenceInv'
  <2>1. UNCHANGED <<host, file, living>> /\ mutex = NoOwner /\ mutex' = p
    BY <1>3 DEF LockMutation
  <2>2. main'[p] = "deciding" /\ \A q \in Contenders : q # p => main'[q] = main[q]
    BY <1>3, MainMoves DEF LockMutation
  <2> QED
    BY <2>1, <2>2
<1>4. ASSUME NEW p \in Contenders, DecideClaim(p) PROVE FenceInv'
  <2>1. UNCHANGED <<host, file, living, mutex>>
    BY <1>4 DEF DecideClaim
  <2>2. /\ living[p] /\ main[p] = "deciding"
        /\ main'[p] = IF file.owner # NoOwner /\ ~ExecutionActive(p) THEN "writing" ELSE "leaving"
        /\ \A q \in Contenders : q # p => main'[q] = main[q]
    BY <1>4, MainMoves DEF DecideClaim
  <2>3. ASSUME NEW q \in Contenders, main'[p] = "writing", file.owner = q,
               \A a, b \in DOMAIN host : host[a] = host[b]
        PROVE  ~living[q]
    BY <2>2, <2>3 DEF ExecutionActive
  <2> QED
    BY <2>1, <2>2, <2>3
<1>5. ASSUME NEW p \in Contenders, WriteClaim(p) PROVE FenceInv'
  <2>1. UNCHANGED <<host, living, mutex>> /\ file'.owner = p
    BY <1>5 DEF WriteClaim, Rewritten
  <2>2. /\ main[p] = "writing" /\ main'[p] = "claimed"
        /\ \A q \in Contenders : q # p => main'[q] = main[q]
    BY <1>5, MainMoves DEF WriteClaim
  <2>3. mutex = p /\ \A q \in Contenders : q # p => main[q] # "writing"
    BY <2>2
  <2>4. ASSUME NEW q \in Contenders, living[q], main[q] \in OwnerStages,
               \A a, b \in DOMAIN host : host[a] = host[b]
        PROVE  FALSE
    BY <2>2, <2>4
  <2>5. HostInv' /\ MutexInv'
    BY <2>1, <2>2
  <2>6. OwnerInv'
    BY <2>1, <2>2, <2>3, <2>4
  <2> QED
    BY <2>5, <2>6
<1>6. ASSUME NEW p \in Contenders, UnlockMutation(p) PROVE FenceInv'
  <2>1. UNCHANGED <<host, file, living>> /\ mutex' = NoOwner
    BY <1>6 DEF UnlockMutation
  <2>2. /\ \/ main[p] = "claimed" /\ main'[p] = "starting"
           \/ main[p] = "leaving" /\ main'[p] = "done"
        /\ \A q \in Contenders : q # p => main'[q] = main[q]
    BY <1>6, MainMoves DEF UnlockMutation
  <2>3. \A q \in Contenders : main'[q] \notin MutexStages
    BY <2>2
  <2> QED
    BY <2>1, <2>2, <2>3
<1>7. ASSUME NEW p \in Contenders, StartDelivery(p) PROVE FenceInv'
  <2>1. UNCHANGED <<host, file, living, mutex>>
    BY <1>7 DEF StartDelivery
  <2>2. /\ main[p] = "starting" /\ main'[p] = "delivering"
        /\ \A q \in Contenders : q # p => main'[q] = main[q]
    BY <1>7, MainMoves DEF StartDelivery
  <2> QED
    BY <2>1, <2>2
<1>8. ASSUME NEW p \in Contenders, GiveUp(p) PROVE FenceInv'
  <2>1. /\ UNCHANGED <<host, living, mutex>> /\ mutex = NoOwner
        /\ \/ file'.owner = file.owner
           \/ file.owner = p /\ file'.owner = NoOwner
    BY <1>8 DEF GiveUp, Rewritten
  <2>2. /\ main[p] = "starting" /\ main'[p] = "done"
        /\ \A q \in Contenders : q # p => main'[q] = main[q]
    BY <1>8, MainMoves DEF GiveUp
  <2>3. \A q \in Contenders : main[q] \notin MutexStages
    BY <2>1
  <2> QED
    BY <2>1, <2>2, <2>3
<1>9. ASSUME NEW p \in Contenders, WorkerStep(p) PROVE FenceInv'
  BY <1>9, WorkerKeepsOwner
<1>10. ASSUME NEW p \in Contenders, Dies(p) PROVE FenceInv'
  <2>1. UNCHANGED <<host, mutex, file, main>> /\ \A q \in Contenders : living'[q] => living[q]
    BY <1>10 DEF Dies, FenceTypeOK
  <2> QED
    BY <2>1
<1> QED
  BY <1>1, <1>2, <1>3, <1>4, <1>5, <1>6, <1>7, <1>8, <1>9, <1>10 DEF FenceNext, MainStep

(* The invariant of claim and heartbeat.                                    *)
LEMMA FenceInvariant == FenceSpec => []FenceInv
<1>1. FenceInit => FenceInv
  <2> SUFFICES ASSUME FenceInit PROVE FenceInv
    OBVIOUS
  <2>1. /\ living \in [Contenders -> BOOLEAN]
        /\ \A p \in Contenders : living[p] <=> p \in DOMAIN host
    <3>1. living = [p \in Contenders |-> p \in DOMAIN host]
      BY DEF FenceInit
    <3>2. \A p \in Contenders : (p \in DOMAIN host) \in BOOLEAN
      OBVIOUS
    <3>3. living \in [Contenders -> BOOLEAN]
      BY <3>1, <3>2
    <3>4. \A p \in Contenders : living[p] <=> p \in DOMAIN host
      BY <3>1, Zenon
    <3> QED
      BY <3>3, <3>4
  <2>2. FenceTypeOK
    <3>1. main \in [Contenders -> {"idle", "starting"}]
      BY DEF FenceInit
    <3>2. worker \in [Contenders -> {"look", "off"}]
      BY DEF FenceInit
    <3>3. first \in [Contenders -> BOOLEAN]
      BY DEF FenceInit
    <3>4. /\ file \in [inode : Nat, owner : Contenders \cup {NoOwner}, fresh : BOOLEAN]
          /\ fd \in [Contenders -> Nat] /\ mutex = NoOwner
      BY FenceAssumption DEF FenceInit
    <3> QED
      BY <2>1, <3>1, <3>2, <3>3, <3>4 DEF FenceTypeOK
  <2>3. HostInv
    BY <2>1 DEF FenceInit, HostInv
  <2>4. \A p \in Contenders : main[p] = IF p = First THEN "starting" ELSE "idle"
    <3>1. main = [p \in Contenders |-> IF p = First THEN "starting" ELSE "idle"]
      BY DEF FenceInit
    <3> QED
      BY <3>1
  <2>5. MutexInv /\ OwnerInv
    BY <2>4 DEF FenceInit, MutexInv, OwnerInv, MutexStages, OwnerStages
  <2>6. DescriptorInv
    BY DEF FenceInit, DescriptorInv
  <2> QED
    BY <2>2, <2>3, <2>5, <2>6 DEF FenceInv
<1> QED
  BY <1>1, FenceInvStep, PTL DEF FenceSpec

(* Type correctness of the lock, the receipt and the two threads.           *)
THEOREM FenceTypeCorrect == FenceSpec => []FenceTypeOK
<1>1. FenceInv => FenceTypeOK
  BY DEF FenceInv
<1> QED
  BY <1>1, FenceInvariant, PTL

(* On one machine at most one live process delivers, however many contend,  *)
(* however late a heartbeat worker is and whenever a process dies: the     *)
(* owner check of receiptExecutionActive does not depend on the lease.      *)
THEOREM OneDeliverer == FenceSpec => []SoleDelivererOnOneMachine
<1>1. FenceInv => SoleDelivererOnOneMachine
  BY DEF FenceInv, OwnerInv, OwnerStages, SoleDelivererOnOneMachine, SoleDeliverer
<1> QED
  BY <1>1, FenceInvariant, PTL

(* The heartbeat takes no lock, and a claim may come between any two of its  *)
(* steps, on any machines.  Still a lease that has run out comes back only  *)
(* through the running worker of the process the receipt names: futimesSync *)
(* goes through the descriptor, which stays with the file that was opened.  *)
THEOREM SuccessorsLeaseIsItsOwn == FenceSpec => LeaseIsOwn
<1>1. ASSUME FenceInv, [FenceNext]_fenceVars,
             file'.inode = file.inode, file'.fresh, ~file.fresh
      PROVE  \E p \in Contenders :
                file.owner = p /\ living[p] /\ worker[p] = "touch" /\ worker'[p] = "verify"
  <2> USE <1>1 DEF FenceInv, FenceTypeOK
  <2>1. ~UNCHANGED fenceVars /\ ~LeaseExpires /\ \A p \in Contenders : ~Dies(p)
    BY DEF fenceVars, LeaseExpires, Dies
  <2>2. ASSUME NEW p \in Contenders, MainStep(p) PROVE FALSE
    BY <2>2 DEF MainStep, LockMutation, DecideClaim, WriteClaim, UnlockMutation,
       StartDelivery, GiveUp, Rewritten
  <2>3. PICK p \in Contenders : WorkerStep(p)
    BY <2>1, <2>2 DEF FenceNext
  <2>4. RenewTouch(p)
    BY <2>3 DEF WorkerStep, RenewLook, RenewOpen, RenewRecheck, RenewVerify, RenewPublish
  <2>5. worker[p] = "touch" /\ worker'[p] = "verify" /\ living[p] /\ fd[p] = file.inode
    BY <2>4 DEF RenewTouch, Worker
  <2> QED
    BY <2>5 DEF DescriptorInv
<1>2. FenceInv /\ [FenceNext]_fenceVars =>
        [file'.inode = file.inode /\ file'.fresh /\ ~file.fresh
          => \E p \in Contenders :
                file.owner = p /\ living[p] /\ worker[p] = "touch" /\ worker'[p] = "verify"]_fenceVars
  BY <1>1
<1> QED
  BY <1>2, FenceInvariant, PTL DEF FenceSpec, LeaseIsOwn

-----------------------------------------------------------------------------
(* The files and the sends, together with the calls.                       *)

(* What is proved of the calls of executeDurableDelivery, of the files of    *)
(* claim and heartbeat and of the agent sends holds when they run together. *)
LEMMA FencingRunsTogether == FencingSpec => Spec /\ FenceSpec /\ SendSpec
<1>1. FencingInit => Init /\ FenceInit /\ SendInit
  BY DEF FencingInit
<1>2. [FencingNext]_fencingVars => [Next]_vars /\ [FenceNext]_fenceVars /\ [SendNext]_sendVars
  BY DEF FencingNext, fencingVars
<1>3. QED
  BY <1>1, <1>2, PTL DEF FencingSpec, Spec, FenceSpec, SendSpec

(* Type correctness of the claim and heartbeat files and of the agent sends. *)
THEOREM FencingTypeCorrect == FencingSpec => []FencingTypeOK
<1>1. FenceTypeOK /\ SendTypeOK => FencingTypeOK
  BY DEF FencingTypeOK
<1>2. QED
  BY <1>1, FencingRunsTogether, FenceTypeCorrect, SendTypeCorrect, PTL
=============================================================================
