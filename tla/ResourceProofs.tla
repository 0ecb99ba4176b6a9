----------------------------- MODULE ResourceProofs -----------------------------
(***************************************************************************)
(* Theorems about resources of the Manager that only so many may have: the  *)
(* lease address (InstanceLock), for any number of processes that are       *)
(* started, and the lanes of the read workers (ReadWorkerPool), for any    *)
(* pools: how many there are, and that no read and no stop() waits for     *)
(* nothing.  Last, that all of these together keep their types             *)
(* (MCResources).                                                          *)
(***************************************************************************)
EXTENDS MCResources, FileLockProofs, BoardPersistenceProofs, FiniteSetTheorems

-----------------------------------------------------------------------------
(* The lease address as a named pipe.                                       *)

(* Holding the lease: from listenLease to close().                          *)
Leasing == {"leased", "unnamed", "running"}

(* On Windows the pipe names the process that holds the lease, and nobody   *)
(* probes or unlinks it.                                                   *)
PipeInv ==
    ~unix => \A p \in Managers :
                 /\ stage[p] \in Leasing => address = p
                 /\ stage[p] \notin {"probe", "unlink"}

InstanceInv == InstanceTypeOK /\ PipeInv

(* Every step keeps the types.                                              *)
LEMMA InstanceTypeStep == InstanceTypeOK /\ [InstanceNext]_instanceVars => InstanceTypeOK'
<1> SUFFICES ASSUME InstanceTypeOK, [InstanceNext]_instanceVars PROVE InstanceTypeOK'
  OBVIOUS
<1> USE DEF InstanceTypeOK, Ended, Goes
<1>1. CASE UNCHANGED instanceVars
  BY <1>1 DEF instanceVars
<1>2. ASSUME NEW p \in Managers, ManagerStep(p) PROVE InstanceTypeOK'
  <2>1. CASE ListenLease(p)
    BY <2>1 DEF ListenLease
  <2>2. CASE AddressInUse(p) \/ Probe(p)
    BY <2>2 DEF AddressInUse, Probe
  <2>3. CASE UnlinkStale(p)
    BY <2>3 DEF UnlinkStale
  <2>4. CASE RemoveDiagnostic(p) \/ WriteDiagnostic(p)
    BY <2>4 DEF RemoveDiagnostic, WriteDiagnostic
  <2>5. CASE ReadDiagnostic(p) \/ UnlinkDiagnostic(p)
    BY <2>5 DEF ReadDiagnostic, UnlinkDiagnostic
  <2>6. CASE UnlinkAddress(p)
    BY <2>6 DEF UnlinkAddress
  <2> QED
    BY <1>2, <2>1, <2>2, <2>3, <2>4, <2>5, <2>6 DEF ManagerStep
<1>3. ASSUME NEW p \in Managers, StartManager(p) PROVE InstanceTypeOK'
  BY <1>3 DEF StartManager
<1>4. ASSUME NEW p \in Managers, AcquireFails(p) \/ Release(p) \/ Exit(p) PROVE InstanceTypeOK'
  BY <1>4 DEF AcquireFails, Release, Exit, CloseLease, AddressAfterClose
<1>5. ASSUME NEW p \in Managers, Killed(p) PROVE InstanceTypeOK'
  BY <1>5 DEF Killed, AfterDeath
<1> QED
  BY <1>1, <1>2, <1>3, <1>4, <1>5 DEF InstanceNext

(* The inductive step: what each step does to the address of the pipe.      *)
LEMMA InstanceInvStep == InstanceInv /\ [InstanceNext]_instanceVars => InstanceInv'
<1> SUFFICES ASSUME InstanceInv, [InstanceNext]_instanceVars PROVE InstanceInv'
  OBVIOUS
<1>0. InstanceTypeOK /\ InstanceTypeOK'
  BY InstanceTypeStep DEF InstanceInv
<1> USE InstanceAssumption, <1>0 DEF InstanceInv, PipeInv, Leasing, InstanceTypeOK, Goes
<1>1. CASE UNCHANGED instanceVars
  BY <1>1 DEF instanceVars
<1>2. ASSUME NEW p \in Managers, ListenLease(p) PROVE InstanceInv'
  <2>1. ~unix => \A q \in Managers : stage[q] \notin Leasing
    BY <1>2 DEF ListenLease
  <2> QED
    BY <1>2, <2>1 DEF ListenLease
<1>3. ASSUME NEW p \in Managers, AddressInUse(p) \/ Probe(p) \/ UnlinkStale(p)
      PROVE  InstanceInv'
  BY <1>3 DEF AddressInUse, Probe, UnlinkStale
<1>4. ASSUME NEW p \in Managers, RemoveDiagnostic(p) \/ WriteDiagnostic(p) PROVE InstanceInv'
  BY <1>4 DEF RemoveDiagnostic, WriteDiagnostic
<1>5. ASSUME NEW p \in Managers, ReadDiagnostic(p) \/ UnlinkDiagnostic(p) \/ UnlinkAddress(p)
      PROVE  InstanceInv'
  BY <1>5 DEF ReadDiagnostic, UnlinkDiagnostic, UnlinkAddress
<1>6. ASSUME NEW p \in Managers, StartManager(p) PROVE InstanceInv'
  BY <1>6 DEF StartManager
<1>7. ASSUME NEW p \in Managers, AcquireFails(p) \/ Release(p) \/ Exit(p) PROVE InstanceInv'
  BY <1>7 DEF AcquireFails, Release, Exit, CloseLease, AddressAfterClose
<1>8. ASSUME NEW p \in Managers, Killed(p) PROVE InstanceInv'
  BY <1>8 DEF Killed, AfterDeath
<1> QED
  BY <1>1, <1>2, <1>3, <1>4, <1>5, <1>6, <1>7, <1>8 DEF InstanceNext, ManagerStep

(* The invariant of the lease.                                              *)
LEMMA InstanceInvariant == InstanceSpec => []InstanceInv
<1>1. InstanceInit => InstanceInv
  BY InstanceAssumption DEF InstanceInit, InstanceInv, InstanceTypeOK, PipeInv, Leasing
<1> QED
  BY <1>1, InstanceInvStep, PTL DEF InstanceSpec

(* Type correctness of the lease, the record and the processes.             *)
THEOREM InstanceTypeCorrect == InstanceSpec => []InstanceTypeOK
<1>1. InstanceInv => InstanceTypeOK
  BY DEF InstanceInv
<1> QED
  BY <1>1, InstanceInvariant, PTL

(* On Windows at most one process is the Manager, however many are started,  *)
(* die, fail to write their record or hand over.                           *)
THEOREM PipeElectsOne == InstanceSpec => []OneManagerByPipe
<1>1. InstanceInv => OneManagerByPipe
  BY DEF InstanceInv, PipeInv, Leasing, OneManagerByPipe, OneManager
<1> QED
  BY <1>1, InstanceInvariant, PTL

-----------------------------------------------------------------------------
(* The lanes of the read workers.                                           *)

(* The workers that hold a lease of pool p, and all of them.                *)
Leased(p) == {w \in Lanes : LaneOf[w] = p /\ slots[w].read # NoRead}
AllLeased == {w \in Lanes : slots[w].read # NoRead}

(* The counters are what the workers hold, and only a worker reads.         *)
LeaseInv ==
    /\ \A p \in Pools : leases[p] = Cardinality(Leased(p))
    /\ globalActive = Cardinality(AllLeased) /\ globalActive <= GlobalMax
    /\ \A w \in Lanes : slots[w].read # NoRead => slots[w].phase # "none"

(* Read r is in the queue of its pool or with a worker of it that has not   *)
(* rejected it.                                                            *)
Underway(r) ==
    \/ Contains(waiting[PoolOf[r]], r)
    \/ \E w \in Lanes : LaneOf[w] = PoolOf[r] /\ slots[w].read = r /\ ~slots[w].settled

(* Queues hold reads of their pool, and nobody waits for a read that is     *)
(* over, nor can a new caller come to share one.                           *)
WaitInv ==
    /\ \A p \in Pools : \A i \in 1 .. Len(waiting[p]) : PoolOf[waiting[p][i]] = p
    /\ \A p \in Pools : inFlight[p] # NoRead => PoolOf[inFlight[p]] = p /\ Underway(inFlight[p])
    /\ \A c \in Readers : Waits(c) => PoolOf[reader[c]] = PoolOf[c] /\ Underway(reader[c])

(* Only an open pool queues, and a stopped one has no worker.               *)
LifeInv ==
    \A p \in Pools : /\ ~Open(p) => waiting[p] = <<>>
                     /\ lifecycle[p] = "stopped" => WorkersOf(p) = {}

ReadInv == ReadTypeOK /\ LeaseInv /\ WaitInv /\ LifeInv

(* What an element is taken out of keeps the others.                        *)
LEMMA TakenOut ==
    ASSUME NEW S, NEW s \in Seq(S), NEW n \in 1 .. Len(s)
    PROVE  /\ RemoveAt(s, n) \in Seq(S)
           /\ \A x : Contains(RemoveAt(s, n), x) => Contains(s, x)
           /\ \A x : Contains(s, x) /\ x # s[n] => Contains(RemoveAt(s, n), x)
<1> DEFINE t == RemoveAt(s, n)
           a == SubSeq(s, 1, n - 1)
           b == SubSeq(s, n + 1, Len(s))
<1>1. n \in Int /\ Len(s) \in Int /\ 1 <= n /\ n <= Len(s)
  OBVIOUS
<1>2. a \in Seq(S) /\ Len(a) = n - 1 /\ \A i \in 1 .. n - 1 : a[i] = s[i]
  BY <1>1
<1>3. b \in Seq(S) /\ Len(b) = Len(s) - n /\ \A i \in 1 .. Len(s) - n : b[i] = s[n + i]
  BY <1>1
<1>4. t = a \o b
  BY DEF RemoveAt
<1> HIDE DEF t, a, b
<1>5. t \in Seq(S) /\ Len(t) = Len(a) + Len(b) /\ Len(a) \in Nat /\ Len(b) \in Nat
  <2>1. t \in Seq(S)
    BY <1>2, <1>3, <1>4
  <2>2. Len(a) \in Nat /\ Len(b) \in Nat
    BY <1>1, <1>2, <1>3
  <2>3. Len(t) = Len(s) - 1
    BY <1>1, <1>2, <1>3, <1>4, SMTT(30)
  <2>4. Len(s) - 1 = Len(a) + Len(b)
    BY <1>1, <1>2, <1>3
  <2> QED
    BY <2>1, <2>2, <2>3, <2>4
<1>6. \A i \in 1 .. Len(a) : t[i] = a[i]
  BY <1>2, <1>3, <1>4
<1>7. ASSUME NEW i \in 1 .. Len(b) PROVE t[Len(a) + i] = b[i]
  <2>1. PICK k \in Nat : k = Len(a) + i
    BY <1>5
  <2>2. k \in 1 .. Len(a) + Len(b) /\ ~(k <= Len(a)) /\ k - Len(a) = i
    BY <1>5, <2>1
  <2>3. t[k] = b[k - Len(a)]
    BY <1>2, <1>3, <1>4, <2>2, SMTT(60)
  <2> QED
    BY <2>1, <2>2, <2>3
<1>8. ASSUME NEW k \in 1 .. Len(t) PROVE \E i \in 1 .. Len(s) : t[k] = s[i]
  <2>1. CASE k <= Len(a)
    <3>1. k \in 1 .. Len(a) /\ k \in 1 .. n - 1 /\ k \in 1 .. Len(s)
      BY <1>1, <1>2, <2>1
    <3> QED
      BY <1>2, <1>6, <3>1
  <2>2. CASE ~(k <= Len(a))
    <3>1. PICK i \in 1 .. Len(b) : k = Len(a) + i
      <4>1. k - Len(a) \in 1 .. Len(b)
        BY <1>1, <1>2, <1>3, <1>5, <2>2
      <4> QED
        BY <1>2, <4>1
    <3>2. i \in 1 .. Len(s) - n /\ n + i \in 1 .. Len(s)
      BY <1>1, <1>3, <3>1
    <3> QED
      BY <1>3, <1>7, <3>1, <3>2
  <2> QED
    BY <2>1, <2>2
<1>9. ASSUME NEW i \in 1 .. Len(s), i # n PROVE \E k \in 1 .. Len(t) : t[k] = s[i]
  <2>1. CASE i < n
    <3>1. i \in 1 .. Len(a) /\ i \in 1 .. n - 1 /\ i \in 1 .. Len(t)
      BY <1>1, <1>2, <1>3, <1>5, <2>1
    <3> QED
      BY <1>2, <1>6, <3>1
  <2>2. CASE ~(i < n)
    <3>1. PICK k \in 1 .. Len(b) : i = n + k
      <4>1. i - n \in 1 .. Len(b)
        BY <1>1, <1>3, <1>9, <2>2
      <4> QED
        BY <1>1, <4>1
    <3>2. k \in 1 .. Len(s) - n /\ Len(a) + k \in 1 .. Len(t)
      <4>1. k \in Int /\ 1 <= k /\ k <= Len(b)
        BY <1>5, <3>1
      <4>2. Len(b) = Len(s) - n /\ Len(t) = Len(a) + Len(b) /\ Len(a) \in Nat
        BY <1>3, <1>5
      <4>3. k \in 1 .. Len(s) - n
        BY <1>1, <4>1, <4>2
      <4> QED
        BY <4>1, <4>2, <4>3
    <3>3. t[Len(a) + k] = b[k]
      BY <1>7, <3>1
    <3>4. b[k] = s[i]
      BY <1>3, <3>1, <3>2
    <3> QED
      BY <3>2, <3>3, <3>4
  <2> QED
    BY <2>1, <2>2
<1>10. \A x : Contains(t, x) => Contains(s, x)
  BY <1>8 DEF Contains
<1>11. \A x : Contains(s, x) /\ x # s[n] => Contains(t, x)
  BY <1>9 DEF Contains
<1> QED
  BY <1>5, <1>10, <1>11 DEF t

(* drainAll visits pools.                                                   *)
LEMMA PoolsInOrder == SetToSeq(Pools) \in Seq(Pools)
<1>1. IsFiniteSet(Pools)
  BY ReadAssumption
<1>2. Cardinality(Pools) \in Nat /\ ExistsBijection(1 .. Cardinality(Pools), Pools)
  BY <1>1, FS_CardinalityType
<1>3. \E f \in [1 .. Cardinality(Pools) -> Pools] : IsInjective(f)
  BY <1>2 DEF ExistsBijection, Bijection, Injection
<1>4. SetToSeq(Pools) \in [1 .. Cardinality(Pools) -> Pools]
  BY <1>3 DEF SetToSeq
<1> QED
  BY <1>2, <1>4

(* The leases that are held are finitely many.                             *)
LEMMA LeasedFinite ==
    /\ IsFiniteSet(AllLeased) /\ Cardinality(AllLeased) \in Nat
    /\ \A p \in Pools : IsFiniteSet(Leased(p)) /\ Cardinality(Leased(p)) \in Nat
<1>1. IsFiniteSet(Lanes)
  BY ReadAssumption
<1>2. \A T \in SUBSET Lanes : IsFiniteSet(T) /\ Cardinality(T) \in Nat
  BY <1>1, FS_Subset, FS_CardinalityType
<1>3. AllLeased \in SUBSET Lanes /\ \A p \in Pools : Leased(p) \in SUBSET Lanes
  BY DEF AllLeased, Leased
<1> QED
  BY <1>2, <1>3

(* At first nobody holds anything.                                          *)
LEMMA ReadInitKeeps == ReadInit => ReadInv
<1> SUFFICES ASSUME ReadInit PROVE ReadInv
  OBVIOUS
<1> USE ReadAssumption DEF ReadInit
<1>1. AllLeased = {} /\ \A p \in Pools : Leased(p) = {} /\ WorkersOf(p) = {}
  BY DEF AllLeased, Leased, WorkersOf, Slot
<1>2. Cardinality({}) = 0
  BY FS_EmptySet
<1>3. ReadTypeOK
  <2>1. slots \in [Lanes -> [phase : Phases, read : Readers \cup {NoRead}, settled : BOOLEAN]]
    BY DEF Slot, Phases
  <2>2. instances \in Seq(Pools)
    BY PoolsInOrder
  <2> QED
    BY <2>1, <2>2 DEF ReadTypeOK
<1>4. LeaseInv
  <2>1. \A w \in Lanes : slots[w].read = NoRead
    BY DEF Slot
  <2>2. GlobalMax \in Nat /\ 0 <= GlobalMax
    OBVIOUS
  <2>3. \A p \in Pools : leases[p] = Cardinality(Leased(p))
    BY <1>1, <1>2
  <2> QED
    BY <1>1, <1>2, <2>1, <2>2, <2>3 DEF LeaseInv
<1>5. WaitInv
  BY DEF WaitInv, Waits
<1>6. LifeInv
  BY <1>1 DEF LifeInv, Open
<1> QED
  BY <1>3, <1>4, <1>5, <1>6 DEF ReadInv

(* The counters of a step that gives and takes no lease.                    *)
LEMMA LeasesStay ==
    ASSUME ReadInv, UNCHANGED <<leases, globalActive>>,
           \A w \in Lanes : /\ slots'[w].read # NoRead <=> slots[w].read # NoRead
                            /\ slots'[w].read # NoRead => slots'[w].phase # "none"
    PROVE  LeaseInv'
<1>1. AllLeased' = AllLeased /\ \A p \in Pools : Leased(p)' = Leased(p)
  BY DEF AllLeased, Leased
<1> QED
  BY <1>1 DEF ReadInv, LeaseInv

(* A worker gets a read: one lease more, of its pool and of all.            *)
LEMMA LeaseTaken ==
    ASSUME ReadInv, NEW w \in Lanes, slots[w].read = NoRead, slots'[w].read # NoRead,
           slots'[w].phase # "none", \A v \in Lanes \ {w} : slots'[v] = slots[v],
           globalActive < GlobalMax,
           leases' = [leases EXCEPT ![LaneOf[w]] = @ + 1], globalActive' = globalActive + 1
    PROVE  LeaseInv' /\ leases' \in [Pools -> Nat] /\ globalActive' \in Nat
<1>0. LaneOf[w] \in Pools /\ leases \in [Pools -> Nat] /\ globalActive \in Nat /\ GlobalMax \in Nat
  BY ReadAssumption DEF ReadInv, ReadTypeOK
<1>1. /\ AllLeased' = AllLeased \cup {w} /\ w \notin AllLeased
      /\ \A p \in Pools : Leased(p)' = IF p = LaneOf[w] THEN Leased(p) \cup {w} ELSE Leased(p)
      /\ \A p \in Pools : w \notin Leased(p)
  BY DEF AllLeased, Leased
<1>2. Cardinality(AllLeased') = Cardinality(AllLeased) + 1
  BY <1>1, LeasedFinite, FS_AddElement
<1>3. ASSUME NEW p \in Pools
      PROVE  Cardinality(Leased(p)') = Cardinality(Leased(p)) + IF p = LaneOf[w] THEN 1 ELSE 0
  BY <1>1, LeasedFinite, FS_AddElement
<1>4. \A p \in Pools : leases'[p] = leases[p] + IF p = LaneOf[w] THEN 1 ELSE 0
  BY <1>0
<1>5. /\ \A p \in Pools : leases'[p] = Cardinality(Leased(p)')
      /\ globalActive' = Cardinality(AllLeased') /\ globalActive' <= GlobalMax
  BY <1>0, <1>2, <1>3, <1>4 DEF ReadInv, LeaseInv
<1>6. \A v \in Lanes : slots'[v].read # NoRead => slots'[v].phase # "none"
  BY DEF ReadInv, LeaseInv
<1> QED
  BY <1>0, <1>5, <1>6 DEF LeaseInv

(* A worker gives its read back.                                            *)
LEMMA LeaseReleased ==
    ASSUME ReadInv, NEW w \in Lanes, slots[w].read # NoRead, slots'[w].read = NoRead,
           \A v \in Lanes \ {w} : slots'[v] = slots[v], ReleaseLease(LaneOf[w])
    PROVE  LeaseInv' /\ leases' \in [Pools -> Nat] /\ globalActive' \in Nat
<1>0. LaneOf[w] \in Pools /\ leases \in [Pools -> Nat] /\ globalActive \in Nat /\ GlobalMax \in Nat
  BY ReadAssumption DEF ReadInv, ReadTypeOK
<1>1. /\ AllLeased' = AllLeased \ {w} /\ w \in AllLeased
      /\ \A p \in Pools : Leased(p)' = IF p = LaneOf[w] THEN Leased(p) \ {w} ELSE Leased(p)
      /\ w \in Leased(LaneOf[w])
  BY DEF AllLeased, Leased
<1>2. Cardinality(AllLeased') = Cardinality(AllLeased) - 1 /\ Cardinality(AllLeased') \in Nat
  BY <1>1, LeasedFinite, FS_RemoveElement, FS_CardinalityType
<1>3. ASSUME NEW p \in Pools
      PROVE  /\ Cardinality(Leased(p)') = Cardinality(Leased(p)) - IF p = LaneOf[w] THEN 1 ELSE 0
             /\ Cardinality(Leased(p)') \in Nat
  BY <1>1, LeasedFinite, FS_RemoveElement, FS_CardinalityType
<1>4. /\ leases' = [leases EXCEPT ![LaneOf[w]] = @ - 1] /\ globalActive' = globalActive - 1
      /\ \A p \in Pools : leases'[p] = leases[p] - IF p = LaneOf[w] THEN 1 ELSE 0
  BY <1>0 DEF ReleaseLease
<1>5. /\ \A p \in Pools : leases'[p] = Cardinality(Leased(p)') /\ leases'[p] \in Nat
      /\ globalActive' = Cardinality(AllLeased') /\ globalActive' <= GlobalMax
  BY <1>0, <1>2, <1>3, <1>4 DEF ReadInv, LeaseInv
<1>6. \A v \in Lanes : slots'[v].read # NoRead => slots'[v].phase # "none"
  BY DEF ReadInv, LeaseInv
<1>7. leases' \in [Pools -> Nat]
  BY <1>0, <1>4, <1>5
<1> QED
  BY <1>2, <1>5, <1>6, <1>7 DEF LeaseInv

(* The other half of a step: reads in G are answered, every other read that *)
(* was under way still is, and who waits afterwards waited before.         *)
LEMMA WaitKeeps ==
    ASSUME ReadInv, NEW G,
           \A p \in Pools : \A i \in 1 .. Len(waiting'[p]) : PoolOf[waiting'[p][i]] = p,
           \A r \in Readers \ G : Underway(r) => Underway(r)',
           \A p \in Pools : inFlight'[p] # NoRead =>
               inFlight'[p] = inFlight[p] /\ inFlight[p] \in Readers \ G,
           \A c \in Readers : reader'[c] \in Readers =>
               reader'[c] = reader[c] /\ reader[c] \notin G
    PROVE  WaitInv'
<1>1. ASSUME NEW p \in Pools, inFlight'[p] # NoRead
      PROVE  (PoolOf[inFlight[p]] = p /\ Underway(inFlight[p]))'
  <2>1. PICK r \in Readers \ G : r = inFlight[p] /\ inFlight'[p] = r
    BY <1>1
  <2>2. PoolOf[r] = p /\ Underway(r) /\ r # NoRead
    BY <1>1, <2>1 DEF ReadInv, WaitInv
  <2>3. Underway(r)'
    BY <2>1, <2>2
  <2> QED
    BY <2>1, <2>2, <2>3 DEF Underway
<1>2. ASSUME NEW c \in Readers, reader'[c] \in Readers
      PROVE  (PoolOf[reader[c]] = PoolOf[c] /\ Underway(reader[c]))'
  <2>1. PICK r \in Readers \ G : r = reader[c] /\ reader'[c] = r
    BY <1>2
  <2>2. PoolOf[r] = PoolOf[c] /\ Underway(r)
    BY <2>1 DEF ReadInv, WaitInv, Waits
  <2>3. Underway(r)'
    BY <2>1, <2>2
  <2> QED
    BY <2>1, <2>2, <2>3 DEF Underway
<1> QED
  BY <1>1, <1>2 DEF WaitInv, Waits

(* The same when no read is answered.                                       *)
LEMMA WaitStays ==
    ASSUME ReadInv, UNCHANGED inFlight,
           \A p \in Pools : \A i \in 1 .. Len(waiting'[p]) : PoolOf[waiting'[p][i]] = p,
           \A r \in Readers : Underway(r) => Underway(r)',
           \A c \in Readers : reader'[c] \in Readers => reader'[c] = reader[c]
    PROVE  WaitInv'
<1>1. \A p \in Pools : inFlight'[p] # NoRead =>
          inFlight'[p] = inFlight[p] /\ inFlight[p] \in Readers \ {}
  BY DEF ReadInv, ReadTypeOK
<1>2. \A r \in Readers \ {} : Underway(r) => Underway(r)'
  OBVIOUS
<1>3. \A c \in Readers : reader'[c] \in Readers => reader'[c] = reader[c] /\ reader[c] \notin {}
  OBVIOUS
<1> QED
  BY <1>1, <1>2, <1>3, WaitKeeps

(* Settles answers exactly the reads it is given.                           *)
LEMMA SettledOnly ==
    ASSUME ReadInv, NEW G, Settles(G)
    PROVE  /\ inFlight' \in [Pools -> Readers \cup {NoRead}]
           /\ reader' \in [Readers -> Readers \cup {"new", "done"}]
           /\ \A p \in Pools : inFlight'[p] # NoRead =>
                  inFlight'[p] = inFlight[p] /\ inFlight[p] \in Readers \ G
           /\ \A c \in Readers : reader'[c] \in Readers =>
                  reader'[c] = reader[c] /\ reader[c] \notin G
<1>1. "done" \notin Readers
  BY ReadAssumption
<1>2. /\ inFlight \in [Pools -> Readers \cup {NoRead}]
      /\ reader \in [Readers -> Readers \cup {"new", "done"}]
  BY DEF ReadInv, ReadTypeOK
<1> QED
  BY <1>1, <1>2 DEF Settles

(* The same for a step that settles the reads of G.                         *)
LEMMA WaitSettles ==
    ASSUME ReadInv, NEW G, Settles(G),
           \A p \in Pools : \A i \in 1 .. Len(waiting'[p]) : PoolOf[waiting'[p][i]] = p,
           \A r \in Readers \ G : Underway(r) => Underway(r)'
    PROVE  WaitInv'
<1>1. \A p \in Pools : inFlight'[p] # NoRead =>
          inFlight'[p] = inFlight[p] /\ inFlight[p] \in Readers \ G
  BY SettledOnly
<1>2. \A c \in Readers : reader'[c] \in Readers => reader'[c] = reader[c] /\ reader[c] \notin G
  BY SettledOnly
<1> QED
  BY <1>1, <1>2, WaitKeeps

(* Workers that only change their phase keep their reads.                   *)
LEMMA PhasesOnly ==
    ASSUME ReadInv, UNCHANGED waiting, NEW r \in Readers, Underway(r),
           \A w \in Lanes : slots'[w].read = slots[w].read /\ slots'[w].settled = slots[w].settled
    PROVE  Underway(r)'
BY DEF Underway

(* discardWorker gives nothing away.                                        *)
LEMMA DiscardKeeps ==
    ASSUME ReadInv, NEW ws, Discard(ws)
    PROVE  /\ slots' \in [Lanes -> [phase : Phases, read : Readers \cup {NoRead}, settled : BOOLEAN]]
           /\ \A w \in Lanes : /\ slots'[w].read = slots[w].read
                               /\ slots'[w].settled = slots[w].settled
                               /\ slots'[w].phase = "none" <=> slots[w].phase = "none"
<1>1. slots \in [Lanes -> [phase : Phases, read : Readers \cup {NoRead}, settled : BOOLEAN]]
  BY DEF ReadInv, ReadTypeOK
<1>2. \A w \in Lanes : slots'[w] = IF w \in ws /\ slots[w].phase = "up"
                                   THEN [slots[w] EXCEPT !.phase = "term"] ELSE slots[w]
  BY DEF Discard
<1>3. slots' = [w \in Lanes |-> slots'[w]]
  BY DEF Discard
<1> QED
  BY <1>1, <1>2, <1>3 DEF Phases, Dying

-----------------------------------------------------------------------------
(* The steps of a caller.                                                   *)

LEMMA CallerStep ==
    ASSUME ReadInv, NEW c \in Readers,
           RunRefuses(c) \/ Subscribe(c) \/ Unsubscribe(c) \/ \E b \in BOOLEAN : Run(c, b)
    PROVE  ReadInv'
<1>0. /\ PoolOf[c] \in Pools /\ "new" \notin Readers /\ "done" \notin Readers /\ NoRead \notin Readers
      /\ ReadTypeOK
  BY ReadAssumption DEF ReadInv
<1>1. UNCHANGED <<slots, poolStates>>
  BY DEF RunRefuses, Subscribe, Unsubscribe, Run
<1>2. LeaseInv'
  BY <1>1, LeasesStay DEF ReadInv, LeaseInv, poolStates
<1>3. CASE RunRefuses(c) \/ Subscribe(c) \/ Unsubscribe(c)
  <2>1. /\ UNCHANGED <<waiting, inFlight, visits>>
        /\ \E x : /\ reader' = [reader EXCEPT ![c] = x]
                  /\ x = "done" \/ (x = inFlight[PoolOf[c]] /\ x # NoRead)
    BY <1>3 DEF RunRefuses, Subscribe, Unsubscribe
  <2>2. ReadTypeOK'
    BY <1>0, <1>1, <2>1 DEF ReadTypeOK, poolStates
  <2>3. LifeInv'
    BY <1>1, <2>1 DEF ReadInv, LifeInv, Open, WorkersOf, poolStates
  <2>4. \A r \in Readers : Underway(r) => Underway(r)'
    BY <1>1, <2>1 DEF Underway
  <2>5. WaitInv'
    BY <1>0, <2>1, <2>4 DEF ReadInv, WaitInv, ReadTypeOK, Waits
  <2> QED
    BY <1>2, <2>2, <2>3, <2>5 DEF ReadInv
<1>4. ASSUME NEW b \in BOOLEAN, Run(c, b) PROVE ReadInv'
  <2> DEFINE p == PoolOf[c]
  <2>1. /\ reader' = [reader EXCEPT ![c] = c] /\ waiting' = [waiting EXCEPT ![p] = Append(@, c)]
        /\ inFlight' \in {inFlight, [inFlight EXCEPT ![p] = c]}
        /\ visits' = <<p>> /\ Open(p)
    BY <1>4 DEF Run, Accepts
  <2>2. /\ waiting[p] \in Seq(Readers) /\ waiting'[p] = Append(waiting[p], c)
        /\ \A q \in Pools \ {p} : waiting'[q] = waiting[q]
    BY <1>0, <2>1 DEF ReadTypeOK
  <2>3. /\ waiting'[p] \in Seq(Readers) /\ Len(waiting'[p]) = Len(waiting[p]) + 1
        /\ \A i \in 1 .. Len(waiting[p]) : waiting'[p][i] = waiting[p][i]
        /\ waiting'[p][Len(waiting[p]) + 1] = c /\ Len(waiting[p]) \in Nat
    BY <2>2
  <2>4. /\ \A x : Contains(waiting[p], x) => Contains(waiting'[p], x)
        /\ Contains(waiting'[p], c)
    <3>1. \A i \in 1 .. Len(waiting[p]) : i \in 1 .. Len(waiting'[p])
      BY <2>3
    <3>2. Len(waiting[p]) + 1 \in 1 .. Len(waiting'[p])
      BY <2>3
    <3> HIDE DEF p
    <3>3. \A x : Contains(waiting[p], x) => Contains(waiting'[p], x)
      BY <2>3, <3>1 DEF Contains
    <3> QED
      BY <2>3, <3>2, <3>3 DEF Contains
  <2>5. ReadTypeOK'
    <3>1. visits' \in Seq(Pools)
      BY <1>0, <2>1
    <3>2. waiting' \in [Pools -> Seq(Readers)]
      BY <1>0, <2>1, <2>3 DEF ReadTypeOK
    <3>3. inFlight' \in [Pools -> Readers \cup {NoRead}]
      BY <1>0, <2>1 DEF ReadTypeOK
    <3>4. reader' \in [Readers -> Readers \cup {"new", "done"}]
      BY <1>0, <2>1 DEF ReadTypeOK
    <3> QED
      BY <1>0, <1>1, <3>1, <3>2, <3>3, <3>4 DEF ReadTypeOK, poolStates
  <2>6. LifeInv'
    BY <1>0, <1>1, <2>1, <2>2 DEF ReadInv, LifeInv, Open, WorkersOf, poolStates
  <2>7. Underway(c)' /\ \A r \in Readers : Underway(r) => Underway(r)'
    <3>1. \A q \in Pools, r \in Readers : Contains(waiting[q], r) => Contains(waiting'[q], r)
      BY <2>2, <2>4
    <3>2. PoolOf \in [Readers -> Pools]
      BY ReadAssumption
    <3> QED
      BY <1>1, <2>4, <3>1, <3>2 DEF Underway
  <2>8. \A q \in Pools : \A i \in 1 .. Len(waiting'[q]) : PoolOf[waiting'[q][i]] = q
    <3> TAKE q \in Pools
    <3> TAKE i \in 1 .. Len(waiting'[q])
    <3>1. CASE q = p
      <4>1. i \in 1 .. Len(waiting[p]) \/ i = Len(waiting[p]) + 1
        BY <2>3, <3>1
      <4> QED
        BY <2>3, <3>1, <4>1 DEF ReadInv, WaitInv
    <3>2. CASE q # p
      BY <2>2, <3>2 DEF ReadInv, WaitInv
    <3> QED
      BY <3>1, <3>2
  <2>9. WaitInv'
    <3>1. \A q \in Pools : inFlight'[q] = inFlight[q] \/ (q = p /\ inFlight'[q] = c)
      BY <1>0, <2>1 DEF ReadTypeOK
    <3>2. \A d \in Readers : reader'[d] = reader[d] \/ (d = c /\ reader'[d] = c)
      BY <1>0, <2>1 DEF ReadTypeOK
    <3>3. \A q \in Pools : inFlight[q] \in Readers \cup {NoRead}
      BY <1>0 DEF ReadTypeOK
    <3> QED
      BY <2>7, <2>8, <3>1, <3>2, <3>3 DEF ReadInv, WaitInv, Waits
  <2> QED
    BY <1>2, <2>5, <2>6, <2>9 DEF ReadInv
<1> QED
  BY <1>3, <1>4

(* The abort listener of a read that is queued.                             *)
LEMMA AbortQueuedStep == ASSUME ReadInv, NEW c \in Readers, AbortQueuedRead(c) PROVE ReadInv'
<1> DEFINE r == reader[c]
           p == PoolOf[r]
<1>0. /\ r \in Readers /\ p \in Pools /\ p = PoolOf[c] /\ NoRead \notin Readers /\ ReadTypeOK
  BY ReadAssumption DEF AbortQueuedRead, Waits, ReadInv, WaitInv
<1>1. PICK i \in 1 .. Len(waiting[p]) :
          waiting[p][i] = r /\ waiting' = [waiting EXCEPT ![p] = RemoveAt(waiting[p], i)]
  BY <1>0 DEF AbortQueuedRead
<1>2. Settles({r}) /\ UNCHANGED <<slots, poolStates, visits>>
  BY <1>0 DEF AbortQueuedRead
<1> HIDE DEF r, p
<1>3. waiting[p] \in Seq(Readers) /\ waiting'[p] = RemoveAt(waiting[p], i)
  BY <1>0, <1>1 DEF ReadTypeOK
<1>4. /\ waiting'[p] \in Seq(Readers)
      /\ \A x : Contains(waiting'[p], x) => Contains(waiting[p], x)
      /\ \A x : Contains(waiting[p], x) /\ x # r => Contains(waiting'[p], x)
  BY <1>1, <1>3, TakenOut
<1>5. \A q \in Pools \ {p} : waiting'[q] = waiting[q]
  BY <1>0, <1>1 DEF ReadTypeOK
<1>6. ReadTypeOK'
  <2>1. waiting' \in [Pools -> Seq(Readers)]
    BY <1>0, <1>1, <1>4, <1>5 DEF ReadTypeOK
  <2> QED
    BY <1>0, <1>2, <2>1, SettledOnly DEF ReadTypeOK, poolStates
<1>7. LeaseInv'
  BY <1>2, LeasesStay DEF ReadInv, LeaseInv, poolStates
<1>8. LifeInv'
  <2>1. Open(p)
    BY <1>0, <1>1 DEF ReadInv, LifeInv
  <2> QED
    BY <1>0, <1>2, <1>5, <2>1 DEF ReadInv, LifeInv, Open, WorkersOf, poolStates
<1>9. WaitInv'
  <2>1. ASSUME NEW q \in Pools, NEW k \in 1 .. Len(waiting'[q]) PROVE PoolOf[waiting'[q][k]] = q
    <3>1. CASE q = p
      <4>1. Contains(waiting[p], waiting'[q][k])
        BY <1>4, <2>1, <3>1 DEF Contains
      <4> QED
        BY <3>1, <4>1, <1>0 DEF ReadInv, WaitInv, Contains
    <3>2. CASE q # p
      BY <1>5, <3>2 DEF ReadInv, WaitInv
    <3> QED
      BY <3>1, <3>2
  <2>2. \A x \in Readers \ {r} : Underway(x) => Underway(x)'
    <3>1. PoolOf \in [Readers -> Pools]
      BY ReadAssumption
    <3> QED
      BY <1>2, <1>4, <1>5, <3>1 DEF Underway
  <2> QED
    BY <1>2, <2>1, <2>2, WaitSettles
<1> QED
  BY <1>6, <1>7, <1>8, <1>9 DEF ReadInv

(* Steps that only change phases of workers, and the callers' answers.      *)
LEMMA LanePhaseStep ==
    ASSUME ReadInv, UNCHANGED <<waiting, poolStates, inFlight, visits>>,
           slots' \in [Lanes -> [phase : Phases, read : Readers \cup {NoRead}, settled : BOOLEAN]],
           \A w \in Lanes : /\ slots'[w].read = slots[w].read
                            /\ slots'[w].settled = slots[w].settled
                            /\ slots'[w].phase = "none" <=> slots[w].phase = "none",
           reader' \in [Readers -> Readers \cup {"new", "done"}],
           \A c \in Readers : reader'[c] = reader[c] \/ reader'[c] = "done"
    PROVE  ReadInv'
<1>0. "done" \notin Readers
  BY ReadAssumption
<1>1. ReadTypeOK'
  BY DEF ReadInv, ReadTypeOK, poolStates
<1>2. LeaseInv'
  BY LeasesStay DEF ReadInv, LeaseInv, poolStates
<1>3. LifeInv'
  BY DEF ReadInv, LifeInv, Open, WorkersOf, poolStates
<1>4. WaitInv'
  <2>2. \A p \in Pools : \A k \in 1 .. Len(waiting'[p]) : PoolOf[waiting'[p][k]] = p
    BY DEF ReadInv, WaitInv
  <2>3. \A r \in Readers : Underway(r) => Underway(r)'
    BY PhasesOnly
  <2> QED
    BY <1>0, <2>2, <2>3, WaitStays
<1> QED
  BY <1>1, <1>2, <1>3, <1>4 DEF ReadInv

(* A caller that aborts the read under way.                                *)
LEMMA AbortActiveStep == ASSUME ReadInv, NEW c \in Readers, AbortActiveRead(c) PROVE ReadInv'
<1>1. Discard(Reading(reader[c])) /\ UNCHANGED <<waiting, poolStates, inFlight, visits>>
  BY DEF AbortActiveRead
<1>2. reader' = reader \/ reader' = [reader EXCEPT ![c] = "done"]
  BY DEF AbortActiveRead
<1>3. /\ reader' \in [Readers -> Readers \cup {"new", "done"}]
      /\ \A d \in Readers : reader'[d] = reader[d] \/ reader'[d] = "done"
  BY <1>2 DEF ReadInv, ReadTypeOK
<1> QED
  BY <1>1, <1>3, DiscardKeeps, LanePhaseStep

(* A worker that fails or misses a deadline.                               *)
LEMMA FailingStep ==
    ASSUME ReadInv, NEW w \in Lanes, WorkerFails(w) \/ ReadTimeout(w) \/ TermTimeoutOf(w)
    PROVE  ReadInv'
<1>1. /\ UNCHANGED <<waiting, poolStates, inFlight, reader, visits>>
      /\ Discard({w}) \/ (slots[w].phase = "term" /\ slots' = [slots EXCEPT ![w].phase = "kill"])
  BY DEF WorkerFails, ReadTimeout, TermTimeoutOf
<1>2. reader' \in [Readers -> Readers \cup {"new", "done"}]
  BY <1>1 DEF ReadInv, ReadTypeOK
<1>3. CASE Discard({w})
  BY <1>1, <1>2, <1>3, DiscardKeeps, LanePhaseStep
<1>4. CASE slots[w].phase = "term" /\ slots' = [slots EXCEPT ![w].phase = "kill"]
  <2>1. /\ slots' \in [Lanes -> [phase : Phases, read : Readers \cup {NoRead}, settled : BOOLEAN]]
        /\ \A v \in Lanes : /\ slots'[v].read = slots[v].read
                            /\ slots'[v].settled = slots[v].settled
                            /\ slots'[v].phase = "none" <=> slots[v].phase = "none"
    BY <1>4 DEF ReadInv, ReadTypeOK, Phases, Dying
  <2> QED
    BY <1>1, <1>2, <2>1, LanePhaseStep
<1> QED
  BY <1>1, <1>3, <1>4

-----------------------------------------------------------------------------
(* The steps of a worker and of drain.                                      *)

(* A worker's slot is made anew.                                            *)
LEMMA SlotTyped ==
    ASSUME ReadInv, NEW w \in Lanes, NEW ph \in Phases, NEW r \in Readers \cup {NoRead},
           slots' = [slots EXCEPT ![w] = Slot(ph, r)]
    PROVE  /\ slots' \in [Lanes -> [phase : Phases, read : Readers \cup {NoRead}, settled : BOOLEAN]]
           /\ slots'[w].phase = ph /\ slots'[w].read = r /\ ~slots'[w].settled
           /\ \A v \in Lanes \ {w} : slots'[v] = slots[v]
BY DEF ReadInv, ReadTypeOK, Slot

(* startPending: the head of the queue goes to a worker that reads nothing. *)
LEMMA StartPendingStep ==
    ASSUME ReadInv, NEW p \in Pools, MayStart(p), NEW b \in BOOLEAN,
           NEW w \in Idle(p) \cup New(p), StartPending(p, w, b),
           UNCHANGED <<visits, instances, lifecycle, unconfirmed, stops>>
    PROVE  ReadInv'
<1> DEFINE r == Head(waiting[p])
           q == waiting[p]
           ph == IF b THEN "up" ELSE "term"
<1>0. /\ w \in Lanes /\ LaneOf[w] = p /\ slots[w].read = NoRead /\ NoRead \notin Readers
      /\ ReadTypeOK /\ PoolOf \in [Readers -> Pools]
  BY ReadAssumption DEF Idle, New, WorkersOf, ReadInv, LeaseInv
<1>1. /\ q \in Seq(Readers) /\ q # <<>> /\ globalActive < GlobalMax /\ Open(p)
      /\ waiting' = [waiting EXCEPT ![p] = Tail(q)] /\ slots' = [slots EXCEPT ![w] = Slot(ph, r)]
      /\ leases' = [leases EXCEPT ![LaneOf[w]] = @ + 1] /\ globalActive' = globalActive + 1
      /\ UNCHANGED <<reader, inFlight>>
  BY <1>0 DEF MayStart, HasLane, StartPending, Shift, ReadTypeOK
<1>2. /\ Len(q) \in Nat /\ 1 \in 1 .. Len(q) /\ r = q[1] /\ r \in Readers
      /\ Tail(q) \in Seq(Readers) /\ Len(Tail(q)) = Len(q) - 1
      /\ \A i \in 1 .. Len(q) - 1 : Tail(q)[i] = q[i + 1]
  BY <1>1
<1>3. ph \in Phases /\ ph # "none"
  BY DEF Phases, Dying
<1> HIDE DEF ph
<1>4. /\ slots' \in [Lanes -> [phase : Phases, read : Readers \cup {NoRead}, settled : BOOLEAN]]
      /\ slots'[w].phase = ph /\ slots'[w].read = r /\ ~slots'[w].settled
      /\ \A v \in Lanes \ {w} : slots'[v] = slots[v]
  BY <1>0, <1>1, <1>2, <1>3, SlotTyped
<1>5. LeaseInv' /\ leases' \in [Pools -> Nat] /\ globalActive' \in Nat
  <2>1. slots'[w].read # NoRead /\ slots'[w].phase # "none"
    BY <1>0, <1>2, <1>3, <1>4
  <2> QED
    BY <1>0, <1>1, <1>4, <2>1, LeaseTaken
<1>6. waiting'[p] = Tail(q) /\ \A o \in Pools \ {p} : waiting'[o] = waiting[o]
  BY <1>0, <1>1 DEF ReadTypeOK
<1>7. ReadTypeOK'
  <2>1. waiting' \in [Pools -> Seq(Readers)]
    BY <1>0, <1>1, <1>2 DEF ReadTypeOK
  <2> QED
    BY <1>0, <1>1, <1>4, <1>5, <2>1 DEF ReadTypeOK
<1>8. LifeInv'
  BY <1>0, <1>1, <1>4, <1>6 DEF ReadInv, LifeInv, Open, WorkersOf
<1>9. \A i \in 1 .. Len(Tail(q)) : i + 1 \in 1 .. Len(q) /\ Tail(q)[i] = q[i + 1]
  BY <1>2
<1>10. \A x : Contains(q, x) /\ x # r => Contains(Tail(q), x)
  <2> SUFFICES ASSUME NEW i \in 1 .. Len(q), q[i] # r PROVE \E k \in 1 .. Len(Tail(q)) : Tail(q)[k] = q[i]
    BY DEF Contains
  <2>1. i # 1
    BY <1>2
  <2>2. PICK k \in 1 .. Len(q) - 1 : i = k + 1
    <3>1. i - 1 \in 1 .. Len(q) - 1
      BY <1>2, <2>1
    <3> QED
      BY <3>1
  <2> QED
    BY <1>2, <2>2
<1> HIDE DEF r, q
<1>11. WaitInv'
  <2>1. \A o \in Pools : \A i \in 1 .. Len(waiting'[o]) : PoolOf[waiting'[o][i]] = o
    <3> TAKE o \in Pools
    <3> TAKE i \in 1 .. Len(waiting'[o])
    <3>1. CASE o = p
      <4>1. i \in 1 .. Len(Tail(q)) /\ waiting'[o][i] = Tail(q)[i]
        BY <1>6, <3>1
      <4>2. i + 1 \in 1 .. Len(waiting[p]) /\ waiting'[o][i] = waiting[p][i + 1]
        BY <1>9, <4>1 DEF q
      <4> QED
        BY <3>1, <4>2 DEF ReadInv, WaitInv
    <3>2. CASE o # p
      BY <1>6, <3>2 DEF ReadInv, WaitInv
    <3> QED
      BY <3>1, <3>2
  <2>2. \A x \in Readers : Underway(x) => Underway(x)'
    <3> SUFFICES ASSUME NEW x \in Readers, Underway(x) PROVE Underway(x)'
      OBVIOUS
    <3>1. ASSUME NEW v \in Lanes, LaneOf[v] = PoolOf[x] /\ slots[v].read = x /\ ~slots[v].settled
          PROVE  Underway(x)'
      BY <1>0, <1>4, <3>1 DEF Underway
    <3>2. CASE Contains(waiting[PoolOf[x]], x)
      <4>1. CASE PoolOf[x] = p /\ x = r
        BY <1>0, <1>4, <4>1 DEF Underway
      <4>2. CASE PoolOf[x] = p /\ x # r
        BY <1>6, <1>10, <3>2, <4>2 DEF Underway, q
      <4>3. CASE PoolOf[x] # p
        BY <1>0, <1>6, <3>2, <4>3 DEF Underway
      <4> QED
        BY <4>1, <4>2, <4>3
    <3> QED
      BY <3>1, <3>2 DEF Underway
  <2> QED
    BY <1>1, <2>1, <2>2, WaitStays
<1> QED
  BY <1>5, <1>7, <1>8, <1>11 DEF ReadInv

(* The head of a queue leaves it: its pool keeps the others.                *)
LEMMA Shifted ==
    ASSUME ReadInv, NEW p \in Pools, waiting[p] # <<>>, Shift(p)
    PROVE  /\ waiting' \in [Pools -> Seq(Readers)] /\ Head(waiting[p]) \in Readers
           /\ \A o \in Pools : \A i \in 1 .. Len(waiting'[o]) : PoolOf[waiting'[o][i]] = o
           /\ \A o \in Pools : \A x : Contains(waiting[o], x) /\ x # Head(waiting[p])
                                         => Contains(waiting'[o], x)
           /\ \A o \in Pools \ {p} : waiting'[o] = waiting[o]
<1> DEFINE q == waiting[p]
           t == Tail(q)
<1>1. q \in Seq(Readers) /\ q # <<>> /\ waiting \in [Pools -> Seq(Readers)]
  BY DEF ReadInv, ReadTypeOK
<1>2. waiting' = [waiting EXCEPT ![p] = t]
  BY DEF Shift
<1>3. /\ Len(q) \in Nat /\ 1 \in 1 .. Len(q) /\ Head(q) = q[1] /\ Head(q) \in Readers
      /\ t \in Seq(Readers) /\ Len(t) = Len(q) - 1
      /\ \A i \in 1 .. Len(q) - 1 : t[i] = q[i + 1]
  BY <1>1
<1>4. \A i \in 1 .. Len(t) : i + 1 \in 1 .. Len(q) /\ t[i] = q[i + 1]
  BY <1>3
<1> HIDE DEF t, q
<1>5. \A x : Contains(q, x) /\ x # Head(q) => Contains(t, x)
  <2> SUFFICES ASSUME NEW i \in 1 .. Len(q), q[i] # Head(q)
               PROVE  \E k \in 1 .. Len(t) : t[k] = q[i]
    BY DEF Contains
  <2>1. i - 1 \in 1 .. Len(q) - 1 /\ (i - 1) + 1 = i
    BY <1>3
  <2> QED
    BY <1>3, <2>1
<1>6. waiting'[p] = t /\ \A o \in Pools \ {p} : waiting'[o] = waiting[o]
  BY <1>1, <1>2
<1>7. ASSUME NEW o \in Pools, NEW i \in 1 .. Len(waiting'[o]) PROVE PoolOf[waiting'[o][i]] = o
  <2>1. CASE o = p
    <3>1. i + 1 \in 1 .. Len(waiting[p]) /\ waiting'[o][i] = waiting[p][i + 1]
      BY <1>4, <1>6, <2>1 DEF q
    <3> QED
      BY <2>1, <3>1 DEF ReadInv, WaitInv
  <2>2. CASE o # p
    BY <1>6, <2>2 DEF ReadInv, WaitInv
  <2> QED
    BY <2>1, <2>2
<1>8. \A o \in Pools : \A x : Contains(waiting[o], x) /\ x # Head(waiting[p])
                                 => Contains(waiting'[o], x)
  BY <1>5, <1>6 DEF q
<1>9. waiting' \in [Pools -> Seq(Readers)]
  BY <1>1, <1>2, <1>3
<1> QED
  BY <1>3, <1>6, <1>7, <1>8, <1>9 DEF q

(* createWorker fails: the head of the queue is rejected.                   *)
LEMMA CreateFailsStep ==
    ASSUME ReadInv, NEW p \in Pools, MayStart(p), NEW b \in BOOLEAN, NEW w \in New(p),
           CreateFails(p, w, b), UNCHANGED <<visits, instances, lifecycle, unconfirmed, stops>>
    PROVE  ReadInv'
<1> DEFINE r == Head(waiting[p])
<1>0. /\ w \in Lanes /\ LaneOf[w] = p /\ slots[w].read = NoRead /\ NoRead \notin Readers
      /\ ReadTypeOK /\ PoolOf \in [Readers -> Pools] /\ waiting[p] # <<>> /\ Open(p)
  BY ReadAssumption DEF New, ReadInv, LeaseInv, MayStart
<1>1. /\ Shift(p) /\ Settles({r}) /\ UNCHANGED <<leases, globalActive>>
      /\ slots' = slots \/ slots' = [slots EXCEPT ![w] = Slot("term", NoRead)]
  BY DEF CreateFails
<1>2. /\ waiting' \in [Pools -> Seq(Readers)]
      /\ \A o \in Pools : \A i \in 1 .. Len(waiting'[o]) : PoolOf[waiting'[o][i]] = o
      /\ \A o \in Pools : \A x : Contains(waiting[o], x) /\ x # r => Contains(waiting'[o], x)
      /\ \A o \in Pools \ {p} : waiting'[o] = waiting[o]
  BY <1>0, <1>1, Shifted
<1> HIDE DEF r
<1>3. /\ slots' \in [Lanes -> [phase : Phases, read : Readers \cup {NoRead}, settled : BOOLEAN]]
      /\ slots'[w].read = NoRead
      /\ \A v \in Lanes \ {w} : slots'[v] = slots[v]
  <2>1. "term" \in Phases
    BY DEF Phases, Dying
  <2> QED
    BY <1>0, <1>1, <2>1, SlotTyped DEF ReadTypeOK
<1>4. LeaseInv'
  BY <1>0, <1>1, <1>3, LeasesStay DEF ReadInv, LeaseInv
<1>5. ReadTypeOK'
  BY <1>0, <1>1, <1>2, <1>3, SettledOnly DEF ReadTypeOK
<1>6. LifeInv'
  <2>1. \A o \in Pools \ {p} : \A v \in Lanes : LaneOf[v] = o => slots'[v] = slots[v]
    BY <1>0, <1>3
  <2>2. \A o \in Pools \ {p} : waiting'[o] = waiting[o] /\ WorkersOf(o)' = WorkersOf(o)
    BY <1>2, <2>1 DEF WorkersOf
  <2>3. lifecycle' = lifecycle /\ lifecycle[p] = "open"
    BY <1>0 DEF Open
  <2> QED
    BY <2>2, <2>3 DEF ReadInv, LifeInv, Open
<1>7. WaitInv'
  <2>1. ASSUME NEW x \in Readers \ {r}, Underway(x) PROVE Underway(x)'
    <3>1. CASE Contains(waiting[PoolOf[x]], x)
      <4>1. PoolOf[x] \in Pools /\ x # r
        BY <1>0
      <4>2. Contains(waiting'[PoolOf[x]], x)
        BY <1>2, <3>1, <4>1
      <4> QED
        BY <4>2 DEF Underway
    <3>2. ASSUME NEW v \in Lanes, LaneOf[v] = PoolOf[x], slots[v].read = x, ~slots[v].settled
          PROVE  Underway(x)'
      <4>1. v # w /\ slots'[v] = slots[v]
        BY <1>0, <1>3, <3>2
      <4> QED
        BY <3>2, <4>1 DEF Underway
    <3> QED
      BY <2>1, <3>1, <3>2 DEF Underway
  <2> QED
    BY <1>1, <1>2, <2>1, WaitSettles
<1> QED
  BY <1>4, <1>5, <1>6, <1>7 DEF ReadInv

(* A pool that starts what it has queued.                                  *)
LEMMA DrainKeeps == ASSUME ReadInv, DrainStep PROVE ReadInv'
<1> DEFINE p == Head(visits)
<1>1. visits \in Seq(Pools) /\ visits # <<>>
  BY DEF ReadInv, ReadTypeOK, DrainStep
<1>2. p \in Pools /\ Tail(visits) \in Seq(Pools)
  BY <1>1
<1>3. CASE visits' = Tail(visits) /\ UNCHANGED <<waiting, slots, leases, globalActive, reader, inFlight>>
  <2>1. UNCHANGED <<waiting, slots, leases, globalActive, reader, inFlight, instances, lifecycle,
                    unconfirmed, stops>>
    BY <1>3 DEF DrainStep
  <2>2. ReadTypeOK'
    BY <1>2, <1>3, <2>1 DEF ReadInv, ReadTypeOK
  <2>3. LeaseInv'
    BY <2>1, LeasesStay DEF ReadInv, LeaseInv
  <2>4. LifeInv' /\ WaitInv'
    BY <2>1 DEF ReadInv, LifeInv, WaitInv, Underway, Waits, Open, WorkersOf
  <2> QED
    BY <2>2, <2>3, <2>4 DEF ReadInv
<1>4. CASE MayStart(p)
  <2>1. UNCHANGED <<visits, instances, lifecycle, unconfirmed, stops>>
    BY <1>4 DEF DrainStep
  <2>2. PICK b \in BOOLEAN : \/ \E w \in Idle(p) : StartPending(p, w, b)
                             \/ \E w \in New(p) : StartPending(p, w, b) \/ CreateFails(p, w, b)
    BY <1>4 DEF DrainStep
  <2> HIDE DEF p
  <2> QED
    BY <1>2, <1>4, <2>1, <2>2, StartPendingStep, CreateFailsStep
<1> QED
  BY <1>3, <1>4 DEF DrainStep

(* A read is answered and its lease goes: by the answer, or by the close of *)
(* the worker.                                                             *)
LEMMA AnsweredKeeps ==
    ASSUME ReadInv, NEW w \in Lanes, NEW ph \in {"none", "up"}, slots[w].phase # "none",
           NEW G, {slots[w].read} \subseteq G \/ slots[w].settled, Settles(G),
           slots' = [slots EXCEPT ![w] = Slot(ph, NoRead)],
           IF slots[w].read # NoRead THEN ReleaseLease(LaneOf[w])
                                     ELSE UNCHANGED <<leases, globalActive>>,
           visits' = instances, UNCHANGED <<waiting, instances, lifecycle, unconfirmed, stops>>
    PROVE  ReadInv'
<1>0. ReadTypeOK /\ NoRead \notin Readers /\ NoRead \in Readers \cup {NoRead} /\ ph \in Phases
  BY ReadAssumption DEF ReadInv, Phases, Dying
<1>1. /\ slots' \in [Lanes -> [phase : Phases, read : Readers \cup {NoRead}, settled : BOOLEAN]]
      /\ slots'[w].phase = ph /\ slots'[w].read = NoRead
      /\ \A v \in Lanes \ {w} : slots'[v] = slots[v]
  BY <1>0, SlotTyped
<1>2. LeaseInv' /\ leases' \in [Pools -> Nat] /\ globalActive' \in Nat
  <2>1. CASE slots[w].read # NoRead
    BY <1>1, <2>1, LeaseReleased
  <2>2. CASE slots[w].read = NoRead
    BY <1>0, <1>1, <2>2, LeasesStay DEF ReadInv, LeaseInv, ReadTypeOK
  <2> QED
    BY <2>1, <2>2
<1>3. ReadTypeOK'
  BY <1>0, <1>1, <1>2, SettledOnly DEF ReadTypeOK
<1>4. LifeInv'
  BY <1>1 DEF ReadInv, LifeInv, Open, WorkersOf
<1>5. WaitInv'
  <2>1. \A x \in Readers \ G : Underway(x) => Underway(x)'
    BY <1>0, <1>1 DEF Underway
  <2>2. \A p \in Pools : \A i \in 1 .. Len(waiting'[p]) : PoolOf[waiting'[p][i]] = p
    BY DEF ReadInv, WaitInv
  <2> QED
    BY <2>1, <2>2, WaitSettles
<1> QED
  BY <1>2, <1>3, <1>4, <1>5 DEF ReadInv

(* A worker that answers.                                                  *)
LEMMA ReplyStep == ASSUME ReadInv, NEW w \in Lanes, Reply(w) PROVE ReadInv'
BY AnsweredKeeps DEF Reply, DrainAll

(* A worker that closes.                                                   *)
LEMMA CloseStep == ASSUME ReadInv, NEW w \in Lanes, CloseWorker(w) PROVE ReadInv'
<1>1. CASE slots[w].settled
  BY <1>1, AnsweredKeeps DEF CloseWorker, DrainAll, LeaseHeld
<1>2. CASE ~slots[w].settled
  BY <1>2, AnsweredKeeps DEF CloseWorker, DrainAll, LeaseHeld
<1> QED
  BY <1>1, <1>2

(* blockTermination: the read and the queue are rejected, the lease is kept. *)
LEMMA KillTimeoutStep == ASSUME ReadInv, NEW w \in Lanes, KillTimeoutOf(w) PROVE ReadInv'
<1> DEFINE p == LaneOf[w]
           G == ToSet(waiting[p]) \cup {slots[w].read}
<1>0. p \in Pools /\ NoRead \notin Readers /\ ReadTypeOK /\ PoolOf \in [Readers -> Pools]
  BY ReadAssumption DEF ReadInv
<1>1. /\ slots[w].phase = "kill" /\ Settles(G)
      /\ slots' = [slots EXCEPT ![w].phase = "blocked", ![w].settled = TRUE]
      /\ waiting' = [waiting EXCEPT ![p] = <<>>]
      /\ unconfirmed' \in {unconfirmed, unconfirmed \cup {p}}
      /\ UNCHANGED <<leases, globalActive, instances, lifecycle, stops, visits>>
  BY DEF KillTimeoutOf
<1>2. /\ slots' \in [Lanes -> [phase : Phases, read : Readers \cup {NoRead}, settled : BOOLEAN]]
      /\ \A v \in Lanes : slots'[v].read = slots[v].read
                          /\ (slots'[v].phase = "none" <=> slots[v].phase = "none")
      /\ \A v \in Lanes \ {w} : slots'[v] = slots[v]
  <2>1. slots \in [Lanes -> [phase : Phases, read : Readers \cup {NoRead}, settled : BOOLEAN]]
    BY ONLY <1>0 DEF ReadTypeOK
  <2>2. /\ slots[w].phase = "kill"
        /\ slots' = [slots EXCEPT ![w].phase = "blocked", ![w].settled = TRUE]
    BY ONLY <1>1
  <2> QED
    BY ONLY <2>1, <2>2, w \in Lanes DEF Phases, Dying
<1>3. /\ waiting' \in [Pools -> Seq(Readers)] /\ waiting'[p] = <<>>
      /\ \A o \in Pools \ {p} : waiting'[o] = waiting[o]
  BY <1>0, <1>1 DEF ReadTypeOK
<1>4. \A x : Contains(waiting[p], x) => x \in G
  <2>1. waiting[p] \in Seq(Readers) /\ DOMAIN waiting[p] = 1 .. Len(waiting[p])
    BY <1>0 DEF ReadTypeOK
  <2> QED
    BY <2>1 DEF Contains, ToSet
<1>5. slots[w].read \in G
  OBVIOUS
<1> HIDE DEF p, G
<1>6. ReadTypeOK'
  <2>1. unconfirmed' \subseteq Pools
    BY <1>0, <1>1 DEF ReadTypeOK
  <2> QED
    BY <1>0, <1>1, <1>2, <1>3, <2>1, SettledOnly DEF ReadTypeOK
<1>7. LeaseInv'
  BY <1>1, <1>2, LeasesStay DEF ReadInv, LeaseInv
<1>8. LifeInv'
  <2>1. \A o \in Pools : WorkersOf(o)' = WorkersOf(o)
    BY <1>2 DEF WorkersOf
  <2> QED
    BY <1>1, <1>3, <2>1 DEF ReadInv, LifeInv, Open
<1>9. WaitInv'
  <2>1. ASSUME NEW x \in Readers \ G, Underway(x) PROVE Underway(x)'
    BY <1>0, <1>2, <1>3, <1>4, <1>5, <2>1 DEF Underway
  <2>2. \A o \in Pools : \A i \in 1 .. Len(waiting'[o]) : PoolOf[waiting'[o][i]] = o
    <3> TAKE o \in Pools
    <3>1. o = p => 1 .. Len(waiting'[o]) = {}
      BY <1>3
    <3>2. o # p => waiting'[o] = waiting[o]
      BY <1>3
    <3> QED
      BY <3>1, <3>2 DEF ReadInv, WaitInv
  <2> QED
    BY <1>1, <2>1, <2>2, WaitSettles
<1> QED
  BY <1>6, <1>7, <1>8, <1>9 DEF ReadInv

-----------------------------------------------------------------------------
(* Stop and start.                                                          *)

LEMMA StopPoolStep == ASSUME ReadInv, NEW p \in Pools, StopPool(p) PROVE ReadInv'
<1> DEFINE G == ToSet(waiting[p])
<1>0. NoRead \notin Readers /\ ReadTypeOK /\ PoolOf \in [Readers -> Pools] /\ MaxStops \in Nat
  BY ReadAssumption DEF ReadInv
<1>1. /\ stops < MaxStops /\ stops' = stops + 1
      /\ lifecycle' = [lifecycle EXCEPT ![p] = "stopping"]
      /\ unconfirmed' \in {unconfirmed \cup {p}, unconfirmed \ {p}}
      /\ Settles(G) /\ waiting' = [waiting EXCEPT ![p] = <<>>] /\ Discard(WorkersOf(p))
      /\ UNCHANGED <<leases, globalActive, visits>>
  BY DEF StopPool
<1>2. instances' \in Seq(Pools)
  <2>1. instances \in Seq(Pools)
    BY ONLY <1>0 DEF ReadTypeOK
  <2>2. \A i \in 1 .. Len(instances) : RemoveAt(instances, i) \in Seq(Pools)
    BY <2>1, TakenOut
  <2> HIDE DEF G
  <2>3. \/ instances' = instances
        \/ \E i \in 1 .. Len(instances) : instances' = RemoveAt(instances, i)
    BY DEF StopPool
  <2> QED
    BY <2>1, <2>2, <2>3
<1>3. /\ waiting' \in [Pools -> Seq(Readers)] /\ waiting'[p] = <<>>
      /\ \A o \in Pools \ {p} : waiting'[o] = waiting[o]
  BY <1>0, <1>1 DEF ReadTypeOK
<1>4. \A x : Contains(waiting[p], x) => x \in G
  <2>1. waiting[p] \in Seq(Readers) /\ DOMAIN waiting[p] = 1 .. Len(waiting[p])
    BY <1>0 DEF ReadTypeOK
  <2> QED
    BY <2>1 DEF Contains, ToSet
<1> HIDE DEF G
<1>5. ReadTypeOK'
  <2>1. stops' \in 0 .. MaxStops /\ unconfirmed' \subseteq Pools
        /\ lifecycle' \in [Pools -> {"open", "stopping", "failed", "stopped"}]
    BY <1>0, <1>1 DEF ReadTypeOK
  <2> QED
    BY <1>0, <1>1, <1>2, <1>3, <2>1, SettledOnly, DiscardKeeps DEF ReadTypeOK
<1>6. LeaseInv'
  BY <1>1, DiscardKeeps, LeasesStay DEF ReadInv, LeaseInv
<1>7. LifeInv'
  <2>1. \A o \in Pools : WorkersOf(o)' = WorkersOf(o)
    BY <1>1, DiscardKeeps DEF WorkersOf
  <2>2. lifecycle'[p] = "stopping" /\ \A o \in Pools \ {p} : lifecycle'[o] = lifecycle[o]
    BY <1>0, <1>1 DEF ReadTypeOK
  <2> QED
    BY <1>3, <2>1, <2>2 DEF ReadInv, LifeInv, Open
<1>8. WaitInv'
  <2>1. ASSUME NEW x \in Readers \ G, Underway(x) PROVE Underway(x)'
    <3>1. \A v \in Lanes : slots'[v].read = slots[v].read /\ slots'[v].settled = slots[v].settled
      BY <1>1, DiscardKeeps
    <3> QED
      BY <1>0, <1>3, <1>4, <2>1, <3>1 DEF Underway
  <2>2. \A o \in Pools : \A i \in 1 .. Len(waiting'[o]) : PoolOf[waiting'[o][i]] = o
    <3> TAKE o \in Pools
    <3>1. o = p => 1 .. Len(waiting'[o]) = {}
      BY <1>3
    <3>2. o # p => waiting'[o] = waiting[o]
      BY <1>3
    <3> QED
      BY <3>1, <3>2 DEF ReadInv, WaitInv
  <2> QED
    BY <1>1, <2>1, <2>2, WaitSettles
<1> QED
  BY <1>5, <1>6, <1>7, <1>8 DEF ReadInv

(* A stop() that ends, and a pool that starts again.                       *)
LEMMA LifecycleStep ==
    ASSUME ReadInv, NEW p \in Pools, StopPoolEnds(p) \/ StartPool(p)
    PROVE  ReadInv'
<1>0. NoRead \notin Readers /\ ReadTypeOK
  BY ReadAssumption DEF ReadInv
<1>1. UNCHANGED <<waiting, slots, leases, globalActive, unconfirmed, stops, reader, visits>>
  BY DEF StopPoolEnds, StartPool
<1>2. /\ instances' \in {instances, Append(instances, p)}
      /\ inFlight' \in {inFlight, [inFlight EXCEPT ![p] = NoRead]}
      /\ \/ lifecycle' = [lifecycle EXCEPT ![p] = "stopped"] /\ WorkersOf(p) = {}
            /\ lifecycle[p] = "stopping"
         \/ lifecycle' = [lifecycle EXCEPT ![p] = "failed"] /\ lifecycle[p] = "stopping"
         \/ lifecycle' = [lifecycle EXCEPT ![p] = "open"]
  BY DEF StopPoolEnds, StartPool, Confirmed
<1>3. ReadTypeOK'
  <2>1. instances' \in Seq(Pools)
    <3>1. instances \in Seq(Pools)
      BY ONLY <1>0 DEF ReadTypeOK
    <3>2. Append(instances, p) \in Seq(Pools)
      BY ONLY <3>1, p \in Pools
    <3> QED
      BY <1>2, <3>1, <3>2
  <2>2. inFlight' \in [Pools -> Readers \cup {NoRead}]
    BY <1>0, <1>2 DEF ReadTypeOK
  <2>3. lifecycle' \in [Pools -> {"open", "stopping", "failed", "stopped"}]
    BY <1>0, <1>2 DEF ReadTypeOK
  <2> QED
    BY <1>0, <1>1, <2>1, <2>2, <2>3 DEF ReadTypeOK
<1>4. LeaseInv'
  BY <1>1, LeasesStay DEF ReadInv, LeaseInv
<1>5. LifeInv'
  <2>1. \A o \in Pools : WorkersOf(o)' = WorkersOf(o)
    BY <1>1 DEF WorkersOf
  <2>2. \A o \in Pools \ {p} : lifecycle'[o] = lifecycle[o]
    BY <1>0, <1>2 DEF ReadTypeOK
  <2>3. \/ lifecycle'[p] = "stopped" /\ WorkersOf(p) = {} /\ waiting[p] = <<>>
        \/ lifecycle'[p] = "failed" /\ waiting[p] = <<>>
        \/ lifecycle'[p] = "open"
    BY <1>0, <1>2 DEF ReadTypeOK, ReadInv, LifeInv, Open
  <2> QED
    BY <1>1, <2>1, <2>2, <2>3 DEF ReadInv, LifeInv, Open
<1>6. WaitInv'
  <2>1. \A r \in Readers : Underway(r) => Underway(r)'
    BY <1>1 DEF Underway
  <2>2. \A o \in Pools : inFlight'[o] = inFlight[o] \/ inFlight'[o] = NoRead
    BY <1>0, <1>2 DEF ReadTypeOK
  <2>3. \A o \in Pools : inFlight[o] \in Readers \cup {NoRead}
    BY <1>0 DEF ReadTypeOK
  <2> QED
    BY <1>1, <2>1, <2>2, <2>3 DEF ReadInv, WaitInv, Waits, Underway
<1> QED
  BY <1>3, <1>4, <1>5, <1>6 DEF ReadInv

(* The invariant of the pools holds.                                       *)
LEMMA ReadInvariant == ReadSpec => []ReadInv
<1>1. ReadInit => ReadInv
  BY ReadInitKeeps
<1>2. ReadInv /\ [ReadNext]_readVars => ReadInv'
  <2> SUFFICES ASSUME ReadInv, [ReadNext]_readVars PROVE ReadInv'
    OBVIOUS
  <2>1. CASE UNCHANGED readVars
    BY <2>1 DEF ReadInv, ReadTypeOK, LeaseInv, WaitInv, LifeInv, Leased, AllLeased, Underway,
                Waits, Open, WorkersOf, readVars, poolStates
  <2>2. CASE DrainStep
    BY <2>2, DrainKeeps
  <2>3. ASSUME NEW c \in Readers,
               \/ RunRefuses(c) \/ Subscribe(c) \/ \E b \in BOOLEAN : Run(c, b)
               \/ AbortQueuedRead(c) \/ AbortActiveRead(c) \/ Unsubscribe(c)
        PROVE  ReadInv'
    BY <2>3, CallerStep, AbortQueuedStep, AbortActiveStep
  <2>4. ASSUME NEW w \in Lanes, WorkerTimer(w) \/ Reply(w) \/ WorkerFails(w) \/ CloseWorker(w)
        PROVE  ReadInv'
    BY <2>4, FailingStep, KillTimeoutStep, ReplyStep, CloseStep DEF WorkerTimer
  <2>5. ASSUME NEW p \in Pools, StopPool(p) \/ StopPoolEnds(p) \/ StartPool(p) PROVE ReadInv'
    BY <2>5, StopPoolStep, LifecycleStep
  <2> QED
    BY <2>1, <2>2, <2>3, <2>4, <2>5 DEF ReadNext
<1> QED
  BY <1>1, <1>2, PTL DEF ReadSpec

(* Queues, slots and callers of the read worker pools keep their types, and *)
(* no counter of leases goes below zero.                                   *)
THEOREM ReadTypeCorrect == ReadSpec => []ReadTypeOK
<1>1. ReadInv => ReadTypeOK
  BY DEF ReadInv
<1> QED
  BY <1>1, ReadInvariant, PTL

(* The lanes that the pools of readers share are accounted for: leases are  *)
(* held exactly by workers with a read that have not closed, never more     *)
(* than globalMaxConcurrency, and a stopped pool has no worker, no lease,   *)
(* no queue and nobody who waits for it.                                   *)
THEOREM LanesAreAccounted == ReadSpec => []LanesAccounted
<1>1. ReadInv => LanesAccounted
  <2> SUFFICES ASSUME ReadInv PROVE LanesAccounted
    OBVIOUS
  <2>1. \A p \in Pools : {w \in WorkersOf(p) : slots[w].read # NoRead} = Leased(p)
    BY DEF ReadInv, LeaseInv, WorkersOf, Leased
  <2>2. LeasesCounted
    BY <2>1 DEF ReadInv, LeaseInv, LeasesCounted, AllLeased
  <2>3. ASSUME NEW p \in Pools, lifecycle[p] = "stopped"
        PROVE  /\ WorkersOf(p) = {} /\ leases[p] = 0 /\ waiting[p] = <<>>
               /\ \A c \in Readers : Waits(c) => PoolOf[c] # p
    <3>1. WorkersOf(p) = {} /\ waiting[p] = <<>>
      BY <2>3 DEF ReadInv, LifeInv, Open
    <3>2. Leased(p) = {}
      BY <2>1, <3>1
    <3>3. leases[p] = 0
      BY <3>2, FS_EmptySet DEF ReadInv, LeaseInv
    <3>4. ASSUME NEW c \in Readers, Waits(c), PoolOf[c] = p PROVE FALSE
      <4>1. PoolOf[reader[c]] = p /\ Underway(reader[c]) /\ reader[c] # NoRead
        BY <3>4, ReadAssumption DEF ReadInv, WaitInv, Waits
      <4>2. ~Contains(waiting[p], reader[c])
        BY <3>1 DEF Contains
      <4> QED
        BY <3>2, <4>1, <4>2 DEF Underway, Leased
    <3> QED
      BY <3>1, <3>3, <3>4
  <2> QED
    BY <2>2, <2>3 DEF LanesAccounted, StoppedIsEmpty
<1> QED
  BY <1>1, ReadInvariant, PTL

-----------------------------------------------------------------------------
(* No read and no stop waits for nothing.                                   *)

(* drain has nothing to start in a pool that it will not visit.             *)
VisitInv == \A p \in Pools : MayStart(p) => Contains(visits, p)

(* drainAll visits every open pool.                                         *)
ListInv == \A p \in Pools : Open(p) => Contains(instances, p)

(* A worker whose read was rejected is the one that would not close; its    *)
(* pool has no queue, and a stopping pool no worker that nobody terminates. *)
LaneInv == \A w \in Lanes :
    /\ slots[w].settled <=> slots[w].phase = "blocked"
    /\ slots[w].phase = "blocked" => waiting[LaneOf[w]] = <<>>
    /\ slots[w].phase = "up" => lifecycle[LaneOf[w]] # "stopping"

VigilInv == VisitInv /\ ListInv /\ LaneInv

(* drainAll visits every pool at first.                                     *)
LEMMA EveryPoolListed == \A p \in Pools : Contains(SetToSeq(Pools), p)
<1> DEFINE f == SetToSeq(Pools)
           n == Cardinality(Pools)
<1>1. IsFiniteSet(Pools) /\ n \in Nat /\ ExistsBijection(1 .. n, Pools)
  BY ReadAssumption, FS_CardinalityType
<1>2. \E g \in [1 .. n -> Pools] : IsInjective(g)
  BY <1>1 DEF ExistsBijection, Bijection, Injection
<1>3. f \in [1 .. n -> Pools] /\ IsInjective(f)
  BY <1>2 DEF SetToSeq
<1>4. Cardinality(1 .. n) = n
  BY <1>1, FS_Interval
<1> HIDE DEF f, n
<1>5. f \in Injection(1 .. n, Pools)
  BY <1>3 DEF Injection
<1>6. f \in Surjection(1 .. n, Pools)
  BY <1>1, <1>4, <1>5, FS_Injection DEF n
<1>7. Len(f) = n
  BY <1>1, <1>3
<1> QED
  BY <1>6, <1>7 DEF Surjection, Contains, f

(* A step that neither queues, opens nor frees anything, nor visits less.   *)
LEMMA VisitStays ==
    ASSUME ReadInv, ReadTypeOK', VisitInv,
           \A p \in Pools : MayStart(p) /\ Contains(visits, p) => Contains(visits', p),
           \A p \in Pools : lifecycle'[p] = "open" => lifecycle[p] = "open",
           \A p \in Pools : waiting[p] = <<>> => waiting'[p] = <<>>,
           \A p \in Pools : leases[p] <= leases'[p], globalActive <= globalActive',
           \A w \in Lanes : slots[w].phase \in Dying => slots'[w].phase \in Dying
    PROVE  VisitInv'
<1> SUFFICES ASSUME NEW p \in Pools, MayStart(p)' PROVE Contains(visits', p)
  BY DEF VisitInv
<1>1. DyingOf(p) = {}
  BY DEF MayStart, DyingOf, WorkersOf, Dying
<1>2. /\ leases[p] \in Nat /\ leases'[p] \in Nat /\ globalActive \in Nat /\ globalActive' \in Nat
      /\ GlobalMax \in Nat
  BY ReadAssumption DEF ReadInv, ReadTypeOK
<1>3. MaxConcurrency(p) \in Nat
  <2>1. IsFiniteSet(Lanes) /\ {w \in Lanes : LaneOf[w] = p} \in SUBSET Lanes
    BY ReadAssumption
  <2> QED
    BY <2>1, FS_Subset, FS_CardinalityType DEF MaxConcurrency
<1>4. leases'[p] < MaxConcurrency(p) /\ globalActive' < GlobalMax
  BY DEF MayStart, HasLane, MaxConcurrency
<1>5. HasLane(p)
  BY <1>2, <1>3, <1>4 DEF HasLane
<1> QED
  BY <1>1, <1>5 DEF MayStart, Open, VisitInv

(* After drainAll has begun nothing is left out.                            *)
LEMMA AllVisited ==
    ASSUME ListInv, UNCHANGED lifecycle, visits' = instances
    PROVE  VisitInv'
BY DEF ListInv, VisitInv, MayStart, Open

(* Workers that go on, or whose termination goes on.                        *)
LEMMA LanesGoOn ==
    ASSUME LaneInv, ReadInv,
           \A p \in Pools : waiting[p] = <<>> => waiting'[p] = <<>>,
           \A p \in Pools : lifecycle'[p] = "stopping" => lifecycle[p] = "stopping",
           \A w \in Lanes : /\ slots'[w].settled = slots[w].settled
                            /\ \/ slots'[w].phase = slots[w].phase
                               \/ slots[w].phase \in {"up", "term"}
                                  /\ slots'[w].phase \in {"term", "kill"}
    PROVE  LaneInv'
<1>1. \A w \in Lanes : LaneOf[w] \in Pools
  BY ReadAssumption
<1> QED
  BY <1>1 DEF LaneInv

(* discardWorker terminates those that are up.                              *)
LEMMA Discarded ==
    ASSUME ReadInv, NEW ws, Discard(ws)
    PROVE  /\ \A w \in Lanes : /\ slots'[w].settled = slots[w].settled
                               /\ \/ slots'[w].phase = slots[w].phase
                                  \/ slots[w].phase \in {"up", "term"}
                                     /\ slots'[w].phase \in {"term", "kill"}
           /\ \A w \in Lanes \cap ws : slots'[w].phase # "up"
<1>1. \A w \in Lanes : slots'[w] = IF w \in ws /\ slots[w].phase = "up"
                                   THEN [slots[w] EXCEPT !.phase = "term"] ELSE slots[w]
  BY DEF Discard
<1>2. \A w \in Lanes : slots[w] \in [phase : Phases, read : Readers \cup {NoRead}, settled : BOOLEAN]
  BY DEF ReadInv, ReadTypeOK
<1> QED
  BY <1>1, <1>2

(* Callers who give up and workers that are ended leave nobody waiting for  *)
(* nothing.                                                                *)
LEMMA QuietVigil ==
    ASSUME ReadInv, ReadTypeOK', VigilInv, UNCHANGED <<poolStates, visits>>,
           \A p \in Pools : waiting[p] = <<>> => waiting'[p] = <<>>,
           \A w \in Lanes : /\ slots'[w].settled = slots[w].settled
                            /\ \/ slots'[w].phase = slots[w].phase
                               \/ slots[w].phase \in {"up", "term"}
                                  /\ slots'[w].phase \in {"term", "kill"}
    PROVE  VigilInv'
<1>1. LaneInv'
  BY LanesGoOn DEF VigilInv, poolStates
<1>2. \A w \in Lanes : slots[w].phase \in Dying => slots'[w].phase \in Dying
  BY DEF Dying
<1>3. /\ \A p \in Pools : leases[p] \in Nat /\ leases[p] <= leases'[p]
      /\ globalActive <= globalActive'
  BY DEF ReadInv, ReadTypeOK, poolStates
<1>4. VisitInv'
  BY <1>2, <1>3, VisitStays DEF VigilInv, poolStates
<1>5. ListInv'
  BY DEF VigilInv, ListInv, Open, poolStates
<1> QED
  BY <1>1, <1>4, <1>5 DEF VigilInv

(* No caller who gives up, or is refused, makes anyone wait for nothing.   *)
LEMMA CallerVigil ==
    ASSUME ReadInv, ReadTypeOK', VigilInv, NEW c \in Readers,
           \/ RunRefuses(c) \/ Subscribe(c) \/ Unsubscribe(c)
           \/ AbortQueuedRead(c) \/ AbortActiveRead(c)
    PROVE  VigilInv'
<1>1. CASE RunRefuses(c) \/ Subscribe(c) \/ Unsubscribe(c)
  <2>1. UNCHANGED <<waiting, slots, poolStates, visits>>
    BY <1>1 DEF RunRefuses, Subscribe, Unsubscribe
  <2> QED
    BY <2>1, QuietVigil
<1>2. CASE AbortQueuedRead(c)
  <2>1. UNCHANGED <<slots, poolStates, visits>>
    BY <1>2 DEF AbortQueuedRead
  <2>2. PICK p \in Pools : \E i \in 1 .. Len(waiting[p]) :
            waiting' = [waiting EXCEPT ![p] = RemoveAt(@, i)]
    BY <1>2, ReadAssumption DEF AbortQueuedRead
  <2>3. waiting[p] # <<>>
    BY <2>2
  <2>4. \A o \in Pools : waiting[o] = <<>> => waiting'[o] = <<>>
    BY <2>2, <2>3 DEF ReadInv, ReadTypeOK
  <2> QED
    BY <2>1, <2>4, QuietVigil
<1>3. CASE AbortActiveRead(c)
  <2>1. Discard(Reading(reader[c])) /\ UNCHANGED <<waiting, poolStates, visits>>
    BY <1>3 DEF AbortActiveRead
  <2> QED
    BY <2>1, Discarded, QuietVigil
<1> QED
  BY <1>1, <1>2, <1>3

(* Neither does a new read: its pool is looked at next.                    *)
LEMMA RunVigil ==
    ASSUME ReadInv, VigilInv, NEW c \in Readers, NEW b \in BOOLEAN, Run(c, b)
    PROVE  VigilInv'
<1>1. /\ PoolOf[c] \in Pools /\ visits = <<>> /\ visits' = <<PoolOf[c]>>
      /\ waiting' = [waiting EXCEPT ![PoolOf[c]] = Append(@, c)]
      /\ DyingOf(PoolOf[c]) = {} /\ UNCHANGED <<slots, poolStates>>
  BY ReadAssumption DEF Run, Accepts
<1>2. Contains(visits', PoolOf[c]) /\ \A p : ~Contains(visits, p)
  BY <1>1 DEF Contains
<1>3. \A p \in Pools \ {PoolOf[c]} : waiting'[p] = waiting[p]
  BY <1>1 DEF ReadInv, ReadTypeOK
<1>4. VisitInv'
  BY <1>1, <1>2, <1>3 DEF VigilInv, VisitInv, MayStart, Open, DyingOf, WorkersOf, HasLane, poolStates
<1>5. LaneInv'
  <2>1. ASSUME NEW w \in Lanes, slots[w].phase = "blocked" PROVE waiting'[LaneOf[w]] = <<>>
    <3>1. LaneOf[w] \in Pools /\ LaneOf[w] # PoolOf[c]
      BY <1>1, <2>1, ReadAssumption DEF DyingOf, WorkersOf, Dying
    <3> QED
      BY <1>3, <2>1, <3>1 DEF VigilInv, LaneInv
  <2> QED
    BY <1>1, <2>1 DEF VigilInv, LaneInv, poolStates
<1>6. ListInv'
  BY <1>1 DEF VigilInv, ListInv, Open, poolStates
<1> QED
  BY <1>4, <1>5, <1>6 DEF VigilInv

(* A step of drain starts a worker of the pool at hand, or leaves it.       *)
LEMMA DrainVigil ==
    ASSUME ReadInv, ReadTypeOK', VigilInv, DrainStep
    PROVE  VigilInv'
<1> DEFINE p == Head(visits)
<1>0. /\ visits \in Seq(Pools) /\ visits # <<>> /\ p \in Pools
      /\ UNCHANGED <<instances, lifecycle, unconfirmed, stops>>
  BY DEF ReadInv, ReadTypeOK, DrainStep
<1>1. ListInv'
  BY <1>0 DEF VigilInv, ListInv, Open
<1>2. CASE /\ ~MayStart(p) /\ visits' = Tail(visits)
           /\ UNCHANGED <<waiting, slots, leases, globalActive, reader, inFlight>>
  <2>1. ASSUME NEW o \in Pools, MayStart(o), Contains(visits, o) PROVE Contains(visits', o)
    <3>1. PICK i \in 1 .. Len(visits) : visits[i] = o
      BY <2>1 DEF Contains
    <3>2. i # 1
      BY <1>0, <1>2, <2>1, <3>1
    <3>3. i - 1 \in 1 .. Len(Tail(visits)) /\ Tail(visits)[i - 1] = visits[i]
      BY <1>0, <3>1, <3>2
    <3> QED
      BY <1>2, <3>1, <3>3 DEF Contains
  <2>2. VisitInv'
    BY <1>0, <1>2, <2>1 DEF VigilInv, VisitInv, MayStart, Open, DyingOf, WorkersOf, HasLane
  <2>3. LaneInv'
    BY <1>0, <1>2 DEF VigilInv, LaneInv
  <2> QED
    BY <1>1, <2>2, <2>3 DEF VigilInv
<1>3. CASE MayStart(p) /\ visits' = visits
           /\ \E b \in BOOLEAN : \/ \E w \in Idle(p) : StartPending(p, w, b)
                                 \/ \E w \in New(p) : StartPending(p, w, b) \/ CreateFails(p, w, b)
  <2>0. PICK b \in BOOLEAN, w \in Idle(p) \cup New(p) :
            StartPending(p, w, b) \/ (w \in New(p) /\ CreateFails(p, w, b))
    BY <1>3
  <2> HIDE DEF p
  <2>1. /\ w \in Lanes /\ LaneOf[w] = p /\ slots[w].phase \in {"up", "none"}
        /\ Open(p) /\ DyingOf(p) = {}
    BY <1>3, <2>0 DEF Idle, New, WorkersOf, MayStart
  <2>2. PICK ph \in {"up", "term"} :
            slots' = slots \/ \E r : slots' = [slots EXCEPT ![w] = Slot(ph, r)]
    BY <2>0 DEF StartPending, CreateFails
  <2>3. \/ slots' = slots
        \/ slots'[w].phase = ph /\ slots'[w].settled = FALSE
    BY <2>1, <2>2 DEF Slot, ReadInv, ReadTypeOK
  <2>4. \A v \in Lanes \ {w} : slots'[v] = slots[v]
    BY <2>2 DEF ReadInv, ReadTypeOK
  <2>5. waiting[p] # <<>> /\ Shift(p)
    BY <1>3, <2>0 DEF MayStart, StartPending, CreateFails
  <2>6. \A o \in Pools : waiting[o] = <<>> => waiting'[o] = <<>>
    BY <1>0, <2>5, Shifted
  <2>7. /\ \A o \in Pools : leases[o] <= leases'[o]
        /\ globalActive <= globalActive'
    <3>1. leases \in [Pools -> Nat] /\ globalActive \in Nat
      BY DEF ReadInv, ReadTypeOK
    <3>2. \/ leases' = [leases EXCEPT ![p] = @ + 1] /\ globalActive' = globalActive + 1
          \/ UNCHANGED <<leases, globalActive>>
      BY <2>0 DEF StartPending, CreateFails
    <3> QED
      BY <3>1, <3>2
  <2>8. \A v \in Lanes : slots[v].phase \in Dying => slots'[v].phase \in Dying
    BY <2>1, <2>4 DEF Dying
  <2>9. VisitInv'
    BY <1>0, <1>3, <2>6, <2>7, <2>8, VisitStays DEF VigilInv
  <2>10. LaneInv'
    <3>1. \A v \in Lanes : LaneOf[v] \in Pools
      BY ReadAssumption
    <3> QED
      BY <1>0, <2>1, <2>3, <2>4, <2>6, <3>1 DEF VigilInv, LaneInv, Open
  <2> QED
    BY <1>1, <2>9, <2>10 DEF VigilInv
<1> QED
  BY <1>2, <1>3 DEF DrainStep

(* Neither does what a worker does.                                        *)
LEMMA WorkerVigil ==
    ASSUME ReadInv, ReadTypeOK', VigilInv, NEW w \in Lanes,
           WorkerTimer(w) \/ Reply(w) \/ WorkerFails(w) \/ CloseWorker(w)
    PROVE  VigilInv'
<1>0. /\ \A v \in Lanes : LaneOf[v] \in Pools
      /\ \A v \in Lanes :
            slots[v] \in [phase : Phases, read : Readers \cup {NoRead}, settled : BOOLEAN]
      /\ slots \in [Lanes -> [phase : Phases, read : Readers \cup {NoRead}, settled : BOOLEAN]]
  BY ReadAssumption DEF ReadInv, ReadTypeOK
<1>1. CASE WorkerFails(w) \/ ReadTimeout(w)
  <2>1. Discard({w}) /\ UNCHANGED <<waiting, poolStates, visits>>
    BY <1>1 DEF ReadTimeout, WorkerFails
  <2> QED
    BY <2>1, Discarded, QuietVigil
<1>2. CASE TermTimeoutOf(w)
  <2>1. /\ slots[w].phase = "term" /\ slots' = [slots EXCEPT ![w].phase = "kill"]
        /\ UNCHANGED <<waiting, poolStates, visits>>
    BY <1>2 DEF TermTimeoutOf
  <2>2. \A v \in Lanes : /\ slots'[v].settled = slots[v].settled
                         /\ \/ slots'[v].phase = slots[v].phase
                            \/ slots[v].phase \in {"up", "term"}
                               /\ slots'[v].phase \in {"term", "kill"}
    BY <1>0, <2>1
  <2> QED
    BY <2>1, <2>2, QuietVigil
<1>3. CASE KillTimeoutOf(w)
  <2>1. /\ slots[w].phase = "kill"
        /\ slots' = [slots EXCEPT ![w].phase = "blocked", ![w].settled = TRUE]
        /\ waiting' = [waiting EXCEPT ![LaneOf[w]] = <<>>]
        /\ UNCHANGED <<leases, globalActive, instances, lifecycle, visits>>
    BY <1>3 DEF KillTimeoutOf
  <2>2. slots'[w].phase = "blocked" /\ slots'[w].settled = TRUE
    BY <1>0, <2>1
  <2>3. \A v \in Lanes \ {w} : slots'[v] = slots[v]
    BY <1>0, <2>1
  <2>4. waiting'[LaneOf[w]] = <<>> /\ \A p \in Pools : waiting[p] = <<>> => waiting'[p] = <<>>
    BY <1>0, <2>1 DEF ReadInv, ReadTypeOK
  <2>5. LaneInv'
    BY <1>0, <2>1, <2>2, <2>3, <2>4 DEF VigilInv, LaneInv
  <2>6. \A v \in Lanes : slots[v].phase \in Dying => slots'[v].phase \in Dying
    BY <2>2, <2>3 DEF Dying
  <2>7. (\A p \in Pools : leases[p] <= leases'[p]) /\ globalActive <= globalActive'
    BY <2>1 DEF ReadInv, ReadTypeOK
  <2>8. VisitInv'
    BY <2>1, <2>4, <2>6, <2>7, VisitStays DEF VigilInv
  <2>9. ListInv'
    BY <2>1 DEF VigilInv, ListInv, Open
  <2> QED
    BY <2>5, <2>8, <2>9 DEF VigilInv
<1>4. CASE Reply(w) \/ CloseWorker(w)
  <2>1. PICK ph \in {"up", "none"} :
            /\ slots' = [slots EXCEPT ![w] = Slot(ph, NoRead)]
            /\ ph = "up" => slots[w].phase = "up"
            /\ visits' = instances /\ UNCHANGED <<waiting, instances, lifecycle>>
    BY <1>4 DEF Reply, CloseWorker, DrainAll
  <2>2. slots'[w].phase = ph /\ slots'[w].settled = FALSE
    BY <1>0, <2>1 DEF Slot
  <2>3. \A v \in Lanes \ {w} : slots'[v] = slots[v]
    BY <1>0, <2>1
  <2>4. LaneInv'
    BY <2>1, <2>2, <2>3 DEF VigilInv, LaneInv
  <2>5. VisitInv' /\ ListInv'
    BY <2>1, AllVisited DEF VigilInv, ListInv, Open
  <2> QED
    BY <2>4, <2>5 DEF VigilInv
<1> QED
  BY <1>1, <1>2, <1>3, <1>4 DEF WorkerTimer

(* Neither does a pool that stops or starts again.                         *)
LEMMA LifecycleVigil ==
    ASSUME ReadInv, ReadTypeOK', VigilInv, NEW p \in Pools,
           StopPool(p) \/ StopPoolEnds(p) \/ StartPool(p)
    PROVE  VigilInv'
<1>0. /\ \A v \in Lanes : LaneOf[v] \in Pools
      /\ instances \in Seq(Pools) /\ lifecycle \in [Pools -> {"open", "stopping", "failed", "stopped"}]
      /\ waiting \in [Pools -> Seq(Readers)]
      /\ leases \in [Pools -> Nat] /\ globalActive \in Nat
  BY ReadAssumption DEF ReadInv, ReadTypeOK
<1>1. CASE StopPool(p)
  <2>1. /\ lifecycle' = [lifecycle EXCEPT ![p] = "stopping"] /\ Discard(WorkersOf(p))
        /\ waiting' = [waiting EXCEPT ![p] = <<>>] /\ UNCHANGED <<leases, globalActive, visits>>
    BY <1>1 DEF StopPool
  <2>2. \A o \in Pools : waiting[o] = <<>> => waiting'[o] = <<>>
    BY <1>0, <2>1
  <2>3. lifecycle'[p] = "stopping" /\ \A o \in Pools \ {p} : lifecycle'[o] = lifecycle[o]
    BY <1>0, <2>1
  <2>4. /\ \A w \in Lanes : /\ slots'[w].settled = slots[w].settled
                            /\ \/ slots'[w].phase = slots[w].phase
                               \/ slots[w].phase \in {"up", "term"}
                                  /\ slots'[w].phase \in {"term", "kill"}
        /\ \A w \in Lanes \cap WorkersOf(p) : slots'[w].phase # "up"
    BY <2>1, Discarded
  <2>5. ASSUME NEW w \in Lanes, slots'[w].phase = "up" PROVE lifecycle'[LaneOf[w]] # "stopping"
    <3>1. slots[w].phase = "up" /\ w \notin WorkersOf(p)
      BY <2>4, <2>5
    <3>2. LaneOf[w] # p
      BY <3>1 DEF WorkersOf
    <3> QED
      BY <1>0, <2>3, <3>1, <3>2 DEF VigilInv, LaneInv
  <2>6. LaneInv'
    BY <1>0, <2>2, <2>4, <2>5 DEF VigilInv, LaneInv
  <2>7. VisitInv'
    <3>1. \A w \in Lanes : slots[w].phase \in Dying => slots'[w].phase \in Dying
      BY <2>4 DEF Dying
    <3>2. \A o \in Pools : lifecycle'[o] = "open" => lifecycle[o] = "open"
      BY <2>3
    <3>3. \A o \in Pools : leases[o] <= leases'[o]
      BY <1>0, <2>1
    <3>4. globalActive <= globalActive'
      BY <1>0, <2>1
    <3> QED
      BY <2>1, <2>2, <3>1, <3>2, <3>3, <3>4, VisitStays DEF VigilInv
  <2>8. ListInv'
    <3>1. ASSUME NEW o \in Pools \ {p}, Contains(instances, o) PROVE Contains(instances', o)
      <4>1. CASE instances' = instances
        BY <3>1, <4>1
      <4>2. ASSUME NEW i \in 1 .. Len(instances), instances[i] = p,
                   instances' = RemoveAt(instances, i)
            PROVE  Contains(instances', o)
        BY <1>0, <3>1, <4>2, TakenOut
      <4> QED
        BY <1>1, <4>1, <4>2 DEF StopPool
    <3> QED
      BY <2>3, <3>1 DEF VigilInv, ListInv, Open
  <2> QED
    BY <2>6, <2>7, <2>8 DEF VigilInv
<1>2. CASE StopPoolEnds(p) \/ StartPool(p)
  <2>1. /\ UNCHANGED <<waiting, slots, leases, globalActive, visits>>
        /\ \/ /\ lifecycle' \in {[lifecycle EXCEPT ![p] = "stopped"],
                                 [lifecycle EXCEPT ![p] = "failed"]}
              /\ instances' = instances
           \/ /\ lifecycle' = [lifecycle EXCEPT ![p] = "open"]
              /\ instances' = Append(instances, p) /\ waiting[p] = <<>>
    BY <1>2 DEF StopPoolEnds, StartPool
  <2>2. /\ lifecycle'[p] \in {"stopped", "failed", "open"}
        /\ \A o \in Pools \ {p} : lifecycle'[o] = lifecycle[o]
    BY <1>0, <2>1
  <2>3. LaneInv'
    BY <1>0, <2>1, <2>2 DEF VigilInv, LaneInv
  <2>4. ASSUME NEW o \in Pools, MayStart(o)' PROVE Contains(visits', o)
    <3>1. CASE o = p
      <4>1. lifecycle'[p] = "open" /\ waiting[p] # <<>>
        BY <2>1, <2>4, <3>1 DEF MayStart, Open
      <4> QED
        BY <1>0, <2>1, <4>1
    <3>2. CASE o # p
      <4>1. MayStart(o)
        BY <2>1, <2>2, <2>4, <3>2 DEF MayStart, Open, DyingOf, WorkersOf, HasLane
      <4> QED
        BY <2>1, <4>1 DEF VigilInv, VisitInv
    <3> QED
      BY <3>1, <3>2
  <2>5. \A o : Contains(instances, o) => Contains(Append(instances, p), o)
    <3> SUFFICES ASSUME NEW i \in 1 .. Len(instances)
                 PROVE  \E k \in 1 .. Len(Append(instances, p)) :
                            Append(instances, p)[k] = instances[i]
      BY DEF Contains
    <3>1. i \in 1 .. Len(Append(instances, p))
      BY <1>0
    <3>2. Append(instances, p)[i] = instances[i]
      BY <1>0
    <3> QED
      BY <3>1, <3>2
  <2>6. Contains(Append(instances, p), p)
    <3>1. Len(instances) + 1 \in 1 .. Len(Append(instances, p))
      BY <1>0
    <3>2. Append(instances, p)[Len(instances) + 1] = p
      BY <1>0
    <3> QED
      BY <3>1, <3>2 DEF Contains
  <2>7. ListInv'
    <3>1. ASSUME NEW o \in Pools, lifecycle'[o] = "open" PROVE Contains(instances', o)
      <4>1. CASE instances' = instances
        <5>1. CASE lifecycle'[p] = "open"
          BY <1>0, <2>1, <2>2, <2>5, <2>6, <3>1, <5>1 DEF VigilInv, ListInv, Open
        <5>2. CASE lifecycle'[p] # "open"
          BY <2>2, <3>1, <4>1, <5>2 DEF VigilInv, ListInv, Open
        <5> QED
          BY <5>1, <5>2
      <4>2. CASE instances' = Append(instances, p)
        BY <2>2, <2>5, <2>6, <3>1, <4>2 DEF VigilInv, ListInv, Open
      <4> QED
        BY <2>1, <4>1, <4>2
    <3> QED
      BY <3>1 DEF ListInv, Open
  <2> QED
    BY <2>3, <2>4, <2>7 DEF VigilInv, VisitInv
<1> QED
  BY <1>1, <1>2

(* Nobody waits for nothing.                                               *)
LEMMA VigilInvariant == ReadSpec => [](ReadInv /\ VigilInv)
<1>1. ReadInit => VigilInv
  <2> SUFFICES ASSUME ReadInit PROVE VigilInv
    OBVIOUS
  <2>1. VisitInv
    BY DEF ReadInit, VisitInv, MayStart
  <2>2. ListInv
    BY EveryPoolListed DEF ReadInit, ListInv
  <2>3. LaneInv
    BY DEF ReadInit, LaneInv, Slot
  <2> QED
    BY <2>1, <2>2, <2>3 DEF VigilInv
<1>2. ReadInv /\ ReadInv' /\ VigilInv /\ [ReadNext]_readVars => VigilInv'
  <2> SUFFICES ASSUME ReadInv, ReadTypeOK', VigilInv, [ReadNext]_readVars PROVE VigilInv'
    BY DEF ReadInv
  <2>1. CASE UNCHANGED readVars
    BY <2>1 DEF VigilInv, VisitInv, ListInv, LaneInv, MayStart, Open, DyingOf, WorkersOf, HasLane,
                readVars, poolStates
  <2>2. CASE DrainStep
    BY <2>2, DrainVigil
  <2>3. ASSUME NEW c \in Readers,
               \/ RunRefuses(c) \/ Subscribe(c) \/ \E b \in BOOLEAN : Run(c, b)
               \/ AbortQueuedRead(c) \/ AbortActiveRead(c) \/ Unsubscribe(c)
        PROVE  VigilInv'
    BY <2>3, CallerVigil, RunVigil
  <2>4. ASSUME NEW w \in Lanes, WorkerTimer(w) \/ Reply(w) \/ WorkerFails(w) \/ CloseWorker(w)
        PROVE  VigilInv'
    BY <2>4, WorkerVigil
  <2>5. ASSUME NEW p \in Pools, StopPool(p) \/ StopPoolEnds(p) \/ StartPool(p) PROVE VigilInv'
    BY <2>5, LifecycleVigil
  <2> QED
    BY <2>1, <2>2, <2>3, <2>4, <2>5 DEF ReadNext
<1> QED
  BY <1>1, <1>2, ReadInvariant, PTL DEF ReadSpec

(* A worker of which a timer runs: of its read, or of its termination.      *)
Timed(w) == \/ slots[w].phase \in {"term", "kill"}
            \/ slots[w].phase = "up" /\ slots[w].read # NoRead

(* A caller that waits for a read is waited on: drain has pools to visit, a *)
(* timer runs, or workers that would not close hold all the lanes of the    *)
(* Manager.  No order of drains, aborts, closes and stops loses the wake-up *)
(* of a pool whose lanes another pool had taken.                           *)
THEOREM ReadsNeverSleep ==
    ReadSpec => []((\E c \in Readers : Waits(c)) =>
                       visits # <<>> \/ (\E w \in Lanes : Timed(w)) \/ Exhausted)
<1>1. ASSUME ReadInv, VigilInv, NEW c \in Readers, Waits(c), visits = <<>>,
             \A w \in Lanes : ~Timed(w)
      PROVE  Exhausted
  <2> DEFINE r == reader[c]
             p == PoolOf[c]
  <2>0. /\ p \in Pools /\ r \in Readers /\ r # NoRead /\ PoolOf[r] = p /\ Underway(r)
        /\ \A w \in Lanes : slots[w].phase \in Phases
    BY <1>1, ReadAssumption DEF ReadInv, ReadTypeOK, WaitInv, Waits
  <2> HIDE DEF r, p
  <2>1. \A w \in Lanes : slots[w].read # NoRead => slots[w].phase = "blocked"
    BY <1>1, <2>0 DEF Timed, ReadInv, LeaseInv, Phases, Dying
  <2>2. Contains(waiting[p], r)
    BY <1>1, <2>0, <2>1 DEF Underway, VigilInv, LaneInv
  <2>3. waiting[p] # <<>>
    BY <2>2 DEF Contains
  <2>4. Open(p)
    BY <1>1, <2>0, <2>3 DEF ReadInv, LifeInv
  <2>5. DyingOf(p) = {}
    BY <1>1, <2>3 DEF DyingOf, WorkersOf, Dying, Timed, VigilInv, LaneInv
  <2>6. ~HasLane(p)
    BY <1>1, <2>0, <2>3, <2>4, <2>5 DEF VigilInv, VisitInv, MayStart, Contains
  <2>7. Leased(p) = {}
    BY <1>1, <2>1, <2>3 DEF Leased, VigilInv, LaneInv
  <2>8. leases[p] = 0 /\ MaxConcurrency(p) > 0
    BY <1>1, <2>0, <2>7, FS_EmptySet, ReadAssumption DEF ReadInv, LeaseInv
  <2>9. ~(globalActive < GlobalMax)
    BY <2>6, <2>8 DEF HasLane
  <2>10. globalActive = GlobalMax
    BY <1>1, <2>9, ReadAssumption DEF ReadInv, ReadTypeOK, LeaseInv
  <2>11. AllLeased = {w \in Lanes : slots[w].phase = "blocked" /\ slots[w].read # NoRead}
    BY <2>1 DEF AllLeased
  <2> QED
    BY <1>1, <2>10, <2>11 DEF Exhausted, ReadInv, LeaseInv
<1>2. ReadInv /\ VigilInv => ((\E c \in Readers : Waits(c)) =>
                       visits # <<>> \/ (\E w \in Lanes : Timed(w)) \/ Exhausted)
  BY <1>1
<1> QED
  BY <1>2, VigilInvariant, PTL

(* A stop() that waits has a termination whose timers run, or can end: no   *)
(* worker of a stopping pool is overlooked.                                *)
THEOREM StopsNeverSleep ==
    ReadSpec => [](\A p \in Pools : lifecycle[p] = "stopping" =>
                       TerminationsOver(p) \/ \E w \in WorkersOf(p) : Timed(w))
<1>1. ASSUME ReadInv, VigilInv, NEW p \in Pools, lifecycle[p] = "stopping",
             ~TerminationsOver(p)
      PROVE  \E w \in WorkersOf(p) : Timed(w)
  <2>1. PICK w \in WorkersOf(p) : slots[w].phase # "blocked"
    BY <1>1 DEF TerminationsOver, BlockedOf
  <2>2. w \in Lanes /\ LaneOf[w] = p /\ slots[w].phase \in Phases /\ slots[w].phase # "none"
    BY <1>1, <2>1 DEF WorkersOf, ReadInv, ReadTypeOK
  <2>3. slots[w].phase # "up"
    BY <1>1, <2>2 DEF VigilInv, LaneInv
  <2> QED
    BY <2>1, <2>2, <2>3 DEF Timed, Phases, Dying
<1>2. ReadInv /\ VigilInv => \A p \in Pools : lifecycle[p] = "stopping" =>
                       TerminationsOver(p) \/ \E w \in WorkersOf(p) : Timed(w)
  BY <1>1
<1> QED
  BY <1>2, VigilInvariant, PTL

-----------------------------------------------------------------------------
(* All that guards a resource, together.                                   *)

(* A behaviour of the parts together is one of every part.  So what is       *)
(* proved of each holds when they run together.                             *)
LEMMA ResourcesRunTogether ==
    ResourcesSpec => LockSpec /\ InstanceSpec /\ BoardSpec /\ ReadSpec
<1>1. ResourcesInit => LockInit /\ InstanceInit /\ BoardInit /\ ReadInit
  BY DEF ResourcesInit
<1>2. [ResourcesNext]_resourceVars => [LockNext]_lockVars /\ [InstanceNext]_instanceVars
  BY DEF ResourcesNext, resourceVars
<1>3. [ResourcesNext]_resourceVars => [BoardNext]_boardVars
  BY DEF ResourcesNext, resourceVars
<1>4. [ResourcesNext]_resourceVars => [ReadNext]_readVars
  BY DEF ResourcesNext, resourceVars
<1> QED
  BY <1>1, <1>2, <1>3, <1>4, PTL
     DEF ResourcesSpec, LockSpec, InstanceSpec, BoardSpec, ReadSpec

(* Type correctness of the lock file, the lease, the state file of the board *)
(* and the read workers, together.                                          *)
THEOREM ResourcesTypeCorrect == ResourcesSpec => []ResourcesTypeOK
<1>1. LockTypeOK /\ InstanceTypeOK /\ BoardTypeOK /\ ReadTypeOK
          => ResourcesTypeOK
  BY DEF ResourcesTypeOK
<1> QED
  BY <1>1, ResourcesRunTogether, LockTypeCorrect, InstanceTypeCorrect, BoardTypeCorrect, ReadTypeCorrect, PTL
=============================================================================
