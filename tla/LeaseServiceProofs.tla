------------------------- MODULE LeaseServiceProofs -------------------------
(***************************************************************************)
(* Proofs about LeaseService for any finite set of hosts, any capacities,  *)
(* any set of tokens and any lease lifetime.                               *)
(***************************************************************************)
EXTENDS LeaseService, FiniteSetTheorems, WellFoundedInduction, TLAPS

-----------------------------------------------------------------------------
(* Types *)

LEMMA InitType == Init => TypeOK
  <1>1. IsFiniteSet({}) /\ -1 \in Int
    BY FS_EmptySet
  <1> QED
    BY <1>1, PoolAssumption
    DEF Init, ServiceInit, PoolInit, TypeOK, ServiceTypeOK, PoolTypeOK, Stages

\* Dropping leases keeps the pool's types.
LEMMA DropType ==
  ASSUME PoolTypeOK, NEW D, DropLeases(D)
  PROVE  /\ used' \in [Hosts -> SUBSET Nat]
         /\ DOMAIN leases' \subseteq Tokens
         /\ leases' \in [DOMAIN leases' -> Lease]
         /\ pidPaths' \subseteq Tokens
  BY DEF PoolTypeOK, DropLeases, Restrict

LEMMA QuarantineType ==
  ASSUME PoolTypeOK, NEW A \in SUBSET Hosts, QuarantineHosts(A)
  PROVE  PoolTypeOK'
  <1>1. DropLeases(LeasesOn(A))
    BY DEF QuarantineHosts
  <1>2. orphans' \in [Hosts -> SUBSET Tokens] /\ quarantined' \subseteq Hosts
    BY DEF QuarantineHosts, PoolTypeOK
  <1> QED
    BY <1>1, <1>2, DropType DEF PoolTypeOK

LEMMA NotifyType ==
  ASSUME request \in [Tokens -> Stages], NotifyAll
  PROVE  request' \in [Tokens -> Stages]
  BY DEF NotifyAll, Stages

LEMMA TryAcquireType ==
  ASSUME TypeOK, NEW r \in Tokens, NEW excl \in SUBSET Hosts, TryAcquire(r, excl)
  PROVE  /\ PoolTypeOK'
         /\ request' \in [Tokens -> Stages]
         /\ replied' \in [Hosts -> SUBSET Tokens]
  <1>1. CASE Grant(r, excl)
    <2>1. PICK h \in Candidates(excl) : \E s \in SlotsOf(h) :
                  TakeLease(r, h, s) /\ replied' = [replied EXCEPT ![h] = @ \cup {r}]
      BY <1>1 DEF Grant
    <2>2. PICK s \in SlotsOf(h) : TakeLease(r, h, s)
      BY <2>1
    <2>3. h \in Hosts
      BY DEF Candidates, LiveHosts
    <2>4. s \in Nat
      BY <2>3, PoolAssumption DEF SlotsOf
    <2>5. [host |-> h, slot |-> s, left |-> LeaseTtl] \in Lease
      BY <2>3, <2>4, PoolAssumption DEF Lease, Overdue
    <2>6. PoolTypeOK'
      BY <2>2, <2>3, <2>4, <2>5
      DEF TakeLease, TypeOK, ServiceTypeOK, PoolTypeOK
    <2>7. request' \in [Tokens -> Stages]
      BY <1>1 DEF Grant, TypeOK, ServiceTypeOK, Stages
    <2>8. replied' \in [Hosts -> SUBSET Tokens]
      BY <2>1, <2>3 DEF TypeOK, ServiceTypeOK
    <2> QED
      BY <2>6, <2>7, <2>8
  <1>2. CASE Refuse(r, excl) \/ Park(r, excl)
    BY <1>2 DEF Refuse, Park, poolVars, TypeOK, ServiceTypeOK, PoolTypeOK, Stages
  <1> QED
    BY <1>1, <1>2 DEF TryAcquire

LEMMA NextType == TypeOK /\ [Next]_vars => TypeOK'
  <1> SUFFICES ASSUME TypeOK, [Next]_vars PROVE TypeOK'
    OBVIOUS
  <1> USE DEF TypeOK, ServiceTypeOK
  <1>1. ASSUME NEW r \in Tokens, NEW excl \in SUBSET Hosts, Acquire(r, excl)
        PROVE  TypeOK'
    BY <1>1, TryAcquireType DEF Acquire
  <1>2. ASSUME NEW r \in Tokens, Recheck(r)
        PROVE  TypeOK'
    BY <1>2, TryAcquireType DEF Recheck
  <1>3. ASSUME NEW r \in Tokens, CancelWait(r)
        PROVE  TypeOK'
    BY <1>3 DEF CancelWait, poolVars, PoolTypeOK, Stages
  <1>4. ASSUME NEW t \in Tokens, Release(t)
        PROVE  TypeOK'
    <2>1. DropLeases({t} \cap DOMAIN leases) /\ UNCHANGED <<orphans, quarantined>>
      BY <1>4 DEF Release, PoolRelease
    <2>2. PoolTypeOK'
      BY <2>1, DropType DEF PoolTypeOK
    <2> QED
      BY <1>4, <2>2, NotifyType DEF Release
  <1>5. ASSUME NEW t \in Tokens, RegisterPid(t)
        PROVE  TypeOK'
    BY <1>5 DEF RegisterPid, PoolRegisterPid, svcVars, PoolTypeOK
  <1>6. ASSUME NEW t \in Tokens, Heartbeat(t)
        PROVE  TypeOK'
    <2>1. leases' \in [DOMAIN leases -> Lease] /\ DOMAIN leases' = DOMAIN leases
      BY <1>6, PoolAssumption
      DEF Heartbeat, PoolHeartbeat, PoolTypeOK, Lease, Overdue
    <2> QED
      BY <1>6, <2>1 DEF Heartbeat, PoolHeartbeat, svcVars, PoolTypeOK
  <1>7. ASSUME NEW h \in Hosts, Quarantine(h)
        PROVE  TypeOK'
    BY <1>7, QuarantineType, NotifyType DEF Quarantine
  <1>8. ASSUME NEW h \in Hosts, MarkReconciled(h)
        PROVE  TypeOK'
    BY <1>8, NotifyType DEF MarkReconciled, PoolMarkReconciled, PoolTypeOK
  <1>9. CASE Sweep
    <2>1. ExpiredHosts \in SUBSET Hosts
      BY DEF ExpiredHosts, PoolTypeOK, Lease
    <2> QED
      BY <1>9, <2>1, QuarantineType, NotifyType DEF Sweep, PoolSweep
  <1>10. CASE Tick
    <2>1. leases' \in [DOMAIN leases -> Lease] /\ DOMAIN leases' = DOMAIN leases
      BY <1>10, PoolAssumption DEF Tick, PassTime, PoolTypeOK, Lease, Overdue
    <2> QED
      BY <1>10, <2>1 DEF Tick, PassTime, svcVars, PoolTypeOK
  <1>11. CASE UNCHANGED vars
    BY <1>11 DEF vars, poolVars, svcVars, PoolTypeOK
  <1> QED
    BY <1>1, <1>2, <1>3, <1>4, <1>5, <1>6, <1>7, <1>8, <1>9, <1>10, <1>11
    DEF Next, PoolTypeOK

\* The service keeps its types: the lease actor never stores anything but
\* leases of known hosts under the tokens it issued.
THEOREM TypeCorrect == Spec => []TypeOK
  <1> QED
    BY InitType, NextType, PTL DEF Spec

-----------------------------------------------------------------------------
(* The inductive invariant and how the pool's operations preserve it *)

IInv ==
    /\ TypeOK
    /\ SlotsMatchLeases
    /\ QuarantineIsEmpty
    /\ OrphanCustody
    /\ GrantsKnown
    /\ NoLostWakeup

\* The part of the invariant that is about the pool alone.
PoolInv ==
    /\ PoolTypeOK
    /\ SlotsMatchLeases
    /\ QuarantineIsEmpty

\* Forgetting leases frees exactly their slots: slots are not shared, so no
\* other lease loses the one it holds.
LEMMA DropSlots ==
  ASSUME PoolTypeOK, SlotsMatchLeases, NEW D \in SUBSET DOMAIN leases, DropLeases(D)
  PROVE  SlotsMatchLeases'
  <1>1. /\ DOMAIN leases' = DOMAIN leases \ D
        /\ \A t \in DOMAIN leases' : leases'[t] = leases[t]
    BY DEF DropLeases, Restrict
  <1>2. \A t, u \in DOMAIN leases' :
          leases'[t].host = leases'[u].host /\ leases'[t].slot = leases'[u].slot
            => t = u
    BY <1>1 DEF SlotsMatchLeases
  <1>3. ASSUME NEW h \in Hosts
        PROVE  /\ used'[h] = {leases'[t].slot : t \in LeasesOn({h})'}
               /\ used'[h] \subseteq SlotsOf(h)
    <2>1. used'[h] = used[h] \ {leases[t].slot : t \in D \cap LeasesOn({h})}
      BY DEF DropLeases
    <2>2. /\ used[h] = {leases[t].slot : t \in LeasesOn({h})}
          /\ used[h] \subseteq SlotsOf(h)
      BY DEF SlotsMatchLeases
    <2>3. LeasesOn({h})' = LeasesOn({h}) \ D
      BY <1>1 DEF LeasesOn
    <2>4. ASSUME NEW s \in used'[h]
          PROVE  \E t \in LeasesOn({h})' : s = leases'[t].slot
      BY <1>1, <2>1, <2>2, <2>3, <2>4 DEF LeasesOn
    <2>5. ASSUME NEW t \in LeasesOn({h})'
          PROVE  leases'[t].slot \in used'[h]
      <3>1. t \in LeasesOn({h}) /\ t \notin D /\ leases'[t] = leases[t]
        BY <1>1, <2>3, <2>5 DEF LeasesOn
      <3>2. \A u \in D \cap LeasesOn({h}) : leases[u].slot # leases[t].slot
        BY <3>1 DEF LeasesOn, SlotsMatchLeases
      <3> QED
        BY <2>1, <2>2, <3>1, <3>2
    <2>6. used'[h] = {leases'[t].slot : t \in LeasesOn({h})'}
      BY <2>4, <2>5, Zenon
    <2> QED
      BY <2>1, <2>2, <2>6
  <1> QED
    BY <1>2, <1>3 DEF SlotsMatchLeases, SlotsOf

LEMMA DropPool ==
  ASSUME PoolInv, NEW D \in SUBSET DOMAIN leases, DropLeases(D),
         \A t \in DOMAIN leases \ D : leases[t].host \notin quarantined'
  PROVE  SlotsMatchLeases' /\ QuarantineIsEmpty'
  <1>1. /\ DOMAIN leases' = DOMAIN leases \ D
        /\ \A t \in DOMAIN leases' : leases'[t] = leases[t]
    BY DEF DropLeases, Restrict
  <1> QED
    BY <1>1, DropSlots DEF PoolInv, QuarantineIsEmpty

LEMMA QuarantinePool ==
  ASSUME PoolInv, NEW A \in SUBSET Hosts, QuarantineHosts(A)
  PROVE  PoolInv'
  <1>1. DropLeases(LeasesOn(A)) /\ quarantined' = quarantined \cup A
    BY DEF QuarantineHosts
  <1>2. LeasesOn(A) \in SUBSET DOMAIN leases
    BY DEF LeasesOn
  <1>3. \A t \in DOMAIN leases \ LeasesOn(A) : leases[t].host \notin quarantined'
    BY <1>1 DEF LeasesOn, PoolInv, QuarantineIsEmpty
  <1> QED
    BY <1>1, <1>2, <1>3, DropPool, QuarantineType DEF PoolInv

\* A step that only moves lease deadlines keeps both books in agreement.
LEMMA DeadlinesPool ==
  ASSUME PoolInv, UNCHANGED <<used, quarantined>>,
         DOMAIN leases' = DOMAIN leases,
         \A t \in DOMAIN leases : /\ leases'[t].host = leases[t].host
                                  /\ leases'[t].slot = leases[t].slot
  PROVE  SlotsMatchLeases' /\ QuarantineIsEmpty'
  <1>1. ASSUME NEW h \in Hosts
        PROVE  {leases'[t].slot : t \in LeasesOn({h})'} =
               {leases[t].slot : t \in LeasesOn({h})}
    BY DEF LeasesOn
  <1>2. \A h \in Hosts : /\ used'[h] = {leases'[t].slot : t \in LeasesOn({h})'}
                         /\ used'[h] \subseteq SlotsOf(h)
    BY <1>1 DEF PoolInv, SlotsMatchLeases
  <1>3. \A t, u \in DOMAIN leases' :
          leases'[t].host = leases'[u].host /\ leases'[t].slot = leases'[u].slot
            => t = u
    BY DEF PoolInv, SlotsMatchLeases
  <1>4. SlotsMatchLeases'
    BY <1>2, <1>3 DEF SlotsMatchLeases, SlotsOf
  <1>5. QuarantineIsEmpty'
    BY DEF PoolInv, QuarantineIsEmpty
  <1> QED
    BY <1>4, <1>5

\* Granting a slot that is not in use, on a live host, to a token without a
\* lease.
LEMMA TakePool ==
  ASSUME PoolInv, NEW t \in Tokens, t \notin DOMAIN leases, NEW h \in LiveHosts,
         NEW s \in SlotsOf(h) \ used[h], TakeLease(t, h, s)
  PROVE  SlotsMatchLeases' /\ QuarantineIsEmpty'
  <1> USE DEF PoolInv
  <1>1. /\ DOMAIN leases' = DOMAIN leases \cup {t}
        /\ leases'[t].host = h /\ leases'[t].slot = s
        /\ \A u \in DOMAIN leases : leases'[u] = leases[u]
        /\ quarantined' = quarantined
        /\ used' = [used EXCEPT ![h] = @ \cup {s}]
    BY DEF TakeLease
  <1>2. h \in Hosts /\ h \notin quarantined
    BY DEF LiveHosts
  <1>3. QuarantineIsEmpty'
    BY <1>1, <1>2 DEF QuarantineIsEmpty
  <1>4. \A u \in DOMAIN leases : leases[u].host = h => leases[u].slot # s
    BY <1>2 DEF SlotsMatchLeases, LeasesOn
  <1>5. \A u, v \in DOMAIN leases' :
          leases'[u].host = leases'[v].host /\ leases'[u].slot = leases'[v].slot
            => u = v
    BY <1>1, <1>4 DEF SlotsMatchLeases
  <1>6. ASSUME NEW g \in Hosts
        PROVE  /\ used'[g] = {leases'[u].slot : u \in LeasesOn({g})'}
               /\ used'[g] \subseteq SlotsOf(g)
    <2>1. /\ used[g] = {leases[u].slot : u \in LeasesOn({g})}
          /\ used[g] \subseteq SlotsOf(g)
      BY DEF SlotsMatchLeases
    <2>2. CASE g = h
      <3>1. LeasesOn({g})' = LeasesOn({g}) \cup {t}
        BY <1>1, <2>2 DEF LeasesOn
      <3>2. used'[g] = used[g] \cup {s}
        BY <1>1, <2>2 DEF PoolTypeOK
      <3>3. {leases'[u].slot : u \in LeasesOn({g})'} = used[g] \cup {s}
        BY <1>1, <2>1, <3>1 DEF LeasesOn
      <3> QED
        BY <2>1, <2>2, <3>2, <3>3
    <2>3. CASE g # h
      <3>1. LeasesOn({g})' = LeasesOn({g})
        BY <1>1, <2>3 DEF LeasesOn
      <3>2. used'[g] = used[g]
        BY <1>1, <2>3 DEF PoolTypeOK
      <3> QED
        BY <1>1, <2>1, <3>1, <3>2 DEF LeasesOn
    <2> QED
      BY <2>2, <2>3
  <1> QED
    BY <1>3, <1>5, <1>6 DEF SlotsMatchLeases, SlotsOf

-----------------------------------------------------------------------------
(* Every step of the service preserves the invariant, part by part *)

\* What a grant does, whichever call it answers.
LEMMA GrantEffect ==
  ASSUME NEW r \in Tokens, NEW excl \in SUBSET Hosts, Grant(r, excl)
  PROVE  \E h \in LiveHosts : \E s \in SlotsOf(h) \ used[h] :
            /\ TakeLease(r, h, s)
            /\ replied' = [replied EXCEPT ![h] = @ \cup {r}]
            /\ request' = [request EXCEPT ![r] = "granted"]
  <1>1. PICK h \in Candidates(excl) : \E s \in SlotsOf(h) :
              /\ LowestFreeSlot(h, s)
              /\ TakeLease(r, h, s)
              /\ replied' = [replied EXCEPT ![h] = @ \cup {r}]
    BY DEF Grant
  <1>2. PICK s \in SlotsOf(h) :
              /\ LowestFreeSlot(h, s)
              /\ TakeLease(r, h, s)
              /\ replied' = [replied EXCEPT ![h] = @ \cup {r}]
    BY <1>1
  <1>3. h \in LiveHosts
    BY DEF Candidates
  <1>4. s \in SlotsOf(h) \ used[h]
    BY <1>2 DEF LowestFreeSlot
  <1> QED
    BY <1>2, <1>3, <1>4 DEF Grant

\* A token whose call is still open has no lease and no reconciliation work.
LEMMA OpenCallIsFresh ==
  ASSUME IInv, NEW r \in Tokens, ~Granted(r)
  PROVE  /\ r \notin DOMAIN leases
         /\ \A h \in Hosts : r \notin replied[h] /\ r \notin orphans[h]
  BY DEF IInv, GrantsKnown, OrphanCustody, TypeOK, ServiceTypeOK, PoolTypeOK, Lease

\* The acquire step: open before, its outcome one of three.
LEMMA TryAcquireInv ==
  ASSUME IInv, NEW r \in Tokens, NEW excl \in SUBSET Hosts,
         TryAcquire(r, excl), ~Granted(r)
  PROVE  SlotsMatchLeases' /\ QuarantineIsEmpty' /\ OrphanCustody' /\ GrantsKnown'
  <1> USE DEF IInv, TypeOK, ServiceTypeOK
  <1>1. CASE Grant(r, excl)
    <2>1. PICK h \in LiveHosts : \E s \in SlotsOf(h) \ used[h] :
            /\ TakeLease(r, h, s)
            /\ replied' = [replied EXCEPT ![h] = @ \cup {r}]
            /\ request' = [request EXCEPT ![r] = "granted"]
      BY <1>1, GrantEffect
    <2>2. PICK s \in SlotsOf(h) \ used[h] : TakeLease(r, h, s)
      BY <2>1
    <2>3. SlotsMatchLeases' /\ QuarantineIsEmpty'
      BY <2>2, TakePool, OpenCallIsFresh DEF PoolInv
    <2>4. /\ DOMAIN leases' = DOMAIN leases \cup {r}
          /\ leases'[r].host = h
          /\ \A t \in DOMAIN leases : t # r => leases'[t] = leases[t]
          /\ UNCHANGED <<pidPaths, orphans, quarantined>>
      BY <2>2 DEF TakeLease
    <2>5. h \in Hosts /\ replied' = [replied EXCEPT ![h] = @ \cup {r}]
      BY <2>1 DEF LiveHosts
    <2>6. OrphanCustody'
      BY <2>4, <2>5, OpenCallIsFresh DEF OrphanCustody
    <2>7. GrantsKnown'
      <3>1. \A t \in DOMAIN leases' : t \in replied'[leases'[t].host]
        BY <2>4, <2>5, OpenCallIsFresh DEF GrantsKnown, PoolTypeOK, Lease
      <3>2. \A g \in Hosts : \A t \in replied'[g] : Granted(t)'
        BY <2>1, <2>5 DEF GrantsKnown, Granted
      <3> QED
        BY <3>1, <3>2 DEF GrantsKnown
    <2> QED
      BY <2>3, <2>6, <2>7
  <1>2. CASE Refuse(r, excl) \/ Park(r, excl)
    <2>1. UNCHANGED <<used, leases, pidPaths, orphans, quarantined, replied>>
      BY <1>2 DEF Refuse, Park, poolVars
    <2>2. \A t \in Tokens : Granted(t) => Granted(t)'
      BY <1>2 DEF Refuse, Park, Granted
    <2>3. SlotsMatchLeases' /\ QuarantineIsEmpty'
      BY <2>1, DeadlinesPool DEF PoolInv
    <2>4. OrphanCustody'
      BY <2>1 DEF OrphanCustody
    <2>5. GrantsKnown'
      BY <2>1, <2>2 DEF GrantsKnown
    <2> QED
      BY <2>3, <2>4, <2>5
  <1> QED
    BY <1>1, <1>2 DEF TryAcquire

\* Waking the waiters settles no call and takes back no grant.
LEMMA NotifyKeepsGrants ==
  ASSUME request \in [Tokens -> Stages], NotifyAll
  PROVE  /\ \A t \in Tokens : Granted(t) <=> Granted(t)'
         /\ \A t \in Tokens : request'[t] # "parked"
  BY DEF NotifyAll, Granted, Stages

\* Dropping leases, with the paths of those in A's hosts moved to orphans.
LEMMA DropCustody ==
  ASSUME IInv, NEW D \in SUBSET DOMAIN leases, DropLeases(D),
         UNCHANGED replied,
         \A t \in Tokens : Granted(t) => Granted(t)',
         \A h \in Hosts : orphans'[h] \subseteq orphans[h] \cup (D \cap LeasesOn({h})),
         \A h \in Hosts : orphans'[h] # {} => h \in quarantined'
  PROVE  OrphanCustody' /\ GrantsKnown'
  <1> USE DEF IInv, TypeOK, ServiceTypeOK
  <1>1. /\ DOMAIN leases' = DOMAIN leases \ D
        /\ \A t \in DOMAIN leases' : leases'[t] = leases[t]
        /\ pidPaths' = pidPaths \ D
    BY DEF DropLeases, Restrict
  <1>2. \A h \in Hosts : LeasesOn({h}) \subseteq replied[h]
    BY DEF GrantsKnown, LeasesOn
  <1>3. OrphanCustody'
    BY <1>1, <1>2 DEF OrphanCustody
  <1>4. GrantsKnown'
    BY <1>1 DEF GrantsKnown
  <1> QED
    BY <1>3, <1>4

LEMMA QuarantineCustody ==
  ASSUME IInv, NEW A \in SUBSET Hosts, QuarantineHosts(A), UNCHANGED replied,
         \A t \in Tokens : Granted(t) => Granted(t)'
  PROVE  SlotsMatchLeases' /\ QuarantineIsEmpty' /\ OrphanCustody' /\ GrantsKnown'
  <1>1. SlotsMatchLeases' /\ QuarantineIsEmpty'
    BY QuarantinePool DEF IInv, PoolInv, TypeOK, ServiceTypeOK
  <1>2. LeasesOn(A) \in SUBSET DOMAIN leases
    BY DEF LeasesOn
  <1>3. DropLeases(LeasesOn(A)) /\ quarantined' = quarantined \cup A
    BY DEF QuarantineHosts
  <1>4. \A h \in Hosts : orphans'[h] \subseteq orphans[h] \cup (LeasesOn(A) \cap LeasesOn({h}))
    BY DEF QuarantineHosts, LeasesOn
  <1>5. \A h \in Hosts : orphans'[h] # {} => h \in quarantined'
    BY <1>3 DEF QuarantineHosts, IInv, OrphanCustody
  <1>6. OrphanCustody' /\ GrantsKnown'
    BY <1>2, <1>3, <1>4, <1>5, DropCustody
  <1> QED
    BY <1>1, <1>6

LEMMA UsedFinite ==
  ASSUME PoolTypeOK, SlotsMatchLeases, NEW h \in Hosts
  PROVE  IsFiniteSet(used[h]) /\ Cardinality(used[h]) \in Nat
  <1>1. Slots[h] - 1 \in Int
    BY PoolAssumption
  <1>2. IsFiniteSet(SlotsOf(h))
    BY <1>1, FS_Interval DEF SlotsOf
  <1> QED
    BY <1>2, FS_Subset, FS_CardinalityType DEF SlotsMatchLeases

\* Marking more slots of a host as used never adds a candidate.
LEMMA FewerSlotsFewerCandidates ==
  ASSUME PoolTypeOK, SlotsMatchLeases, NEW excl \in SUBSET Hosts,
         quarantined' = quarantined,
         NEW h \in Hosts, NEW s \in SlotsOf(h),
         used' = [used EXCEPT ![h] = @ \cup {s}],
         Candidates(excl) = {}
  PROVE  Candidates(excl)' = {}
  <1>1. LiveHosts' = LiveHosts
    BY DEF LiveHosts
  <1>2. \A g \in Hosts : FreeSlotCount(g)' <= FreeSlotCount(g)
    <2> SUFFICES ASSUME NEW g \in Hosts
                 PROVE  FreeSlotCount(g)' <= FreeSlotCount(g)
      OBVIOUS
    <2>1. IsFiniteSet(used[g]) /\ Cardinality(used[g]) \in Nat
      BY UsedFinite
    <2>2. CASE g # h
      <3>1. used'[g] = used[g]
        BY <2>2 DEF PoolTypeOK
      <3> QED
        BY <2>1, <3>1, PoolAssumption DEF FreeSlotCount
    <2>3. CASE g = h
      <3>1. used'[g] = used[g] \cup {s}
        BY <2>3 DEF PoolTypeOK
      <3>2. Cardinality(used[g] \cup {s}) =
              IF s \in used[g] THEN Cardinality(used[g]) ELSE Cardinality(used[g]) + 1
        BY <2>1, FS_AddElement
      <3>3. Cardinality(used'[g]) \in Nat /\ Cardinality(used[g]) <= Cardinality(used'[g])
        BY <2>1, <3>1, <3>2
      <3>4. Slots[g] \in Int
        BY PoolAssumption
      <3> QED
        BY <2>1, <3>3, <3>4 DEF FreeSlotCount
    <2> QED
      BY <2>2, <2>3
  <1>3. \A g \in Hosts : FreeSlotCount(g) \in Int /\ FreeSlotCount(g)' \in Int
    <2> SUFFICES ASSUME NEW g \in Hosts
                 PROVE  FreeSlotCount(g) \in Int /\ FreeSlotCount(g)' \in Int
      OBVIOUS
    <2>1. IsFiniteSet(used'[g])
      BY UsedFinite, FS_AddElement DEF PoolTypeOK
    <2> QED
      BY <2>1, UsedFinite, FS_CardinalityType, PoolAssumption DEF FreeSlotCount
  <1> QED
    BY <1>1, <1>2, <1>3 DEF Candidates, LiveHosts

\* A step that leaves capacity and health alone, or takes capacity away,
\* leaves the sleepers with nothing to miss.
LEMMA SleepersUndisturbed ==
  ASSUME NoLostWakeup, UNCHANGED <<used, quarantined>>,
         \A r \in Tokens : request'[r] = "parked" =>
             request[r] = "parked" /\ excluded'[r] = excluded[r]
  PROVE  NoLostWakeup'
  <1>1. \A excl : Candidates(excl)' = Candidates(excl)
    BY DEF Candidates, LiveHosts, FreeSlotCount
  <1>2. LiveHosts' = LiveHosts
    BY DEF LiveHosts
  <1> QED
    BY <1>1, <1>2 DEF NoLostWakeup

LEMMA TryAcquireWakeup ==
  ASSUME IInv, NEW r \in Tokens, NEW excl \in SUBSET Hosts,
         TryAcquire(r, excl), ~Granted(r),
         excluded' = [excluded EXCEPT ![r] = excl]
  PROVE  NoLostWakeup'
  <1> USE DEF IInv, TypeOK, ServiceTypeOK
  <1>1. CASE Grant(r, excl)
    <2>1. PICK h \in LiveHosts : \E s \in SlotsOf(h) \ used[h] :
            /\ TakeLease(r, h, s)
            /\ request' = [request EXCEPT ![r] = "granted"]
      BY <1>1, GrantEffect
    <2>2. PICK s \in SlotsOf(h) \ used[h] :
            /\ TakeLease(r, h, s)
            /\ request' = [request EXCEPT ![r] = "granted"]
      BY <2>1
    <2>3. h \in Hosts /\ quarantined' = quarantined /\ LiveHosts' = LiveHosts
      BY <2>2 DEF LiveHosts, TakeLease
    <2>4. used' = [used EXCEPT ![h] = @ \cup {s}]
      BY <2>2 DEF TakeLease
    <2>5. \A e \in SUBSET Hosts : Candidates(e) = {} =>
             {g \in (IF LiveHosts' \ e # {} THEN LiveHosts' \ e ELSE LiveHosts') :
                  FreeSlotCount(g)' > 0} = {}
      <3>1. ASSUME NEW e \in SUBSET Hosts, Candidates(e) = {}
            PROVE  Candidates(e)' = {}
        BY <2>3, <2>4, <3>1, FewerSlotsFewerCandidates
      <3> QED
        BY <3>1 DEF Candidates
    <2>6. ASSUME NEW q \in Tokens, request'[q] = "parked"
          PROVE  (Candidates(excluded[q]) = {} /\ LiveHosts # {})'
      <3>1. q # r /\ request[q] = "parked" /\ excluded'[q] = excluded[q]
        BY <2>2, <2>6
      <3>2. Candidates(excluded[q]) = {} /\ LiveHosts # {}
        BY <3>1 DEF NoLostWakeup
      <3> QED
        BY <2>3, <2>5, <3>1, <3>2 DEF Candidates
    <2> QED
      BY <2>6 DEF NoLostWakeup
  <1>2. CASE Refuse(r, excl)
    <2>1. UNCHANGED <<used, quarantined>>
      BY <1>2 DEF Refuse, poolVars
    <2>2. \A q \in Tokens : request'[q] = "parked" =>
             request[q] = "parked" /\ excluded'[q] = excluded[q]
      BY <1>2 DEF Refuse
    <2> QED
      BY <2>1, <2>2, SleepersUndisturbed
  <1>3. CASE Park(r, excl)
    <2>1. UNCHANGED <<used, quarantined>>
      BY <1>3 DEF Park, poolVars
    <2>2. \A e \in SUBSET Hosts : Candidates(e)' = Candidates(e)
      BY <2>1 DEF Candidates, LiveHosts, FreeSlotCount
    <2>3. ASSUME NEW q \in Tokens, request'[q] = "parked"
          PROVE  Candidates(excluded'[q]) = {} /\ LiveHosts # {}
      BY <1>3, <2>3 DEF Park, NoLostWakeup
    <2> QED
      BY <2>1, <2>3 DEF NoLostWakeup, Candidates, LiveHosts, FreeSlotCount
  <1> QED
    BY <1>1, <1>2, <1>3 DEF TryAcquire

-----------------------------------------------------------------------------
(* The invariant *)

LEMMA InitInv == Init => IInv
  <1> SUFFICES ASSUME Init PROVE IInv
    OBVIOUS
  <1>1. TypeOK
    BY InitType
  <1>2. DOMAIN leases = {}
    BY DEF Init, ServiceInit, PoolInit
  <1>3. SlotsMatchLeases
    BY <1>2 DEF Init, ServiceInit, PoolInit, SlotsMatchLeases, LeasesOn
  <1>4. QuarantineIsEmpty /\ OrphanCustody /\ GrantsKnown
    BY <1>2 DEF Init, ServiceInit, PoolInit, QuarantineIsEmpty, OrphanCustody, GrantsKnown
  <1>5. NoLostWakeup
    BY DEF Init, ServiceInit, NoLostWakeup
  <1> QED
    BY <1>1, <1>3, <1>4, <1>5 DEF IInv

\* A step that touches nothing but lease deadlines.
LEMMA DeadlinesKeep ==
  ASSUME IInv,
         UNCHANGED <<used, pidPaths, orphans, quarantined, replied, request, excluded>>,
         DOMAIN leases' = DOMAIN leases,
         \A t \in DOMAIN leases : /\ leases'[t].host = leases[t].host
                                  /\ leases'[t].slot = leases[t].slot
  PROVE  /\ SlotsMatchLeases' /\ QuarantineIsEmpty'
         /\ OrphanCustody' /\ GrantsKnown' /\ NoLostWakeup'
  <1>1. SlotsMatchLeases' /\ QuarantineIsEmpty'
    BY DeadlinesPool DEF PoolInv, IInv, TypeOK, ServiceTypeOK
  <1>2. OrphanCustody'
    BY DEF OrphanCustody, IInv
  <1>3. GrantsKnown'
    BY DEF GrantsKnown, Granted, IInv
  <1>4. NoLostWakeup'
    BY SleepersUndisturbed DEF IInv
  <1> QED
    BY <1>1, <1>2, <1>3, <1>4

LEMMA NextInv == IInv /\ [Next]_vars => IInv'
  <1> SUFFICES ASSUME IInv, [Next]_vars PROVE IInv'
    OBVIOUS
  <1> DEFINE Rest == /\ SlotsMatchLeases /\ QuarantineIsEmpty
                     /\ OrphanCustody /\ GrantsKnown /\ NoLostWakeup
  <1>0. TypeOK'
    BY NextType DEF IInv
  <1> USE DEF IInv, TypeOK, ServiceTypeOK
  <1>1. ASSUME NEW r \in Tokens, NEW excl \in SUBSET Hosts, Acquire(r, excl)
        PROVE  Rest'
    <2>1. TryAcquire(r, excl) /\ ~Granted(r) /\ excluded' = [excluded EXCEPT ![r] = excl]
      BY <1>1 DEF Acquire, Granted
    <2> QED
      BY <2>1, TryAcquireInv, TryAcquireWakeup
  <1>2. ASSUME NEW r \in Tokens, Recheck(r)
        PROVE  Rest'
    <2>1. TryAcquire(r, excluded[r]) /\ ~Granted(r) /\ excluded[r] \in SUBSET Hosts
      BY <1>2 DEF Recheck, Granted
    <2>2. excluded' = [excluded EXCEPT ![r] = excluded[r]]
      BY <1>2 DEF Recheck
    <2> QED
      BY <2>1, <2>2, TryAcquireInv, TryAcquireWakeup
  <1>3. ASSUME NEW r \in Tokens, CancelWait(r)
        PROVE  Rest'
    <2>1. UNCHANGED <<used, leases, pidPaths, orphans, quarantined, replied, excluded>>
      BY <1>3 DEF CancelWait, poolVars
    <2>2. /\ \A t \in Tokens : Granted(t) => Granted(t)'
          /\ \A q \in Tokens : request'[q] = "parked" => request[q] = "parked"
      BY <1>3 DEF CancelWait, Waiting, Granted
    <2>3. SlotsMatchLeases' /\ QuarantineIsEmpty'
      BY <2>1, DeadlinesPool DEF PoolInv
    <2>4. OrphanCustody' /\ GrantsKnown'
      BY <2>1, <2>2 DEF OrphanCustody, GrantsKnown
    <2>5. NoLostWakeup'
      BY <2>1, <2>2, SleepersUndisturbed
    <2> QED
      BY <2>3, <2>4, <2>5
  <1>4. ASSUME NEW t \in Tokens, Release(t)
        PROVE  Rest'
    <2>1. /\ DropLeases({t} \cap DOMAIN leases)
          /\ UNCHANGED <<orphans, quarantined, replied>>
          /\ NotifyAll
      BY <1>4 DEF Release, PoolRelease
    <2>2. SlotsMatchLeases' /\ QuarantineIsEmpty'
      BY <2>1, DropPool DEF PoolInv, QuarantineIsEmpty
    <2>3. OrphanCustody' /\ GrantsKnown'
      BY <2>1, NotifyKeepsGrants, DropCustody DEF OrphanCustody
    <2>4. NoLostWakeup'
      BY <2>1, NotifyKeepsGrants DEF NoLostWakeup
    <2> QED
      BY <2>2, <2>3, <2>4
  <1>5. ASSUME NEW t \in Tokens, RegisterPid(t)
        PROVE  Rest'
    <2>1. /\ pidPaths' = pidPaths \cup ({t} \cap DOMAIN leases)
          /\ UNCHANGED <<used, leases, orphans, quarantined, replied, request, excluded>>
      BY <1>5 DEF RegisterPid, PoolRegisterPid, svcVars
    <2>2. SlotsMatchLeases' /\ QuarantineIsEmpty'
      BY <2>1, DeadlinesPool DEF PoolInv
    <2>3. OrphanCustody' /\ GrantsKnown'
      BY <2>1 DEF OrphanCustody, GrantsKnown, Granted
    <2>4. NoLostWakeup'
      BY <2>1, SleepersUndisturbed
    <2> QED
      BY <2>2, <2>3, <2>4
  <1>6. ASSUME NEW t \in Tokens, Heartbeat(t)
        PROVE  Rest'
    <2>1. /\ UNCHANGED <<used, pidPaths, orphans, quarantined, replied, request, excluded>>
          /\ DOMAIN leases' = DOMAIN leases
          /\ \A u \in DOMAIN leases : /\ leases'[u].host = leases[u].host
                                      /\ leases'[u].slot = leases[u].slot
      BY <1>6 DEF Heartbeat, PoolHeartbeat, svcVars, PoolTypeOK, Lease
    <2> QED
      BY <2>1, DeadlinesKeep
  <1>7. ASSUME NEW h \in Hosts, Quarantine(h)
        PROVE  Rest'
    <2>1. QuarantineHosts({h}) /\ NotifyAll /\ UNCHANGED <<excluded, replied>>
      BY <1>7 DEF Quarantine
    <2>2. NoLostWakeup'
      BY <2>1, NotifyKeepsGrants DEF NoLostWakeup
    <2> QED
      BY <2>1, <2>2, NotifyKeepsGrants, QuarantineCustody
  <1>8. ASSUME NEW h \in Hosts, MarkReconciled(h)
        PROVE  Rest'
    <2>1. /\ orphans' = [orphans EXCEPT ![h] = {}]
          /\ quarantined' = quarantined \ {h}
          /\ UNCHANGED <<used, leases, pidPaths, excluded, replied>>
          /\ NotifyAll
      BY <1>8 DEF MarkReconciled, PoolMarkReconciled
    <2>2. SlotsMatchLeases'
      <3>1. \A g \in Hosts : {leases'[u].slot : u \in LeasesOn({g})'} =
                             {leases[u].slot : u \in LeasesOn({g})}
        BY <2>1 DEF LeasesOn
      <3>2. \A g \in Hosts : /\ used'[g] = {leases'[u].slot : u \in LeasesOn({g})'}
                             /\ used'[g] \subseteq SlotsOf(g)
        BY <2>1, <3>1 DEF SlotsMatchLeases
      <3> QED
        BY <2>1, <3>2 DEF SlotsMatchLeases, SlotsOf
    <2>3. QuarantineIsEmpty'
      BY <2>1 DEF QuarantineIsEmpty
    <2>4. OrphanCustody'
      BY <2>1 DEF OrphanCustody, PoolTypeOK
    <2>5. GrantsKnown'
      BY <2>1, NotifyKeepsGrants DEF GrantsKnown
    <2>6. NoLostWakeup'
      BY <2>1, NotifyKeepsGrants DEF NoLostWakeup
    <2> QED
      BY <2>2, <2>3, <2>4, <2>5, <2>6
  <1>9. ASSUME Sweep PROVE Rest'
    <2>1. QuarantineHosts(ExpiredHosts) /\ UNCHANGED <<excluded, replied>>
      BY <1>9 DEF Sweep, PoolSweep
    <2>2. ExpiredHosts \in SUBSET Hosts
      BY DEF ExpiredHosts, PoolTypeOK, Lease
    <2>3. \A t \in Tokens : Granted(t) => Granted(t)'
      BY <1>9, NotifyKeepsGrants DEF Sweep, Granted
    <2>4. NoLostWakeup'
      <3>1. CASE ExpiredHosts # {}
        BY <1>9, <3>1, NotifyKeepsGrants DEF Sweep, NoLostWakeup
      <3>2. CASE ExpiredHosts = {}
        <4>1. used' = used /\ quarantined' = quarantined
          BY <2>1, <3>2 DEF QuarantineHosts, DropLeases, LeasesOn, PoolTypeOK
        <4>2. request' = request
          BY <1>9, <3>2 DEF Sweep
        <4> QED
          BY <2>1, <4>1, <4>2, SleepersUndisturbed
      <3> QED
        BY <3>1, <3>2
    <2> QED
      BY <2>1, <2>2, <2>3, <2>4, QuarantineCustody
  <1>10. ASSUME Tick PROVE Rest'
    <2>1. /\ UNCHANGED <<used, pidPaths, orphans, quarantined, replied, request, excluded>>
          /\ DOMAIN leases' = DOMAIN leases
          /\ \A u \in DOMAIN leases : /\ leases'[u].host = leases[u].host
                                      /\ leases'[u].slot = leases[u].slot
      BY <1>10 DEF Tick, PassTime, svcVars, PoolTypeOK, Lease
    <2> QED
      BY <2>1, DeadlinesKeep
  <1>11. ASSUME UNCHANGED vars PROVE Rest'
    BY <1>11, DeadlinesKeep DEF vars, poolVars, svcVars
  <1>12. Rest'
    BY <1>1, <1>2, <1>3, <1>4, <1>5, <1>6, <1>7, <1>8, <1>9, <1>10, <1>11
    DEF Next, PoolTypeOK
  <1> QED
    BY <1>0, <1>12

LEMMA Invariant == Spec => []IInv
  BY InitInv, NextInv, PTL DEF Spec

\* No two live leases share a slot, and the pool's two books always agree: no
\* interleaving of acquire, release, sweep and quarantine, by callers with live
\* or stale tokens, double-books a slot or loses one.
THEOREM SlotSafety == Spec => []SlotsMatchLeases
  <1>1. IInv => SlotsMatchLeases
    BY DEF IInv
  <1> QED
    BY <1>1, Invariant, PTL

\* Quarantine leaves no lease behind, and acquire grants none on a quarantined
\* host before it is readmitted.
THEOREM QuarantineSafety == Spec => []QuarantineIsEmpty
  <1>1. IInv => QuarantineIsEmpty
    BY DEF IInv
  <1> QED
    BY <1>1, Invariant, PTL

\* A recorded pid.json path has one keeper: its live lease, or the quarantine of
\* the host that lease was on.
THEOREM CustodySafety == Spec => []OrphanCustody
  <1>1. IInv => OrphanCustody
    BY DEF IInv
  <1> QED
    BY <1>1, Invariant, PTL

\* No caller of acquire sleeps through a change that would let it proceed, for
\* any number of callers and hosts.
THEOREM WakeupSafety == Spec => []NoLostWakeup
  <1>1. IInv => NoLostWakeup
    BY DEF IInv
  <1> QED
    BY <1>1, Invariant, PTL

-----------------------------------------------------------------------------
(* Action properties *)

LEMMA QuarantineWork ==
  ASSUME IInv, NEW A \in SUBSET Hosts, QuarantineHosts(A),
         NEW h \in quarantined
  PROVE  orphans'[h] = orphans[h]
  <1>1. h \in Hosts /\ LeasesOn({h}) = {}
    BY DEF IInv, QuarantineIsEmpty, LeasesOn, TypeOK, ServiceTypeOK, PoolTypeOK
  <1> QED
    BY <1>1 DEF QuarantineHosts

LEMMA TryAcquireWork ==
  ASSUME NEW r \in Tokens, NEW excl \in SUBSET Hosts, TryAcquire(r, excl)
  PROVE  orphans' = orphans
  <1>1. CASE Grant(r, excl)
    BY <1>1, GrantEffect DEF TakeLease
  <1>2. CASE Refuse(r, excl) \/ Park(r, excl)
    BY <1>2 DEF Refuse, Park, poolVars
  <1> QED
    BY <1>1, <1>2 DEF TryAcquire

\* The reconciliation work of a host that stays in quarantine does not change.
LEMMA WorkKept ==
  ASSUME IInv, [Next]_vars, NEW h \in quarantined \cap quarantined'
  PROVE  orphans'[h] = orphans[h]
  <1> USE DEF IInv, TypeOK, ServiceTypeOK, PoolTypeOK
  <1>0. h \in Hosts
    OBVIOUS
  <1>1. ASSUME NEW r \in Tokens, NEW excl \in SUBSET Hosts, Acquire(r, excl)
        PROVE  orphans'[h] = orphans[h]
    BY <1>1, TryAcquireWork DEF Acquire
  <1>2. ASSUME NEW r \in Tokens, Recheck(r)
        PROVE  orphans'[h] = orphans[h]
    BY <1>2, TryAcquireWork DEF Recheck
  <1>3. ASSUME NEW t \in Tokens,
               CancelWait(t) \/ Release(t) \/ RegisterPid(t) \/ Heartbeat(t)
        PROVE  orphans'[h] = orphans[h]
    BY <1>3 DEF CancelWait, Release, PoolRelease, RegisterPid, PoolRegisterPid,
                Heartbeat, PoolHeartbeat, poolVars
  <1>4. ASSUME NEW g \in Hosts, Quarantine(g)
        PROVE  orphans'[h] = orphans[h]
    BY <1>4, QuarantineWork DEF Quarantine
  <1>5. ASSUME NEW g \in Hosts, MarkReconciled(g)
        PROVE  orphans'[h] = orphans[h]
    BY <1>0, <1>5 DEF MarkReconciled, PoolMarkReconciled
  <1>6. ASSUME Sweep
        PROVE  orphans'[h] = orphans[h]
    <2>1. ExpiredHosts \in SUBSET Hosts
      BY DEF ExpiredHosts, Lease
    <2> QED
      BY <1>6, <2>1, QuarantineWork DEF Sweep, PoolSweep
  <1>7. ASSUME Tick \/ UNCHANGED vars
        PROVE  orphans'[h] = orphans[h]
    BY <1>7 DEF Tick, PassTime, vars, poolVars
  <1> QED
    BY <1>1, <1>2, <1>3, <1>4, <1>5, <1>6, <1>7 DEF Next

\* The reconciliation work of a host is fixed for as long as it stays in
\* quarantine, so a sweeper that reconciled its snapshot reconciled everything.
THEOREM WorkFixed == Spec => WorkFixedInQuarantine
  <1>1. IInv /\ [Next]_vars =>
          [\A h \in quarantined \cap quarantined' : orphans'[h] = orphans[h]]_vars
    BY WorkKept
  <1> QED
    BY <1>1, Invariant, PTL DEF Spec, WorkFixedInQuarantine

-----------------------------------------------------------------------------
(* A call always decides *)

\* A nonempty set of natural numbers has a least element.
LEMMA NatMin ==
  ASSUME NEW S \in SUBSET Nat, S # {}
  PROVE  \E m \in S : \A k \in S : m <= k
  <1>1. IsWellFoundedOn(OpToRel(<,Nat), Nat)
    BY NatLessThanWellFounded
  <1>2. PICK x \in S : \A y \in S : ~ (<<y, x>> \in OpToRel(<,Nat))
    BY <1>1, WFMin
  <1>3. \A y \in S : <<y, x>> \in OpToRel(<,Nat) <=> y < x
    BY DEF OpToRel
  <1>4. ASSUME NEW k \in S PROVE x <= k
    <2>1. ~ (<<k, x>> \in OpToRel(<,Nat))
      BY <1>2, Zenon
    <2>2. <<k, x>> \in OpToRel(<,Nat) <=> k < x
      BY <1>3, Zenon
    <2>3. ~ (k < x)
      BY <2>1, <2>2, Zenon
    <2>4. k \in Nat /\ x \in Nat
      OBVIOUS
    <2> QED
      BY <2>3, <2>4
  <1> QED
    BY <1>4

\* A strict order has an element with nothing before it in every nonempty
\* finite set: one with the fewest predecessors there.
LEMMA FiniteFirst ==
  ASSUME NEW C, IsFiniteSet(C), C # {}, NEW R,
         \A g \in C : <<g, g>> \notin R,
         \A f, g, h \in C : <<f, g>> \in R /\ <<g, h>> \in R => <<f, h>> \in R
  PROVE  \E h \in C : \A g \in C : <<g, h>> \notin R
  <1> DEFINE Before(h) == {g \in C : <<g, h>> \in R}
  <1> DEFINE Sizes == {Cardinality(Before(h)) : h \in C}
  <1>1. \A h \in C : IsFiniteSet(Before(h)) /\ Cardinality(Before(h)) \in Nat
    BY FS_Subset, FS_CardinalityType
  <1>2. Sizes \in SUBSET Nat /\ Sizes # {}
    <2> HIDE DEF Before
    <2> QED
      BY <1>1
  <1>3. PICK m \in Sizes : \A k \in Sizes : m <= k
    <2> HIDE DEF Sizes
    <2> QED
      BY <1>2, NatMin
  <1>4. PICK h \in C : m = Cardinality(Before(h))
    OBVIOUS
  <1>5. ASSUME NEW g \in C, <<g, h>> \in R PROVE FALSE
    <2>1. Before(g) \subseteq Before(h) \ {g}
      BY <1>5
    <2>2. g \in Before(h)
      BY <1>5
    <2>3. /\ IsFiniteSet(Before(h) \ {g})
          /\ Cardinality(Before(h) \ {g}) = Cardinality(Before(h)) - 1
      BY <1>1, <2>2, FS_RemoveElement
    <2> HIDE DEF Before
    <2>4. Cardinality(Before(g)) <= Cardinality(Before(h) \ {g})
      BY <2>1, <2>3, FS_Subset
    <2>5. m <= Cardinality(Before(g))
      BY <1>3
    <2> QED
      BY <1>1, <1>4, <2>3, <2>4, <2>5
  <1> QED
    BY <1>5

\* The max() and the next() of acquire always find something: among the
\* candidates there is one with the most free slots and, of those, the first
\* label, and it has a lowest free slot. So every turn of a call ends in a
\* grant, in a refusal or in a wait.
AcquireDecides ==
    \A excl \in SUBSET Hosts : Candidates(excl) # {} =>
        \E h \in Candidates(excl) : /\ BestHost(h, Candidates(excl))
                                    /\ \E s \in SlotsOf(h) : LowestFreeSlot(h, s)

LEMMA BestExists ==
  ASSUME TypeOK, SlotsMatchLeases, NEW C \in SUBSET Hosts, C # {}
  PROVE  \E h \in C : BestHost(h, C)
  <1> DEFINE R == {p \in C \X C :
                     \/ FreeSlotCount(p[2]) < FreeSlotCount(p[1])
                     \/ FreeSlotCount(p[1]) = FreeSlotCount(p[2]) /\ p[1] < p[2]}
  <1>1. IsFiniteSet(C)
    BY PoolAssumption, FS_Subset
  <1>2. \A h \in C : FreeSlotCount(h) \in Int /\ h \in Nat
    BY UsedFinite, PoolAssumption DEF FreeSlotCount, TypeOK, ServiceTypeOK
  <1> HIDE DEF FreeSlotCount
  <1>3. \A g, h \in C : <<g, h>> \in R <=>
                     \/ FreeSlotCount(h) < FreeSlotCount(g)
                     \/ FreeSlotCount(g) = FreeSlotCount(h) /\ g < h
    OBVIOUS
  <1> HIDE DEF R
  <1>4. \A g \in C : <<g, g>> \notin R
    BY <1>2, <1>3
  <1>5. \A f, g, h \in C : <<f, g>> \in R /\ <<g, h>> \in R => <<f, h>> \in R
    BY <1>2, <1>3
  <1>6. PICK h \in C : \A g \in C : <<g, h>> \notin R
    BY <1>1, <1>4, <1>5, FiniteFirst
  <1>7. ASSUME NEW g \in C
        PROVE  \/ FreeSlotCount(g) < FreeSlotCount(h)
               \/ FreeSlotCount(g) = FreeSlotCount(h) /\ h <= g
    <2>1. ~ (\/ FreeSlotCount(h) < FreeSlotCount(g)
             \/ FreeSlotCount(g) = FreeSlotCount(h) /\ g < h)
      BY <1>3, <1>6
    <2>2. /\ FreeSlotCount(g) \in Int /\ FreeSlotCount(h) \in Int
          /\ g \in Nat /\ h \in Nat
      BY <1>2
    <2> QED
      BY <2>1, <2>2
  <1> QED
    BY <1>7 DEF BestHost

LEMMA FreeSlotExists ==
  ASSUME TypeOK, SlotsMatchLeases, NEW h \in Hosts, FreeSlotCount(h) > 0
  PROVE  \E s \in SlotsOf(h) : LowestFreeSlot(h, s)
  <1>1. Slots[h] \in Nat \ {0}
    BY PoolAssumption
  <1>2. IsFiniteSet(SlotsOf(h)) /\ Cardinality(SlotsOf(h)) = Slots[h]
    <2>1. 0 \in Int /\ Slots[h] - 1 \in Int
      BY <1>1
    <2>2. /\ IsFiniteSet(0 .. (Slots[h] - 1))
          /\ Cardinality(0 .. (Slots[h] - 1)) =
                IF 0 > Slots[h] - 1 THEN 0 ELSE Slots[h] - 1 - 0 + 1
      BY <2>1, FS_Interval, Zenon
    <2> QED
      BY <1>1, <2>2 DEF SlotsOf
  <1>3. SlotsOf(h) \subseteq Nat
    BY <1>1 DEF SlotsOf
  <1>4. Cardinality(used[h]) \in Nat /\ used[h] # SlotsOf(h)
    BY <1>1, <1>2, UsedFinite DEF FreeSlotCount, TypeOK, ServiceTypeOK
  <1>5. SlotsOf(h) \ used[h] # {}
    BY <1>4 DEF SlotsMatchLeases
  <1>6. PICK s \in SlotsOf(h) \ used[h] : \A i \in SlotsOf(h) \ used[h] : s <= i
    BY <1>3, <1>5, NatMin
  <1> QED
    BY <1>6 DEF LowestFreeSlot

THEOREM AcquireTheorem == Spec => []AcquireDecides
  <1>1. IInv => AcquireDecides
    <2> SUFFICES ASSUME IInv, NEW excl \in SUBSET Hosts, Candidates(excl) # {}
                 PROVE  \E h \in Candidates(excl) :
                            /\ BestHost(h, Candidates(excl))
                            /\ \E s \in SlotsOf(h) : LowestFreeSlot(h, s)
      BY DEF AcquireDecides
    <2>1. TypeOK /\ SlotsMatchLeases
      BY DEF IInv
    <2>2. Candidates(excl) \in SUBSET Hosts
      BY DEF Candidates, LiveHosts
    <2>3. PICK h \in Candidates(excl) : BestHost(h, Candidates(excl))
      BY <2>1, <2>2, BestExists
    <2>4. h \in Hosts /\ FreeSlotCount(h) > 0
      BY <2>2 DEF Candidates
    <2>5. \E s \in SlotsOf(h) : LowestFreeSlot(h, s)
      BY <2>1, <2>4, FreeSlotExists
    <2> QED
      BY <2>3, <2>5
  <1> QED
    BY <1>1, Invariant, PTL

-----------------------------------------------------------------------------
(* Deadlines *)

\* A lease past its deadline stays past its deadline until it is dropped.
THEOREM ExpiryFinal == Spec => NoRevival
  <1> DEFINE Dead(t) == Expired(t) /\ t \in DOMAIN leases' => Expired(t)'
  <1>1. ASSUME IInv, [Next]_vars, NEW t \in DOMAIN leases
        PROVE  Dead(t)
    <2> SUFFICES ASSUME Expired(t), t \in DOMAIN leases' PROVE leases'[t].left <= 0
      BY DEF Expired
    <2> USE <1>1 DEF IInv, TypeOK, ServiceTypeOK, PoolTypeOK
    <2>0. /\ t \in Tokens /\ leases[t] \in Lease /\ leases[t].left <= 0
          /\ leases[t].host \in Hosts
      BY DEF Expired, Lease
    <2>1. ASSUME UNCHANGED leases
          PROVE  leases'[t].left <= 0
      BY <2>0, <2>1
    <2>2. ASSUME NEW D, DropLeases(D)
          PROVE  leases'[t].left <= 0
      BY <2>0, <2>2 DEF DropLeases, Restrict
    <2>3. ASSUME NEW r \in Tokens, NEW excl \in SUBSET Hosts,
                 TryAcquire(r, excl), ~Granted(r)
          PROVE  leases'[t].left <= 0
      <3>1. r # t
        BY <2>3, OpenCallIsFresh
      <3>2. CASE Grant(r, excl)
        <4>1. PICK h \in LiveHosts : \E s \in SlotsOf(h) \ used[h] : TakeLease(r, h, s)
          BY <3>2, GrantEffect
        <4>2. leases'[t] = leases[t]
          BY <3>1, <4>1 DEF TakeLease
        <4> QED
          BY <2>0, <4>2
      <3>3. CASE Refuse(r, excl) \/ Park(r, excl)
        BY <2>1, <3>3 DEF Refuse, Park, poolVars
      <3> QED
        BY <2>3, <3>2, <3>3 DEF TryAcquire
    <2>4. ASSUME NEW u \in Tokens, Heartbeat(u)
          PROVE  leases'[t].left <= 0
      <3>1. t = u => ~HeartbeatOk(u)
        BY <2>0 DEF HeartbeatOk, Lease, Overdue
      <3> QED
        BY <2>0, <2>4, <3>1 DEF Heartbeat, PoolHeartbeat
    <2>5. ASSUME Tick
          PROVE  leases'[t].left <= 0
      <3>1. leases'[t].left = IF leases[t].left = Overdue THEN leases[t].left
                              ELSE leases[t].left - 1
        BY <2>0, <2>5 DEF Tick, PassTime, Lease
      <3>2. leases[t].left \in Int
        BY <2>0, PoolAssumption DEF Lease, Overdue
      <3> QED
        BY <2>0, <3>1, <3>2
    <2>6. ASSUME NEW r \in Tokens, NEW excl \in SUBSET Hosts, Acquire(r, excl)
          PROVE  leases'[t].left <= 0
      BY <2>3, <2>6 DEF Acquire, Granted
    <2>7. ASSUME NEW r \in Tokens, Recheck(r)
          PROVE  leases'[t].left <= 0
      BY <2>3, <2>7 DEF Recheck, Granted
    <2>8. ASSUME NEW u \in Tokens, CancelWait(u) \/ RegisterPid(u)
          PROVE  leases'[t].left <= 0
      BY <2>1, <2>8 DEF CancelWait, RegisterPid, PoolRegisterPid, poolVars
    <2>9. ASSUME NEW u \in Tokens, Release(u)
          PROVE  leases'[t].left <= 0
      BY <2>2, <2>9 DEF Release, PoolRelease
    <2>10. ASSUME NEW g \in Hosts, Quarantine(g)
           PROVE  leases'[t].left <= 0
      BY <2>2, <2>10 DEF Quarantine, QuarantineHosts
    <2>11. ASSUME NEW g \in Hosts, MarkReconciled(g)
           PROVE  leases'[t].left <= 0
      BY <2>1, <2>11 DEF MarkReconciled, PoolMarkReconciled
    <2>12. ASSUME Sweep
           PROVE  leases'[t].left <= 0
      BY <2>2, <2>12 DEF Sweep, PoolSweep, QuarantineHosts
    <2>13. ASSUME UNCHANGED vars
           PROVE  leases'[t].left <= 0
      BY <2>1, <2>13 DEF vars, poolVars
    <2> QED
      BY <2>4, <2>5, <2>6, <2>7, <2>8, <2>9, <2>10, <2>11, <2>12, <2>13 DEF Next
  <1>2. IInv /\ [Next]_vars => [\A t \in DOMAIN leases : Dead(t)]_vars
    BY <1>1
  <1> QED
    BY <1>2, Invariant, PTL DEF Spec, NoRevival

LEMMA GrantUntried ==
  ASSUME NEW r \in Tokens, NEW excl \in SUBSET Hosts, Grant(r, excl)
  PROVE  leases'[r].host \notin excl \/ LiveHosts \subseteq excl
  <1>1. PICK h \in Candidates(excl) : \E s \in SlotsOf(h) : TakeLease(r, h, s)
    BY DEF Grant
  <1>2. leases'[r].host = h
    BY <1>1 DEF TakeLease
  <1>3. h \notin excl \/ LiveHosts \subseteq excl
    BY DEF Candidates
  <1> QED
    BY <1>2, <1>3

\* A call that acquire had not granted before this turn is granted an untried
\* host, or had no live host left that was untried.
LEMMA TryAcquireUntried ==
  ASSUME TypeOK, NEW r \in Tokens, NEW u \in Tokens, NEW excl \in SUBSET Hosts,
         TryAcquire(u, excl), ~Granted(r), request'[r] = "granted"
  PROVE  u = r /\ (leases'[r].host \notin excl \/ LiveHosts \subseteq excl)
  <1> USE DEF TypeOK, ServiceTypeOK, Granted
  <1>1. ~Refuse(u, excl) /\ ~Park(u, excl)
    BY DEF Refuse, Park
  <1>2. Grant(u, excl)
    BY <1>1 DEF TryAcquire
  <1>3. u = r
    BY <1>2 DEF Grant
  <1> QED
    BY <1>2, <1>3, GrantUntried

\* A retry is granted a host it already tried only when every live host was tried.
THEOREM UntriedTheorem == Spec => UntriedFirst
  <1> DEFINE Fair(r) == ~Granted(r) /\ Granted(r)' =>
                            \/ leases'[r].host \notin excluded'[r]
                            \/ LiveHosts \subseteq excluded'[r]
  <1>1. ASSUME IInv, [Next]_vars, NEW r \in Tokens
        PROVE  Fair(r)
    <2> SUFFICES ASSUME ~Granted(r), request'[r] = "granted"
                 PROVE  \/ leases'[r].host \notin excluded'[r]
                        \/ LiveHosts \subseteq excluded'[r]
      BY DEF Granted
    <2>0. TypeOK /\ request \in [Tokens -> Stages] /\ excluded \in [Tokens -> SUBSET Hosts]
      BY <1>1 DEF IInv, TypeOK, ServiceTypeOK
    <2>1. ASSUME NEW u \in Tokens, NEW excl \in SUBSET Hosts, Acquire(u, excl)
          PROVE  \/ leases'[r].host \notin excluded'[r]
                 \/ LiveHosts \subseteq excluded'[r]
      BY <2>0, <2>1, TryAcquireUntried DEF Acquire
    <2>2. ASSUME NEW u \in Tokens, Recheck(u)
          PROVE  \/ leases'[r].host \notin excluded'[r]
                 \/ LiveHosts \subseteq excluded'[r]
      BY <2>0, <2>2, TryAcquireUntried DEF Recheck
    <2>3. ~NotifyAll /\ request' # request /\ ~\E t \in Tokens : CancelWait(t)
      BY <2>0 DEF NotifyAll, CancelWait, Granted
    <2> QED
      BY <1>1, <2>1, <2>2, <2>3
      DEF Next, Release, RegisterPid, Heartbeat, Quarantine, MarkReconciled, Sweep,
          Tick, svcVars, vars
  <1>2. IInv /\ [Next]_vars => [\A r \in Tokens : Fair(r)]_vars
    BY <1>1
  <1> QED
    BY <1>2, Invariant, PTL DEF Spec, UntriedFirst

-----------------------------------------------------------------------------
(* The service implements the slot table *)

Owner == [h \in Hosts |-> [s \in SlotsOf(h) |->
            {t \in DOMAIN leases : leases[t].host = h /\ leases[t].slot = s}]]

Issued == {t \in Tokens : Granted(t)}

\* A step that moves no lease, bars or readmits no host and settles no call as
\* granted is a stutter of the table.
LEMMA TableStutter ==
  ASSUME UNCHANGED quarantined,
         DOMAIN leases' = DOMAIN leases,
         \A t \in DOMAIN leases : /\ leases'[t].host = leases[t].host
                                  /\ leases'[t].slot = leases[t].slot,
         \A t \in Tokens : Granted(t)' <=> Granted(t)
  PROVE  UNCHANGED <<Owner, quarantined, Issued>>
  <1>1. ASSUME NEW h \in Hosts, NEW s \in SlotsOf(h)
        PROVE  {t \in DOMAIN leases' : leases'[t].host = h /\ leases'[t].slot = s} =
               {t \in DOMAIN leases : leases[t].host = h /\ leases[t].slot = s}
    OBVIOUS
  <1>2. Owner' = Owner
    BY <1>1 DEF Owner, SlotsOf
  <1>3. Issued' = Issued
    BY DEF Issued
  <1> QED
    BY <1>2, <1>3

\* Dropping leases empties exactly the slots that they owned.
LEMMA TableDrop ==
  ASSUME NEW D, DropLeases(D)
  PROVE  Owner' = [h \in Hosts |-> [s \in SlotsOf(h) |-> Owner[h][s] \ D]]
  <1>1. ASSUME NEW h \in Hosts, NEW s \in SlotsOf(h)
        PROVE  {t \in DOMAIN leases' : leases'[t].host = h /\ leases'[t].slot = s} =
               Owner[h][s] \ D
    BY DEF DropLeases, Restrict, Owner
  <1> QED
    BY <1>1 DEF Owner, SlotsOf

LEMMA TableBar ==
  ASSUME NEW A \in SUBSET Hosts, QuarantineHosts(A), Issued' = Issued
  PROVE  Table!Bar(A)
  <1>1. Owner' = [h \in Hosts |-> [s \in SlotsOf(h) |-> Owner[h][s] \ LeasesOn(A)]]
    BY TableDrop DEF QuarantineHosts
  <1>2. ASSUME NEW h \in Hosts, NEW s \in SlotsOf(h)
        PROVE  Owner[h][s] \ LeasesOn(A) = IF h \in A THEN {} ELSE Owner[h][s]
    BY DEF Owner, LeasesOn
  <1>3. Owner' = [h \in Hosts |-> [s \in SlotsOf(h) |->
                     IF h \in A THEN {} ELSE Owner[h][s]]]
    BY <1>1, <1>2
  <1> QED
    BY <1>3 DEF Table!Bar, Table!SlotsOf, SlotsOf, Owner, QuarantineHosts, Issued

LEMMA TableAcquire ==
  ASSUME IInv, NEW r \in Tokens, NEW excl \in SUBSET Hosts,
         TryAcquire(r, excl), ~Granted(r)
  PROVE  [Table!Next]_(Table!vars)
  <1>1. CASE Grant(r, excl)
    <2>1. PICK h \in LiveHosts : \E s \in SlotsOf(h) \ used[h] :
            TakeLease(r, h, s) /\ request' = [request EXCEPT ![r] = "granted"]
      BY <1>1, GrantEffect
    <2>2. PICK s \in SlotsOf(h) \ used[h] :
            TakeLease(r, h, s) /\ request' = [request EXCEPT ![r] = "granted"]
      BY <2>1
    <2>3. h \in Hosts /\ h \notin quarantined /\ quarantined' = quarantined
      BY <2>2 DEF LiveHosts, TakeLease
    <2>4. r \notin DOMAIN leases
      BY OpenCallIsFresh
    <2>5. Owner[h][s] = {}
      <3>1. s \notin {leases[t].slot : t \in LeasesOn({h})}
        BY <2>3 DEF IInv, SlotsMatchLeases
      <3> QED
        BY <2>3, <3>1 DEF Owner, LeasesOn
    <2>6. ASSUME NEW g \in Hosts, NEW i \in SlotsOf(g)
          PROVE  {t \in DOMAIN leases' : leases'[t].host = g /\ leases'[t].slot = i} =
                 IF g = h /\ i = s THEN {r} ELSE Owner[g][i]
      BY <2>2, <2>3, <2>4, <2>5 DEF TakeLease, Owner
    <2>7. Owner' = [Owner EXCEPT ![h][s] = {r}]
      <3>1. Owner' = [g \in Hosts |-> [i \in SlotsOf(g) |->
                         IF g = h /\ i = s THEN {r} ELSE Owner[g][i]]]
        <4>1. Owner' = [g \in Hosts |-> [i \in SlotsOf(g) |->
                 {t \in DOMAIN leases' : leases'[t].host = g /\ leases'[t].slot = i}]]
          BY DEF Owner, SlotsOf
        <4> QED
          BY <2>6, <4>1
      <3>2. \A g \in Hosts : Owner[g] = [i \in SlotsOf(g) |-> Owner[g][i]]
        BY DEF Owner
      <3>3. ASSUME NEW g \in Hosts
            PROVE  Owner'[g] = [Owner EXCEPT ![h][s] = {r}][g]
        <4>1. DOMAIN Owner = Hosts /\ DOMAIN Owner[g] = SlotsOf(g)
          BY DEF Owner
        <4>2. Owner'[g] = [i \in SlotsOf(g) |->
                             IF g = h /\ i = s THEN {r} ELSE Owner[g][i]]
          BY <3>1
        <4>3. CASE g = h
          <5>1. [Owner[g] EXCEPT ![s] = {r}] = Owner'[g]
            BY <4>1, <4>2, <4>3
          <5> QED
            BY <4>1, <4>3, <5>1
        <4>4. CASE g # h
          BY <3>2, <4>1, <4>2, <4>4
        <4> QED
          BY <4>3, <4>4
      <3>4. /\ DOMAIN Owner' = Hosts /\ DOMAIN Owner = Hosts
            /\ Owner' = [g \in Hosts |-> Owner'[g]]
        BY DEF Owner
      <3> QED
        BY <3>1, <3>3, <3>4
    <2>8. Issued' = Issued \cup {r} /\ r \notin Issued
      BY <2>2 DEF Issued, Granted, IInv, TypeOK, ServiceTypeOK
    <2>9. Table!Grant(r, h, s)
      BY <2>3, <2>5, <2>7, <2>8 DEF Table!Grant, Owner, Issued
    <2> QED
      BY <2>3, <2>9 DEF Table!Next, Table!SlotsOf, SlotsOf
  <1>2. CASE Refuse(r, excl) \/ Park(r, excl)
    <2>1. UNCHANGED <<leases, quarantined>>
      BY <1>2 DEF Refuse, Park, poolVars
    <2>2. \A t \in Tokens : Granted(t)' <=> Granted(t)
      BY <1>2 DEF Refuse, Park, Granted, IInv, TypeOK, ServiceTypeOK
    <2> QED
      BY <2>1, <2>2, TableStutter DEF Table!vars, Owner, Issued
  <1> QED
    BY <1>1, <1>2 DEF TryAcquire

LEMMA TableInit == Init => Table!Init
  <1> SUFFICES ASSUME Init PROVE Table!Init
    OBVIOUS
  <1>1. DOMAIN leases = {} /\ quarantined = {} /\ \A t \in Tokens : ~Granted(t)
    BY DEF Init, ServiceInit, PoolInit, Granted
  <1> QED
    BY <1>1 DEF Table!Init, Table!SlotsOf, SlotsOf

LEMMA TableStep == IInv /\ [Next]_vars => [Table!Next]_(Table!vars)
  <1> SUFFICES ASSUME IInv, [Next]_vars PROVE [Table!Next]_(Table!vars)
    OBVIOUS
  <1> USE DEF IInv, TypeOK, ServiceTypeOK
  <1>1. ASSUME NEW r \in Tokens, NEW excl \in SUBSET Hosts, Acquire(r, excl)
        PROVE  [Table!Next]_(Table!vars)
    BY <1>1, TableAcquire DEF Acquire, Granted
  <1>2. ASSUME NEW r \in Tokens, Recheck(r)
        PROVE  [Table!Next]_(Table!vars)
    BY <1>2, TableAcquire DEF Recheck, Granted
  <1>3. ASSUME UNCHANGED quarantined,
               DOMAIN leases' = DOMAIN leases,
               \A t \in DOMAIN leases : /\ leases'[t].host = leases[t].host
                                        /\ leases'[t].slot = leases[t].slot,
               \A t \in Tokens : Granted(t)' <=> Granted(t)
        PROVE  [Table!Next]_(Table!vars)
    BY <1>3, TableStutter DEF Table!vars, Owner, Issued
  <1>4. ASSUME NEW r \in Tokens, CancelWait(r)
        PROVE  [Table!Next]_(Table!vars)
    BY <1>3, <1>4 DEF CancelWait, Waiting, Granted, poolVars
  <1>5. ASSUME NEW t \in Tokens, Release(t)
        PROVE  [Table!Next]_(Table!vars)
    <2>1. /\ DropLeases({t} \cap DOMAIN leases) /\ NotifyAll
          /\ quarantined' = quarantined
      BY <1>5 DEF Release, PoolRelease
    <2>2. Owner' = [h \in Hosts |-> [s \in SlotsOf(h) |->
                       Owner[h][s] \ ({t} \cap DOMAIN leases)]]
      BY <2>1, TableDrop
    <2>3. \A h \in Hosts : \A s \in SlotsOf(h) :
             Owner[h][s] \ ({t} \cap DOMAIN leases) = Owner[h][s] \ {t}
      BY DEF Owner
    <2>4. Owner' = [h \in Hosts |-> [s \in SlotsOf(h) |-> Owner[h][s] \ {t}]]
      BY <2>2, <2>3
    <2>5. Issued' = Issued
      BY <2>1, NotifyKeepsGrants DEF Issued
    <2>6. Table!Vacate(t)
      BY <2>1, <2>4, <2>5 DEF Table!Vacate, Table!SlotsOf, SlotsOf, Owner, Issued
    <2> QED
      BY <2>6 DEF Table!Next
  <1>6. ASSUME NEW t \in Tokens, RegisterPid(t)
        PROVE  [Table!Next]_(Table!vars)
    BY <1>3, <1>6 DEF RegisterPid, PoolRegisterPid, svcVars, Granted
  <1>7. ASSUME NEW t \in Tokens, Heartbeat(t)
        PROVE  [Table!Next]_(Table!vars)
    BY <1>3, <1>7 DEF Heartbeat, PoolHeartbeat, svcVars, Granted, PoolTypeOK, Lease
  <1>8. ASSUME NEW h \in Hosts, Quarantine(h)
        PROVE  [Table!Next]_(Table!vars)
    <2>1. QuarantineHosts({h}) /\ Issued' = Issued
      BY <1>8, NotifyKeepsGrants DEF Quarantine, Issued
    <2> QED
      BY <2>1, TableBar DEF Table!Next
  <1>9. ASSUME NEW h \in Hosts, MarkReconciled(h)
        PROVE  [Table!Next]_(Table!vars)
    <2>1. leases' = leases /\ quarantined' = quarantined \ {h} /\ NotifyAll
      BY <1>9 DEF MarkReconciled, PoolMarkReconciled
    <2>2. Issued' = Issued
      BY <2>1, NotifyKeepsGrants DEF Issued
    <2>3. Table!Readmit(h)
      BY <2>1, <2>2 DEF Table!Readmit, Issued
    <2> QED
      BY <2>3 DEF Table!Next
  <1>10. ASSUME Sweep
         PROVE  [Table!Next]_(Table!vars)
    <2>1. QuarantineHosts(ExpiredHosts) /\ ExpiredHosts \in SUBSET Hosts
      BY <1>10 DEF Sweep, PoolSweep, ExpiredHosts, PoolTypeOK, Lease
    <2>2. Issued' = Issued
      BY <1>10, NotifyKeepsGrants DEF Sweep, Issued, Granted
    <2> QED
      BY <2>1, <2>2, TableBar DEF Table!Next
  <1>11. ASSUME Tick
         PROVE  [Table!Next]_(Table!vars)
    BY <1>3, <1>11 DEF Tick, PassTime, svcVars, Granted, PoolTypeOK, Lease
  <1>12. ASSUME UNCHANGED vars
         PROVE  [Table!Next]_(Table!vars)
    BY <1>3, <1>12 DEF vars, poolVars, svcVars, Granted
  <1> QED
    BY <1>1, <1>2, <1>4, <1>5, <1>6, <1>7, <1>8, <1>9, <1>10, <1>11, <1>12
    DEF Next, PoolTypeOK

\* The lease actor implements the slot table: every slot has one owner at a
\* time, a token owns at most one slot in its whole life, and a quarantined host
\* is empty until it is readmitted.
THEOREM Refinement == Spec => ImplementsTable
  <1> QED
    BY TableInit, TableStep, Invariant, PTL DEF Spec, ImplementsTable, Table!Spec
=============================================================================
