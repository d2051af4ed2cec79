---------------------------- MODULE LeaseService ----------------------------
(***************************************************************************)
(* The lease actor (scheduling.py, class LeaseService): the pool behind an *)
(* asyncio.Condition.  Every method takes the condition's lock and, except *)
(* for the wait inside acquire, runs without awaiting, so each method is   *)
(* one step.  acquire parks its caller while the hosts it may use are full *)
(* and is re-run, in any order among the woken callers, after notify_all.  *)
(*                                                                         *)
(* One acquire call is made per token: the token names the call while it   *)
(* waits and the lease once it is granted.  Callers are unconstrained: a   *)
(* caller whose lease was granted may call any method with its token at    *)
(* any time, also after the lease was released or taken away.              *)
(***************************************************************************)
EXTENDS LeasePool

VARIABLES
    request,   \* request[r]: how far the acquire call of token r has got
    excluded,  \* excluded[r]: hosts that call asked not to use
    replied    \* replied[h]: tokens whose caller was given a lease on h

svcVars == <<request, excluded, replied>>
vars == <<poolVars, svcVars>>

Stages == {"new", "parked", "woken", "granted", "refused", "cancelled"}

ServiceTypeOK ==
    /\ PoolTypeOK
    /\ request \in [Tokens -> Stages]
    /\ excluded \in [Tokens -> SUBSET Hosts]
    /\ replied \in [Hosts -> SUBSET Tokens]

ServiceInit ==
    /\ PoolInit
    /\ request = [r \in Tokens |-> "new"]
    /\ excluded = [r \in Tokens |-> {}]
    /\ replied = [h \in Hosts |-> {}]

Waiting(r) == request[r] \in {"parked", "woken"}
Granted(r) == request[r] = "granted"

-----------------------------------------------------------------------------
(* acquire: one turn of its loop, for a new call or a woken one *)

Grant(r, excl) ==
    /\ \E h \in Candidates(excl) : \E s \in SlotsOf(h) :
          /\ BestHost(h, Candidates(excl))
          /\ LowestFreeSlot(h, s)
          /\ TakeLease(r, h, s)
          /\ replied' = [replied EXCEPT ![h] = @ \cup {r}]
    /\ request' = [request EXCEPT ![r] = "granted"]

\* NoHealthyHostsError
Refuse(r, excl) ==
    /\ Candidates(excl) = {}
    /\ LiveHosts = {}
    /\ request' = [request EXCEPT ![r] = "refused"]
    /\ UNCHANGED <<poolVars, replied>>

\* await self._cond.wait()
Park(r, excl) ==
    /\ Candidates(excl) = {}
    /\ LiveHosts # {}
    /\ request' = [request EXCEPT ![r] = "parked"]
    /\ UNCHANGED <<poolVars, replied>>

TryAcquire(r, excl) == Grant(r, excl) \/ Refuse(r, excl) \/ Park(r, excl)

Acquire(r, excl) ==
    /\ request[r] = "new"
    /\ excluded' = [excluded EXCEPT ![r] = excl]
    /\ TryAcquire(r, excl)

Recheck(r) ==
    /\ request[r] = "woken"
    /\ TryAcquire(r, excluded[r])
    /\ UNCHANGED excluded

\* The actor runtime cancels the coroutine of a caller that was cancelled.
CancelWait(r) ==
    /\ Waiting(r)
    /\ request' = [request EXCEPT ![r] = "cancelled"]
    /\ UNCHANGED <<poolVars, excluded, replied>>

-----------------------------------------------------------------------------
(* The other methods *)

\* self._cond.notify_all()
NotifyAll ==
    request' = [r \in Tokens |->
                  IF request[r] = "parked" THEN "woken" ELSE request[r]]

Release_Silent(t) ==
    /\ PoolRelease(t)
    /\ UNCHANGED svcVars

Release(t) ==
    /\ PoolRelease(t)
    /\ NotifyAll
    /\ UNCHANGED <<excluded, replied>>

RegisterPid(t) ==
    /\ PoolRegisterPid(t)
    /\ UNCHANGED svcVars

Heartbeat(t) ==
    /\ PoolHeartbeat(t)
    /\ UNCHANGED svcVars

\* Notifies only when some host was quarantined; otherwise it changes nothing.
Sweep ==
    /\ PoolSweep
    /\ IF ExpiredHosts # {} THEN NotifyAll ELSE UNCHANGED request
    /\ UNCHANGED <<excluded, replied>>

Quarantine_Silent(h) ==
    /\ QuarantineHosts({h})
    /\ UNCHANGED svcVars

Quarantine(h) ==
    /\ QuarantineHosts({h})
    /\ NotifyAll
    /\ UNCHANGED <<excluded, replied>>

MarkReconciled(h) ==
    /\ PoolMarkReconciled(h)
    /\ NotifyAll
    /\ UNCHANGED <<excluded, replied>>

Tick == PassTime /\ UNCHANGED svcVars

-----------------------------------------------------------------------------
(* The service with unconstrained callers *)

Init == ServiceInit

\* A worker calls the service with the token of the lease it was given, and
\* quarantines only the host of that lease.  A host may be reported reconciled
\* late, when another sweeper has already readmitted it.
Next ==
    \/ \E r \in Tokens, excl \in SUBSET Hosts : Acquire(r, excl)
    \/ \E r \in Tokens : Recheck(r)
    \/ \E r \in Tokens : CancelWait(r)
    \/ \E t \in Tokens : Granted(t) /\ Release(t)
    \/ \E t \in Tokens : Granted(t) /\ RegisterPid(t)
    \/ \E t \in Tokens : Granted(t) /\ Heartbeat(t)
    \/ \E h \in Hosts : replied[h] # {} /\ Quarantine(h)
    \/ \E h \in Hosts : MarkReconciled(h)
    \/ Sweep
    \/ Tick

\* The actor's loop runs woken coroutines, and run_job releases every lease
\* it was given in a finally clause.
Fairness ==
    /\ \A r \in Tokens : WF_vars(Recheck(r))
    /\ \A t \in Tokens : WF_vars(t \in DOMAIN leases /\ Release(t))

Spec == Init /\ [][Next]_vars
FairSpec == Spec /\ Fairness

-----------------------------------------------------------------------------
(* Properties *)

\* Every variable keeps its type.
TypeOK == ServiceTypeOK

\* The two books that the pool keeps agree: a slot is marked used exactly while
\* some live lease names it, it exists on its host, and no two live leases
\* share it (_used and _leases are updated separately by acquire, release and
\* quarantine).
SlotsMatchLeases ==
    /\ \A h \in Hosts : /\ used[h] = {leases[t].slot : t \in LeasesOn({h})}
                        /\ used[h] \subseteq SlotsOf(h)
    /\ \A t, u \in DOMAIN leases :
          /\ leases[t].host = leases[u].host
          /\ leases[t].slot = leases[u].slot
          => t = u

\* No lease is live on a quarantined host: quarantine evicts the co-tenants of
\* the attempt that caused it, and acquire never grants there until readmission.
QuarantineIsEmpty ==
    \A t \in DOMAIN leases : leases[t].host \notin quarantined

\* Exactly one place knows each recorded pid.json path: the live lease it was
\* registered for, or the reconciliation work of the quarantined host that
\* lease was on.
OrphanCustody ==
    /\ pidPaths \subseteq DOMAIN leases
    /\ \A h \in Hosts : /\ orphans[h] # {} => h \in quarantined
                        /\ orphans[h] \cap DOMAIN leases = {}
                        /\ orphans[h] \subseteq replied[h]

\* Callers know what they were granted: a live lease's caller was told its
\* host, and only tokens whose call was granted were told anything.
GrantsKnown ==
    /\ \A t \in DOMAIN leases : t \in replied[leases[t].host]
    /\ \A h \in Hosts : \A t \in replied[h] : Granted(t)

\* A caller sleeps only while the pool has nothing for it and some host is
\* still live: every step that could let it proceed (a release, a readmission,
\* a quarantine that removes the last host it had not tried, or the last live
\* host) also wakes it.
NoLostWakeup ==
    \A r \in Tokens : request[r] = "parked" =>
        Candidates(excluded[r]) = {} /\ LiveHosts # {}

\* A lease that the sweeper would collect is never renewed: heartbeat and
\* sweep_expired agree on the boundary instant.
NoRevival ==
    [][\A t \in DOMAIN leases : Expired(t) /\ t \in DOMAIN leases' =>
            Expired(t)']_vars

\* While a host stays quarantined its reconciliation work does not change, so
\* the snapshot that the sweeper reconciles is still all of it when the sweeper
\* reports the host clean.
WorkFixedInQuarantine ==
    [][\A h \in quarantined \cap quarantined' : orphans'[h] = orphans[h]]_vars

\* A retry is granted a host it already tried only when no live host is left
\* that it has not tried, even if the untried ones are all full.
UntriedFirst ==
    [][\A r \in Tokens : ~Granted(r) /\ Granted(r)' =>
            \/ leases'[r].host \notin excluded'[r]
            \/ LiveHosts \subseteq excluded'[r]]_vars

\* Every call to acquire is answered as long as holders release their leases,
\* whatever the sweeper does and even if no host is ever readmitted.
WaitersAnswered ==
    \A r \in Tokens : Waiting(r) ~> ~Waiting(r)

\* The service implements the slot table.
Table == INSTANCE SlotTable WITH
    owner  <- [h \in Hosts |-> [s \in SlotsOf(h) |->
                 {t \in DOMAIN leases : leases[t].host = h /\ leases[t].slot = s}]],
    barred <- quarantined,
    issued <- {t \in Tokens : Granted(t)}

ImplementsTable == Table!Spec
=============================================================================
