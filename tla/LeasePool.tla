----------------------------- MODULE LeasePool -----------------------------
(***************************************************************************)
(* The lease pool (scheduling.py, class LeasePool): per-host slots lent to *)
(* job attempts, with expiry, quarantine and the metadata needed to find   *)
(* the remote processes that an evicted attempt may have left behind.      *)
(*                                                                         *)
(* Every operation below is one synchronous method of the class; the       *)
(* methods run one at a time inside the lease actor (see LeaseService).    *)
(*                                                                         *)
(* Abstractions.  A host is its rank in the sorted order of host labels.   *)
(* The pid.json path of an attempt is represented by the attempt's token,  *)
(* which determines it.  The clock is replaced by the time every lease has *)
(* left, expiry_s - now(), counted in ticks and floored at Overdue.        *)
(*                                                                         *)
(* A definition named Op_Fault is Op with one plausible programming error. *)
(* Nothing uses it: it is there to be substituted for Op, to see that the  *)
(* property that guards against the error notices it.                      *)
(***************************************************************************)
EXTENDS Integers, FiniteSets, Functions

CONSTANTS
    Hosts,     \* hosts that were provisioned, numbered in label order
    Slots,     \* Slots[h]: capacity of host h (RemoteHost.slots)
    Tokens,    \* lease tokens; token_factory never repeats one
    LeaseTtl   \* lease_ttl_s, in ticks

ASSUME PoolAssumption ==
    /\ Hosts \subseteq Nat
    /\ IsFiniteSet(Hosts)
    /\ Slots \in [Hosts -> Nat \ {0}]
    /\ LeaseTtl \in Nat \ {0}

VARIABLES
    used,         \* _used: slots taken, per host
    leases,       \* _leases: token -> lease, for the live tokens only
    pidPaths,     \* _pid_paths: live tokens whose pid.json path is known
    orphans,      \* _orphans: per host, paths of attempts dropped by quarantine
    quarantined   \* _quarantined

poolVars == <<used, leases, pidPaths, orphans, quarantined>>

Overdue == -1
SlotsOf(h) == 0 .. (Slots[h] - 1)
Lease == [host : Hosts, slot : Nat, left : Overdue .. LeaseTtl]

PoolTypeOK ==
    /\ used \in [Hosts -> SUBSET Nat]
    /\ DOMAIN leases \subseteq Tokens
    /\ leases \in [DOMAIN leases -> Lease]
    /\ pidPaths \subseteq Tokens
    /\ orphans \in [Hosts -> SUBSET Tokens]
    /\ quarantined \subseteq Hosts

PoolInit ==
    /\ used = [h \in Hosts |-> {}]
    /\ leases = [t \in {} |-> {}]
    /\ pidPaths = {}
    /\ orphans = [h \in Hosts |-> {}]
    /\ quarantined = {}

-----------------------------------------------------------------------------
(* Queries *)

\* _healthy never changes after construction, so the live hosts are these.
LiveHosts == Hosts \ quarantined

FreeSlotCount(h) == Slots[h] - Cardinality(used[h])

LeasesOn(A) == {t \in DOMAIN leases : leases[t].host \in A}

\* sweep_expired compares expiry_s <= now
Expired(t) == leases[t].left <= 0

ExpiredHosts == {leases[t].host : t \in {x \in DOMAIN leases : Expired(x)}}

HeartbeatOk_AtDeadline(t) == t \in DOMAIN leases /\ leases[t].left >= 0

\* heartbeat's answer: the token is live and now < expiry_s
HeartbeatOk(t) == t \in DOMAIN leases /\ leases[t].left > 0

-----------------------------------------------------------------------------
(* acquire *)

Candidates_FullIsTried(excl) ==
    LET untried == {h \in LiveHosts \ excl : FreeSlotCount(h) > 0}
        pool    == IF untried # {} THEN untried ELSE LiveHosts
    IN  {h \in pool : FreeSlotCount(h) > 0}

\* A host already tried by the job is used only once every live host was tried.
Candidates(excl) ==
    LET untried == LiveHosts \ excl
        pool    == IF untried # {} THEN untried ELSE LiveHosts
    IN  {h \in pool : FreeSlotCount(h) > 0}

\* Most free slots first; ties go to the first label.
BestHost(h, C) ==
    \A g \in C : \/ FreeSlotCount(g) < FreeSlotCount(h)
                 \/ FreeSlotCount(g) = FreeSlotCount(h) /\ h <= g

\* _take_slot: the lowest slot of h that is not in use
LowestFreeSlot(h, s) ==
    /\ s \in SlotsOf(h) \ used[h]
    /\ \A i \in SlotsOf(h) \ used[h] : s <= i

TakeLease_SlotNotMarked(t, h, s) ==
    /\ leases' = [x \in DOMAIN leases \cup {t} |->
                    IF x = t THEN [host |-> h, slot |-> s, left |-> LeaseTtl]
                    ELSE leases[x]]
    /\ UNCHANGED <<used, pidPaths, orphans, quarantined>>

\* The grant that acquire makes when some candidate exists.
TakeLease(t, h, s) ==
    /\ used' = [used EXCEPT ![h] = @ \cup {s}]
    /\ leases' = [x \in DOMAIN leases \cup {t} |->
                    IF x = t THEN [host |-> h, slot |-> s, left |-> LeaseTtl]
                    ELSE leases[x]]
    /\ UNCHANGED <<pidPaths, orphans, quarantined>>

-----------------------------------------------------------------------------
(* release, register_pid, heartbeat *)

DropLeases_SlotsKept(D) ==
    /\ leases' = Restrict(leases, DOMAIN leases \ D)
    /\ pidPaths' = pidPaths \ D
    /\ UNCHANGED used

\* Forget the leases of the tokens in D: their slots and pid paths go too.
DropLeases(D) ==
    /\ used' = [h \in Hosts |->
                  used[h] \ {leases[t].slot : t \in D \cap LeasesOn({h})}]
    /\ leases' = Restrict(leases, DOMAIN leases \ D)
    /\ pidPaths' = pidPaths \ D

PoolRelease(t) ==
    /\ DropLeases({t} \cap DOMAIN leases)
    /\ UNCHANGED <<orphans, quarantined>>

PoolRegisterPid(t) ==
    /\ pidPaths' = pidPaths \cup ({t} \cap DOMAIN leases)
    /\ UNCHANGED <<used, leases, orphans, quarantined>>

PoolHeartbeat_Accumulates(t) ==
    /\ leases' = [x \in DOMAIN leases |->
                    IF x = t /\ HeartbeatOk(t)
                    THEN [leases[x] EXCEPT !.left = @ + LeaseTtl]
                    ELSE leases[x]]
    /\ UNCHANGED <<used, pidPaths, orphans, quarantined>>

PoolHeartbeat(t) ==
    /\ leases' = [x \in DOMAIN leases |->
                    IF x = t /\ HeartbeatOk(t)
                    THEN [leases[x] EXCEPT !.left = LeaseTtl]
                    ELSE leases[x]]
    /\ UNCHANGED <<used, pidPaths, orphans, quarantined>>

-----------------------------------------------------------------------------
(* quarantine, mark_reconciled, sweep_expired *)

\* Quarantining a host drops every lease on it, expired or not; the pid paths
\* of the dropped leases are kept as reconciliation work.
QuarantineHosts(A) ==
    /\ quarantined' = quarantined \cup A
    /\ orphans' = [h \in Hosts |->
                     IF h \in A THEN orphans[h] \cup (LeasesOn({h}) \cap pidPaths)
                     ELSE orphans[h]]
    /\ DropLeases(LeasesOn(A))

PoolMarkReconciled_WorkKept(h) ==
    /\ quarantined' = quarantined \ {h}
    /\ UNCHANGED <<used, leases, pidPaths, orphans>>

PoolMarkReconciled(h) ==
    /\ orphans' = [orphans EXCEPT ![h] = {}]
    /\ quarantined' = quarantined \ {h}
    /\ UNCHANGED <<used, leases, pidPaths>>

PoolSweep == QuarantineHosts(ExpiredHosts)

-----------------------------------------------------------------------------
(* The passage of time, shared by all leases *)

PassTime ==
    /\ \E t \in DOMAIN leases : leases[t].left # Overdue
    /\ leases' = [t \in DOMAIN leases |->
                    [leases[t] EXCEPT !.left = IF @ = Overdue THEN @ ELSE @ - 1]]
    /\ UNCHANGED <<used, pidPaths, orphans, quarantined>>
=============================================================================
