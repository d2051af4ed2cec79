-------------------------- MODULE AccountingProofs --------------------------
(***************************************************************************)
(* Proofs about the remote processes of Dispatch: as long as one sweeper   *)
(* runs at a time, a process that may run is accounted for, for any number *)
(* of hosts, slots, jobs and attempts and for crashing workers, unless its *)
(* path could not be recorded or an interrupt cut its cleanup short.       *)
(*                                                                         *)
(* The argument follows a pid.json path: from register_pid on it is in     *)
(* the pool's _pid_paths or among the orphans of its host (Accounted), an  *)
(* attempt that releases its lease has ended, was evicted or escaped       *)
(* (ReleasesSettled), and a sweeper reports a host only when all of its    *)
(* orphans are dead (SweepsHonest).  From this it follows what a host      *)
(* carries and when a slot passes on.  A host out of service about which   *)
(* nothing is recorded is the subject of the last section: no sweep, and   *)
(* no number of sweepers, brings it back.                                  *)
(***************************************************************************)
EXTENDS DispatchProofs

OneSweeper == \A s, u \in Sweepers : s = u

\* A token is granted on one host.
GrantedOnce == \A h, g \in Hosts : h # g => replied[h] \cap replied[g] = {}

\* The attempt's process may run, or its worker may still start it.
Open(t) ==
    \/ MayRun(t)
    \/ proc[t] = "none" /\ \E j \in Jobs : t = Token(j) /\ task[j] = "running"

Accounted ==
    \A h \in Hosts : \A t \in Known(h) :
        Open(t) => t \in pidPaths \cup orphans[h]

\* Only granted attempts start a process, and only once they run.
Unstarted ==
    /\ \A t \in Tokens : proc[t] # "none" => Granted(t)
    /\ \A j \in Jobs, n \in 1 .. MaxAttempts :
         n > attempt[j] => proc[<<j, n>>] = "none"
    /\ \A j \in Jobs :
         task[j] \in {"ready", "acquiring", "leased"} => proc[Token(j)] = "none"

ReleasesSettled ==
    \A j \in Jobs : task[j] = "releasing" =>
        \/ proc[Token(j)] \in {"none", "dead"}
        \/ Token(j) \notin DOMAIN leases
        \/ Token(j) \in escaped

SweepsHonest ==
    \A s \in Sweepers :
        /\ sweep[s].at \in {"pick", "kill", "report"} => sweep[s].todo \subseteq quarantined
        /\ sweep[s].at \in {"kill", "report"} =>
             \A h \in Hosts : IsNext(s, h) =>
               \A t \in orphans[h] : t \in sweep[s].paths \/ proc[t] = "dead"
        /\ sweep[s].at = "report" => sweep[s].paths = {}

DInv == /\ CallerInv /\ IInv
        /\ GrantedOnce /\ Unstarted /\ ReleasesSettled /\ Accounted /\ SweepsHonest

-----------------------------------------------------------------------------
(* What a step does to one job and to one process *)

\* Only job i's own worker moves it.
LEMMA Moves ==
  ASSUME CallerTypeOK, [DNext]_dvars, NEW i \in Jobs
  PROVE  \/ task'[i] = task[i] /\ attempt'[i] = attempt[i]
         \/ WorkerStep(i) \/ EndEscaped(i) \/ WInterrupted(i) \/ WCrash(i)
  <1>1. ASSUME NEW j \in Jobs, j # i, WorkerStep(j)
        PROVE  task'[i] = task[i] /\ attempt'[i] = attempt[i]
    BY <1>1
    DEF WorkerStep, WAcquire, WGranted, WRefused, WRegister, WIssue, EndSettled,
        EndUnsettled, WEvict, WRelease, Goto, runVars, CallerTypeOK
  <1>2. ASSUME NEW j \in Jobs, j # i, EndEscaped(j) \/ WInterrupted(j) \/ WCrash(j)
        PROVE  task'[i] = task[i] /\ attempt'[i] = attempt[i]
    BY <1>2 DEF EndEscaped, WInterrupted, WCrash, Goto, CallerTypeOK
  <1>3. ASSUME UNCHANGED <<task, attempt>>
        PROVE  task'[i] = task[i] /\ attempt'[i] = attempt[i]
    BY <1>3
  <1> QED
    BY <1>1, <1>2, <1>3
    DEF DNext, WHeartbeat, Remote, ProcStep, SweeperStep, SweepExpired, SweepList,
        SweepPick, SweepKill, SweepGiveUp, SweepReport, ActorRecheck, ActorCancelWait,
        ClockTick, Others, dvars, runVars

\* A process starts by its worker's command, and the dead stay dead.
LEMMA ProcMoves ==
  ASSUME CallerTypeOK, [DNext]_dvars, NEW t \in Tokens
  PROVE  \/ proc'[t] = proc[t]
         \/ \E j \in Jobs : WIssue(j) /\ t = Token(j) /\ proc'[t] = "issued"
         \/ proc[t] = "issued" /\ proc'[t] \in {"alive", "void"}
         \/ proc[t] \in {"alive", "dead"} /\ proc'[t] = "dead"
  <1>1. ASSUME NEW j \in Jobs, WIssue(j)
        PROVE  proc'[t] = proc[t] \/ (t = Token(j) /\ proc'[t] = "issued")
    BY <1>1 DEF WIssue, CallerTypeOK
  <1>2. ASSUME NEW u \in Tokens, Remote(u)
        PROVE  \/ proc'[t] = proc[t]
               \/ proc[t] = "issued" /\ proc'[t] \in {"alive", "void"}
               \/ proc[t] \in {"alive", "dead"} /\ proc'[t] = "dead"
    BY <1>2 DEF Remote, ProcStep, CallerTypeOK
  <1>3. ASSUME NEW s \in Sweepers, SweepKill(s)
        PROVE  \/ proc'[t] = proc[t]
               \/ proc[t] \in {"alive", "dead"} /\ proc'[t] = "dead"
    BY <1>3 DEF SweepKill, CallerTypeOK
  <1>4. ASSUME proc' = proc
        PROVE  proc'[t] = proc[t]
    BY <1>4
  <1> QED
    BY <1>1, <1>2, <1>3, <1>4
    DEF DNext, WorkerStep, WAcquire, WGranted, WRefused, WRegister, EndSettled,
        EndUnsettled, WEvict, WRelease, EndEscaped, WInterrupted, WCrash, WHeartbeat,
        SweeperStep, SweepExpired, SweepList, SweepPick, SweepGiveUp, SweepReport, ActorRecheck,
        ActorCancelWait, ClockTick, Others, dvars

-----------------------------------------------------------------------------
(* What a step does to the books of the service *)

\* A token is granted at most once, and what has lost its lease gets no other.
LEMMA GrantsOnce ==
  ASSUME IInv, GrantedOnce, [Next]_vars
  PROVE  /\ GrantedOnce'
         /\ \A t \in Tokens : Granted(t) /\ t \notin DOMAIN leases => t \notin DOMAIN leases'
         /\ \A h \in Hosts : \A t \in replied'[h] : t \in replied[h] \/ ~Granted(t)
  <1> DEFINE Claim == /\ GrantedOnce'
                      /\ \A t \in Tokens :
                           Granted(t) /\ t \notin DOMAIN leases => t \notin DOMAIN leases'
                      /\ \A h \in Hosts : \A t \in replied'[h] : t \in replied[h] \/ ~Granted(t)
  <1> USE DEF IInv, TypeOK, ServiceTypeOK, PoolTypeOK
  <1>1. ASSUME NEW r \in Tokens, NEW excl \in SUBSET Hosts, TryAcquire(r, excl), ~Granted(r)
        PROVE  Claim
    <2>1. CASE Grant(r, excl)
      <3>1. PICK h \in LiveHosts : \E s \in SlotsOf(h) \ used[h] :
              TakeLease(r, h, s) /\ replied' = [replied EXCEPT ![h] = @ \cup {r}]
        BY <2>1, GrantEffect
      <3>2. DOMAIN leases' = DOMAIN leases \cup {r} /\ h \in Hosts
        BY <3>1 DEF TakeLease, LiveHosts
      <3>3. \A g \in Hosts : r \notin replied[g]
        BY <1>1, OpenCallIsFresh
      <3> QED
        BY <1>1, <3>1, <3>2, <3>3 DEF GrantedOnce
    <2>2. CASE Refuse(r, excl) \/ Park(r, excl)
      BY <2>2 DEF Refuse, Park, poolVars, GrantedOnce
    <2> QED
      BY <1>1, <2>1, <2>2 DEF TryAcquire
  <1>2. ASSUME UNCHANGED replied, DOMAIN leases' \subseteq DOMAIN leases
        PROVE  Claim
    BY <1>2 DEF GrantedOnce
  <1>3. ASSUME NEW r \in Tokens, NEW excl \in SUBSET Hosts, Acquire(r, excl)
        PROVE  Claim
    BY <1>1, <1>3 DEF Acquire, Granted
  <1>4. ASSUME NEW r \in Tokens, Recheck(r)
        PROVE  Claim
    <2>1. excluded[r] \in SUBSET Hosts
      OBVIOUS
    <2> QED
      BY <1>1, <1>4, <2>1 DEF Recheck, Granted
  <1>5. ASSUME NEW t \in Tokens,
               CancelWait(t) \/ Release(t) \/ RegisterPid(t) \/ Heartbeat(t)
        PROVE  Claim
    BY <1>2, <1>5
    DEF CancelWait, Release, PoolRelease, DropLeases, Restrict, RegisterPid,
        PoolRegisterPid, Heartbeat, PoolHeartbeat, poolVars, svcVars
  <1>6. ASSUME NEW A, QuarantineHosts(A), UNCHANGED replied
        PROVE  Claim
    BY <1>2, <1>6 DEF QuarantineHosts, DropLeases, Restrict
  <1>7. ASSUME (\E h \in Hosts : Quarantine(h)) \/ Sweep
        PROVE  Claim
    BY <1>6, <1>7 DEF Quarantine, Sweep, PoolSweep
  <1>8. ASSUME (\E h \in Hosts : MarkReconciled(h)) \/ Tick \/ UNCHANGED vars
        PROVE  Claim
    BY <1>2, <1>8 DEF MarkReconciled, PoolMarkReconciled, Tick, PassTime, vars, poolVars,
      svcVars
  <1> QED
    BY <1>3, <1>4, <1>5, <1>7, <1>8 DEF Next

\* A lease is on the host that its token was granted on.
LEMMA LeaseHost ==
  ASSUME IInv, GrantedOnce, NEW h \in Hosts, NEW t \in replied[h], t \in DOMAIN leases
  PROVE  leases[t].host = h
  BY DEF IInv, GrantsKnown, GrantedOnce, TypeOK, ServiceTypeOK, PoolTypeOK, Lease

\* Quarantine moves paths from the leases it drops to the host's orphans.
LEMMA QuarantineKeepsPaths ==
  ASSUME IInv, GrantedOnce, NEW A \in SUBSET Hosts, QuarantineHosts(A),
         NEW h \in Hosts, NEW t \in replied[h], t \in pidPaths \cup orphans[h]
  PROVE  t \in pidPaths' \cup orphans'[h]
  <1>1. CASE t \in orphans[h]
    BY <1>1 DEF QuarantineHosts
  <1>2. CASE t \in pidPaths
    <2>1. t \in DOMAIN leases /\ leases[t].host = h
      BY <1>2, LeaseHost DEF IInv, OrphanCustody
    <2> QED
      BY <1>2, <2>1 DEF QuarantineHosts, DropLeases, LeasesOn
  <1> QED
    BY <1>1, <1>2

-----------------------------------------------------------------------------
(* Every step keeps the invariant *)

LEMMA UnstartedStep == DInv /\ [DNext]_dvars => Unstarted'
  <1> SUFFICES ASSUME DInv, [DNext]_dvars PROVE Unstarted'
    OBVIOUS
  <1>0. CallerTypeOK /\ TypeOK /\ Unstarted /\ [Next]_vars
    BY StepConforms DEF DInv, CallerInv, DTypeOK, CallerTypeOK, TypeOK
  <1>1. ASSUME NEW t \in Tokens, proc'[t] # "none" PROVE Granted(t)'
    <2>1. Granted(t)
      <3>1. ASSUME NEW j \in Jobs, WIssue(j), t = Token(j) PROVE Granted(t)
        BY <3>1 DEF WIssue, DInv, CallerInv, HoldersGranted, Holding
      <3> QED
        BY <3>1, <1>0, <1>1, ProcMoves DEF Unstarted
    <2> QED
      BY <2>1, <1>0, GrantIsFinal
  <1>2. ASSUME NEW j \in Jobs, NEW n \in 1 .. MaxAttempts, n > attempt'[j]
        PROVE  proc'[<<j, n>>] = "none"
    <2>1. <<j, n>> \in Tokens /\ attempt[j] \in Nat
      BY <1>0, DispatchAssumption DEF CallerTypeOK
    <2>2. n > attempt[j]
      <3>1. attempt'[j] = attempt[j] \/ attempt'[j] = attempt[j] + 1
        BY <1>0, <2>1, Moves
        DEF WorkerStep, WAcquire, WGranted, WRefused, WRegister, WIssue, EndSettled,
            EndUnsettled, WEvict, WRelease, EndEscaped, WInterrupted, WCrash, runVars,
            CallerTypeOK
      <3> QED
        BY <1>2, <2>1, <3>1
    <2>3. proc[<<j, n>>] = "none"
      BY <1>0, <2>2 DEF Unstarted
    <2>4. \A i \in Jobs : <<j, n>> # Token(i)
      BY <2>1, <2>2 DEF Token
    <2> QED
      BY <1>0, <2>1, <2>3, <2>4, ProcMoves
  <1>3. ASSUME NEW j \in Jobs, task'[j] \in {"ready", "acquiring", "leased"}
        PROVE  proc'[Token(j)'] = "none"
    <2>0. Token(j) \in Tokens
      BY TokenType DEF DInv, CallerInv
    <2>1. CASE task[j] \in {"ready", "acquiring", "leased"} /\ attempt'[j] = attempt[j]
      <3>1. proc[Token(j)] = "none" /\ Token(j)' = Token(j)
        BY <1>0, <2>1 DEF Unstarted, Token
      <3>2. \A i \in Jobs : Token(i) = Token(j) => task[i] # "running"
        BY <2>1 DEF Token
      <3> QED
        BY <1>0, <2>0, <3>1, <3>2, ProcMoves DEF WIssue
    <2>2. CASE WRelease(j)
      <3>1. attempt'[j] = attempt[j] + 1 /\ attempt[j] < MaxAttempts
        BY <1>0, <1>3, <2>2 DEF WRelease, CallerTypeOK
      <3>2. attempt[j] \in Nat /\ attempt[j] + 1 \in 1 .. MaxAttempts
        BY <1>0, <3>1, DispatchAssumption DEF CallerTypeOK
      <3>3. proc[<<j, attempt[j] + 1>>] = "none" /\ proc' = proc
        BY <1>0, <2>2, <3>2 DEF Unstarted, WRelease
      <3> QED
        BY <3>1, <3>3 DEF Token
    <2>3. CASE task'[j] = task[j] /\ attempt'[j] = attempt[j]
      BY <1>3, <2>1, <2>3
    <2>4. CASE WAcquire(j) \/ WGranted(j) \/ WRefused(j)
      BY <1>0, <2>1, <2>4 DEF WAcquire, WGranted, WRefused, Goto, CallerTypeOK
    <2>5. ~(WRegister(j) \/ EndSettled(j) \/ EndUnsettled(j) \/ WEvict(j))
      BY <1>0, <1>3 DEF WRegister, EndSettled, EndUnsettled, WEvict, Goto, CallerTypeOK
    <2>6. ~WIssue(j)
      BY <1>3 DEF WIssue, runVars
    <2>7. ~(EndEscaped(j) \/ WInterrupted(j) \/ WCrash(j))
      BY <1>0, <1>3 DEF EndEscaped, WInterrupted, WCrash, Goto, CallerTypeOK
    <2> QED
      BY <1>0, Moves, <2>2, <2>3, <2>4, <2>5, <2>6, <2>7 DEF WorkerStep
  <1> QED
    BY <1>1, <1>2, <1>3 DEF Unstarted

\* The marks of unrecorded attempts and of escapes are never taken back.
LEMMA MarksStay ==
  ASSUME [DNext]_dvars
  PROVE  unrecorded \subseteq unrecorded' /\ escaped \subseteq escaped'
  BY DEF DNext, WorkerStep, WAcquire, WGranted, WRefused, WRegister, WIssue,
         EndSettled, EndUnsettled, WEvict, WRelease, EndEscaped, WInterrupted, WCrash,
         WHeartbeat, Remote, ProcStep, SweeperStep, SweepExpired, SweepList, SweepPick,
         SweepKill, SweepGiveUp, SweepReport, ActorRecheck, ActorCancelWait, ClockTick,
         Others, marks, dvars

LEMMA ReleasesStep == DInv /\ [DNext]_dvars => ReleasesSettled'
  <1> SUFFICES ASSUME DInv, [DNext]_dvars, NEW j \in Jobs, task'[j] = "releasing"
               PROVE  (\/ proc[Token(j)] \in {"none", "dead"}
                       \/ Token(j) \notin DOMAIN leases
                       \/ Token(j) \in escaped)'
    BY DEF ReleasesSettled
  <1>0. CallerTypeOK /\ TypeOK /\ [Next]_vars /\ IInv /\ GrantedOnce /\ Token(j) \in Tokens
    BY StepConforms, TokenType DEF DInv, CallerInv, DTypeOK, CallerTypeOK, TypeOK
  <1>1. attempt'[j] = attempt[j] /\ Token(j)' = Token(j)
    BY <1>0, Moves
    DEF WorkerStep, WAcquire, WGranted, WRefused, WRegister, WIssue, EndSettled,
        EndUnsettled, WEvict, WRelease, EndEscaped, WInterrupted, WCrash, runVars,
        Token, CallerTypeOK
  <1>2. CASE task[j] # "running" /\ proc[Token(j)] \in {"none", "dead"}
    <2>1. \A i \in Jobs : Token(i) = Token(j) => task[i] # "running"
      BY <1>2 DEF Token
    <2> QED
      BY <1>0, <1>1, <1>2, <2>1, ProcMoves DEF WIssue
  <1>3. CASE Granted(Token(j)) /\ Token(j) \notin DOMAIN leases
    BY <1>0, <1>1, <1>3, GrantsOnce
  <1>10. CASE Token(j) \in escaped
    BY <1>1, <1>10, MarksStay
  <1>4. CASE task[j] = "releasing"
    BY <1>2, <1>3, <1>4, <1>10 DEF DInv, CallerInv, HoldersGranted, Holding, ReleasesSettled
  <1>5. CASE EndSettled(j)
    BY <1>1, <1>5 DEF EndSettled
  <1>6. CASE WEvict(j)
    <2>1. PICK h \in Hosts : Token(j) \in replied[h] /\ Quarantine(h)
      BY <1>6 DEF WEvict
    <2>2. Token(j) \in DOMAIN leases => leases[Token(j)].host = h
      BY <1>0, <2>1, LeaseHost
    <2> QED
      BY <1>1, <2>1, <2>2
      DEF Quarantine, QuarantineHosts, DropLeases, LeasesOn, Restrict
  <1>7. CASE WInterrupted(j)
    <2>1. task[j] \in {"leased", "releasing"}
      BY <1>0, <1>7 DEF WInterrupted, Goto, CallerTypeOK
    <2> QED
      BY <1>2, <1>4, <2>1 DEF DInv, Unstarted
  <1>11. CASE EndEscaped(j)
    BY <1>1, <1>11 DEF EndEscaped
  <1>8. ~(\/ WAcquire(j) \/ WGranted(j) \/ WRefused(j) \/ WRegister(j) \/ EndUnsettled(j)
          \/ WCrash(j) \/ WRelease(j))
    BY <1>0
    DEF WAcquire, WGranted, WRefused, WRegister, EndUnsettled, WCrash, WRelease, Goto,
        CallerTypeOK
  <1>9. ~WIssue(j)
    BY DEF WIssue, runVars
  <1> QED
    BY <1>0, Moves, <1>4, <1>5, <1>6, <1>7, <1>8, <1>9, <1>11 DEF WorkerStep

\* A worker opens an attempt only by registering it, while it holds its lease.
LEMMA OpenStep ==
  ASSUME DInv, [DNext]_dvars, NEW t \in Tokens, Open(t)'
  PROVE  Open(t) \/ \E j \in Jobs : t = Token(j) /\ WRegister(j)
  <1>0. CallerTypeOK
    BY DEF DInv, CallerInv, DTypeOK, CallerTypeOK
  <1>1. CASE MayRun(t)'
    <2>1. proc'[t] \in {"issued", "alive"}
      BY <1>1 DEF MayRun
    <2>2. ASSUME NEW j \in Jobs, WIssue(j), t = Token(j) PROVE Open(t)
      BY <2>2 DEF WIssue, Open
    <2> QED
      BY <1>0, <2>1, <2>2, ProcMoves DEF Open, MayRun
  <1>2. ASSUME proc'[t] = "none", NEW j \in Jobs, t = Token(j)', task'[j] = "running"
        PROVE  Open(t) \/ (t = Token(j) /\ WRegister(j))
    <2>1. proc[t] = "none"
      BY <1>0, <1>2, ProcMoves
    <2>2. CASE task'[j] = task[j] /\ attempt'[j] = attempt[j]
      <3>1. Token(j)' = Token(j) /\ task[j] = "running"
        BY <1>2, <2>2 DEF Token
      <3>2. t = Token(j)
        BY <1>2, <3>1
      <3> QED
        BY <2>1, <3>1, <3>2 DEF Open
    <2>3. CASE WRegister(j)
      BY <1>2, <2>3 DEF WRegister, Token
    <2>4. ~(\/ WAcquire(j) \/ WGranted(j) \/ WRefused(j) \/ EndSettled(j) \/ EndUnsettled(j)
            \/ WEvict(j) \/ WRelease(j) \/ EndEscaped(j) \/ WInterrupted(j) \/ WCrash(j))
      BY <1>0, <1>2
      DEF WAcquire, WGranted, WRefused, EndSettled, EndUnsettled, WEvict, WRelease,
          EndEscaped, WInterrupted, WCrash, Goto, CallerTypeOK
    <2>5. WIssue(j) => task'[j] = task[j] /\ attempt'[j] = attempt[j]
      BY DEF WIssue, runVars
    <2> QED
      BY <1>0, <2>2, <2>3, <2>4, <2>5, Moves DEF WorkerStep
  <1> QED
    BY <1>1, <1>2 DEF Open

\* acquire touches no path and no quarantine.
LEMMA TryAcquirePaths ==
  ASSUME NEW r \in Tokens, NEW excl \in SUBSET Hosts, TryAcquire(r, excl)
  PROVE  pidPaths' = pidPaths /\ orphans' = orphans /\ quarantined' = quarantined
  <1>1. CASE Grant(r, excl)
    BY <1>1, GrantEffect DEF TakeLease
  <1>2. CASE Refuse(r, excl) \/ Park(r, excl)
    BY <1>2 DEF Refuse, Park, poolVars
  <1> QED
    BY <1>1, <1>2 DEF TryAcquire

\* The books lose the path of an attempt only by its own release, or when a
\* sweeper reports its host.
LEMMA PathKept ==
  ASSUME DInv, [DNext]_dvars, NEW h \in Hosts, NEW t \in replied[h],
         t \in pidPaths \cup orphans[h],
         ~ \E j \in Jobs : t = Token(j) /\ t \in pidPaths /\ WRelease(j),
         ~ \E s \in Sweepers : t \in orphans[h] /\ IsNext(s, h) /\ SweepReport(s)
  PROVE  t \in pidPaths' \cup orphans'[h]
  <1>0. /\ IInv /\ GrantedOnce /\ CallerTypeOK
        /\ orphans \in [Hosts -> SUBSET Tokens] /\ excluded \in [Tokens -> SUBSET Hosts]
        /\ ExpiredHosts \subseteq Hosts /\ t \in Tokens
    BY DEF DInv, CallerInv, DTypeOK, CallerTypeOK, IInv, TypeOK, ServiceTypeOK, PoolTypeOK,
           ExpiredHosts, Lease
  <1>1. ASSUME NEW j \in Jobs, WAcquire(j)
        PROVE  t \in pidPaths' \cup orphans'[h]
    <2>1. Token(j) \in Tokens /\ Tried(j) \in SUBSET Hosts
      BY TokenType DEF DInv, CallerInv, Tried
    <2> QED
      BY <1>1, <2>1, TryAcquirePaths DEF WAcquire, Acquire
  <1>2. ASSUME NEW r \in Tokens, ActorRecheck(r)
        PROVE  t \in pidPaths' \cup orphans'[h]
    BY <1>0, <1>2, TryAcquirePaths DEF ActorRecheck, Recheck
  <1>3. ASSUME NEW j \in Jobs, WRegister(j) \/ WHeartbeat(j)
        PROVE  t \in pidPaths' \cup orphans'[h]
    BY <1>3 DEF WRegister, RegisterPid, PoolRegisterPid, WHeartbeat, Heartbeat,
                PoolHeartbeat
  <1>4. ASSUME NEW j \in Jobs, WEvict(j)
        PROVE  t \in pidPaths' \cup orphans'[h]
    BY <1>0, <1>4, QuarantineKeepsPaths DEF WEvict, Quarantine
  <1>5. ASSUME NEW s \in Sweepers, SweepExpired(s)
        PROVE  t \in pidPaths' \cup orphans'[h]
    BY <1>0, <1>5, QuarantineKeepsPaths DEF SweepExpired, Sweep, PoolSweep
  <1>6. ASSUME NEW j \in Jobs, WRelease(j)
        PROVE  t \in pidPaths' \cup orphans'[h]
    BY <1>6 DEF WRelease, Release, PoolRelease, DropLeases
  <1>7. ASSUME NEW s \in Sweepers, SweepReport(s)
        PROVE  t \in pidPaths' \cup orphans'[h]
    BY <1>0, <1>7 DEF SweepReport, MarkReconciled, PoolMarkReconciled
  <1>8. ASSUME UNCHANGED <<pidPaths, orphans>>
        PROVE  t \in pidPaths' \cup orphans'[h]
    BY <1>8
  <1> QED
    BY <1>1, <1>2, <1>3, <1>4, <1>5, <1>6, <1>7, <1>8
    DEF DNext, WorkerStep, WGranted, WRefused, WIssue, EndSettled, EndUnsettled,
        EndEscaped, WInterrupted, WCrash, Remote, ProcStep, SweeperStep, SweepList, SweepPick,
        SweepKill, SweepGiveUp, ActorCancelWait, CancelWait, ClockTick, Tick, PassTime,
        dvars, vars, poolVars

LEMMA AccountedStep == DInv /\ [DNext]_dvars => Accounted'
  <1> SUFFICES ASSUME DInv, [DNext]_dvars,
                      NEW h \in Hosts, NEW t \in replied'[h],
                      t \notin unrecorded', t \notin escaped', Open(t)'
               PROVE  t \in pidPaths' \cup orphans'[h]
    BY DEF Accounted, Known
  <1>0. /\ CallerTypeOK /\ TypeOK /\ [Next]_vars /\ IInv /\ GrantedOnce
        /\ Unstarted /\ HoldersGranted
    BY StepConforms DEF DInv, CallerInv, DTypeOK, CallerTypeOK, TypeOK
  <1>1. t \in Tokens
    BY <1>0, NextType DEF TypeOK, ServiceTypeOK
  <1>2. Open(t) \/ \E j \in Jobs : t = Token(j) /\ WRegister(j)
    BY <1>1, OpenStep
  <1>3. Granted(t)
    <2>1. ASSUME NEW j \in Jobs, t = Token(j), WRegister(j) PROVE Granted(t)
      BY <1>0, <2>1 DEF WRegister, Goto, HoldersGranted, Holding
    <2>2. ASSUME NEW j \in Jobs, t = Token(j), task[j] = "running" PROVE Granted(t)
      BY <1>0, <2>2 DEF HoldersGranted, Holding
    <2>3. ASSUME MayRun(t) PROVE Granted(t)
      BY <1>0, <1>1, <2>3 DEF MayRun, Unstarted
    <2> QED
      BY <1>2, <2>1, <2>2, <2>3 DEF Open
  <1>4. t \in replied[h]
    BY <1>0, <1>1, <1>3, GrantsOnce
  <1>5. ASSUME NEW j \in Jobs, t = Token(j), WRegister(j)
        PROVE  t \in pidPaths' \cup orphans'[h]
    BY <1>5 DEF WRegister, RegisterPid, PoolRegisterPid
  <1>6. CASE Open(t)
    <2>1. t \in Known(h)
      BY <1>4, MarksStay DEF Known
    <2>2. t \in pidPaths \cup orphans[h]
      BY <1>6, <2>1 DEF DInv, Accounted
    <2>3. ASSUME NEW j \in Jobs, t = Token(j), t \in pidPaths, WRelease(j)
          PROVE  FALSE
      <3>1. proc[t] \in {"none", "dead"} /\ proc' = proc
        BY <1>0, <2>1, <2>3
        DEF WRelease, IInv, OrphanCustody, DInv, ReleasesSettled, Known
      <3>2. proc[t] = "none" /\ \E i \in Jobs : t = Token(i)' /\ task'[i] = "running"
        BY <3>1 DEF Open, MayRun
      <3>3. task'[j] # "running"
        BY <1>0, <2>3 DEF WRelease, CallerTypeOK
      <3> QED
        BY <2>3, <3>2, <3>3 DEF Token
    <2>4. ASSUME NEW s \in Sweepers, t \in orphans[h], IsNext(s, h), SweepReport(s)
          PROVE  FALSE
      <3>1. sweep[s].at = "report" /\ proc' = proc
        BY <2>4 DEF SweepReport
      <3>2. proc[t] = "dead"
        BY <2>4, <3>1 DEF DInv, SweepsHonest
      <3> QED
        BY <3>1, <3>2 DEF Open, MayRun
    <2> QED
      BY <1>4, <2>2, <2>3, <2>4, PathKept
  <1> QED
    BY <1>2, <1>5, <1>6

\* Hosts are visited one by one.
LEMMA NextHost ==
  ASSUME NEW s \in Sweepers, sweep[s].todo \subseteq Hosts,
         NEW h \in Hosts, NEW g \in Hosts, IsNext(s, h), IsNext(s, g)
  PROVE  h = g
  BY PoolAssumption DEF IsNext

LEMMA SweepsStep == OneSweeper /\ DInv /\ [DNext]_dvars => SweepsHonest'
  <1> SUFFICES ASSUME OneSweeper, DInv, [DNext]_dvars PROVE SweepsHonest'
    OBVIOUS
  <1>0. /\ CallerTypeOK /\ TypeOK /\ IInv /\ SweepsHonest
        /\ quarantined \subseteq Hosts /\ orphans \in [Hosts -> SUBSET Tokens]
        /\ ExpiredHosts \subseteq Hosts
    BY DEF DInv, CallerInv, DTypeOK, CallerTypeOK, TypeOK, ServiceTypeOK, PoolTypeOK,
           ExpiredHosts, Lease, IInv
  <1>1. \A t \in Tokens : proc[t] = "dead" => proc'[t] = "dead"
    <2>1. ASSUME NEW j \in Jobs, WIssue(j) PROVE proc[Token(j)] = "none"
      BY <2>1 DEF WIssue
    <2> QED
      BY <1>0, <2>1, ProcMoves
  \* A step that leaves the sweepers alone
  <1>2. ASSUME UNCHANGED sweep, quarantined \subseteq quarantined',
               \A h \in quarantined : orphans'[h] = orphans[h]
        PROVE  SweepsHonest'
    <2> SUFFICES ASSUME NEW s \in Sweepers
                 PROVE  /\ sweep[s].at \in {"pick", "kill", "report"} =>
                             sweep[s].todo \subseteq quarantined'
                        /\ sweep[s].at \in {"kill", "report"} =>
                             \A h \in Hosts : IsNext(s, h) =>
                               \A t \in orphans'[h] : t \in sweep[s].paths \/ proc'[t] = "dead"
                        /\ sweep[s].at = "report" => sweep[s].paths = {}
      BY <1>2 DEF SweepsHonest, IsNext
    <2>1. sweep[s].at \in {"pick", "kill", "report"} => sweep[s].todo \subseteq quarantined
      BY <1>0 DEF SweepsHonest
    <2>2. sweep[s].at = "report" => sweep[s].paths = {}
      BY <1>0 DEF SweepsHonest
    <2>3. ASSUME sweep[s].at \in {"kill", "report"}, NEW h \in Hosts, IsNext(s, h),
                 NEW t \in orphans'[h]
          PROVE  t \in sweep[s].paths \/ proc'[t] = "dead"
      <3>1. h \in quarantined /\ orphans'[h] = orphans[h]
        BY <1>2, <2>1, <2>3 DEF IsNext
      <3> QED
        BY <1>0, <1>1, <2>3, <3>1 DEF SweepsHonest
    <2> QED
      BY <1>2, <2>1, <2>2, <2>3
  <1>3. ASSUME NEW j \in Jobs, WAcquire(j) PROVE SweepsHonest'
    <2>1. Token(j) \in Tokens /\ Tried(j) \in SUBSET Hosts
      BY TokenType DEF DInv, CallerInv, Tried
    <2>2. quarantined' = quarantined /\ orphans' = orphans /\ sweep' = sweep
      BY <1>3, <2>1, TryAcquirePaths DEF WAcquire, Acquire
    <2> QED
      BY <1>2, <2>2
  <1>4. ASSUME NEW r \in Tokens, ActorRecheck(r) PROVE SweepsHonest'
    <2>1. excluded[r] \in SUBSET Hosts
      BY <1>0 DEF TypeOK, ServiceTypeOK
    <2>2. quarantined' = quarantined /\ orphans' = orphans /\ sweep' = sweep
      BY <1>4, <2>1, TryAcquirePaths DEF ActorRecheck, Recheck, Others
    <2> QED
      BY <1>2, <2>2
  <1>5. ASSUME NEW j \in Jobs, WEvict(j) PROVE SweepsHonest'
    <2>1. PICK h \in Hosts : QuarantineHosts({h})
      BY <1>5 DEF WEvict, Quarantine
    <2>2. quarantined' = quarantined \cup {h} /\ sweep' = sweep
      BY <1>5, <2>1 DEF WEvict, QuarantineHosts
    <2>3. \A g \in quarantined : orphans'[g] = orphans[g]
      BY <1>0, <2>1, QuarantineWork
    <2> QED
      BY <1>2, <2>2, <2>3
  <1>6. ASSUME NEW s \in Sweepers, SweepExpired(s) PROVE SweepsHonest'
    <2>1. sweep'[s].at = "list"
      BY <1>0, <1>6 DEF SweepExpired, Visit, CallerTypeOK
    <2> QED
      BY <2>1 DEF SweepsHonest, OneSweeper
  <1>7. ASSUME NEW s \in Sweepers, SweepList(s) PROVE SweepsHonest'
    <2>1. /\ sweep'[s].todo = quarantined /\ sweep'[s].at \in {"idle", "pick"}
          /\ quarantined' = quarantined
      BY <1>0, <1>7 DEF SweepList, VisitNext, Visit, CallerTypeOK, vars, poolVars
    <2> QED
      BY <2>1 DEF SweepsHonest, OneSweeper
  <1>8. ASSUME NEW s \in Sweepers, SweepPick(s) PROVE SweepsHonest'
    <2>1. PICK h \in Hosts :
            /\ IsNext(s, h)
            /\ IF orphans[h] = {} THEN VisitNext(s, sweep[s].todo \ {h})
               ELSE Visit(s, "kill", sweep[s].todo, orphans[h])
      BY <1>8 DEF SweepPick
    <2>2. /\ quarantined' = quarantined /\ orphans' = orphans
          /\ sweep[s].todo \subseteq quarantined
      BY <1>0, <1>8 DEF SweepPick, vars, poolVars, SweepsHonest
    <2>3. CASE orphans[h] = {}
      <3>1. sweep'[s].todo \subseteq quarantined /\ sweep'[s].at \in {"idle", "pick"}
        BY <1>0, <2>1, <2>2, <2>3 DEF VisitNext, Visit, CallerTypeOK
      <3> QED
        BY <2>2, <3>1 DEF SweepsHonest, OneSweeper
    <2>4. CASE orphans[h] # {}
      <3>1. /\ sweep'[s].todo = sweep[s].todo /\ sweep'[s].at = "kill"
            /\ sweep'[s].paths = orphans[h]
        BY <1>0, <2>1, <2>4 DEF Visit, CallerTypeOK
      <3>2. \A g \in Hosts : IsNext(s, g)' => g = h
        BY <1>0, <2>1, <2>2, <3>1, NextHost DEF IsNext
      <3> QED
        BY <2>2, <3>1, <3>2 DEF SweepsHonest, OneSweeper
    <2> QED
      BY <2>3, <2>4
  <1>9. ASSUME NEW s \in Sweepers, SweepKill(s) PROVE SweepsHonest'
    <2>1. PICK p \in sweep[s].paths :
            /\ proc' = [proc EXCEPT ![p] = "dead"]
            /\ Visit(s, IF sweep[s].paths = {p} THEN "report" ELSE "kill",
                     sweep[s].todo, sweep[s].paths \ {p})
      BY <1>9 DEF SweepKill
    <2>2. /\ sweep[s].at = "kill" /\ quarantined' = quarantined /\ orphans' = orphans
          /\ sweep[s].paths \subseteq Tokens
      BY <1>0, <1>9 DEF SweepKill, vars, poolVars, CallerTypeOK
    <2>3. proc'[p] = "dead"
      BY <1>0, <2>1, <2>2 DEF CallerTypeOK
    <2>4. /\ sweep'[s].todo = sweep[s].todo /\ sweep'[s].at \in {"kill", "report"}
          /\ sweep'[s].paths = sweep[s].paths \ {p}
          /\ sweep'[s].at = "report" => sweep[s].paths = {p}
      BY <1>0, <2>1 DEF Visit, CallerTypeOK
    <2>5. ASSUME NEW h \in Hosts, IsNext(s, h), NEW t \in orphans[h]
          PROVE  t \in sweep'[s].paths \/ proc'[t] = "dead"
      BY <1>0, <1>1, <2>2, <2>3, <2>4, <2>5 DEF SweepsHonest
    <2>6. \A h \in Hosts : IsNext(s, h)' => IsNext(s, h)
      BY <2>4 DEF IsNext
    <2>7. sweep[s].todo \subseteq quarantined
      BY <1>0, <2>2 DEF SweepsHonest
    <2> QED
      BY <2>2, <2>4, <2>5, <2>6, <2>7 DEF SweepsHonest, OneSweeper
  <1>10. ASSUME NEW s \in Sweepers, SweepGiveUp(s) \/ SweepReport(s) PROVE SweepsHonest'
    <2>1. PICK h \in Hosts : /\ VisitNext(s, sweep[s].todo \ {h})
                             /\ quarantined \ {h} \subseteq quarantined'
      BY <1>10 DEF SweepGiveUp, SweepReport, MarkReconciled, PoolMarkReconciled, vars,
                   poolVars
    <2>2. sweep[s].todo \subseteq quarantined
      BY <1>0, <1>10 DEF SweepGiveUp, SweepReport, SweepsHonest
    <2>3. /\ sweep'[s].todo = sweep[s].todo \ {h} /\ sweep'[s].at \in {"idle", "pick"}
      BY <1>0, <2>1 DEF VisitNext, Visit, CallerTypeOK
    <2> QED
      BY <2>1, <2>2, <2>3 DEF SweepsHonest, OneSweeper
  <1>11. ASSUME UNCHANGED <<sweep, quarantined, orphans>> PROVE SweepsHonest'
    BY <1>2, <1>11
  <1> QED
    BY <1>3, <1>4, <1>5, <1>6, <1>7, <1>8, <1>9, <1>10, <1>11
    DEF DNext, WorkerStep, WGranted, WRefused, WRegister, RegisterPid, PoolRegisterPid,
        WIssue, EndSettled, EndUnsettled, WRelease, Release, PoolRelease, EndEscaped,
        WInterrupted, WCrash, WHeartbeat, Heartbeat, PoolHeartbeat, Remote, ProcStep, SweeperStep,
        ActorCancelWait, CancelWait, ClockTick, Tick, PassTime, Others, dvars, vars,
        poolVars

\* Only the sweeper's report takes work off a host.
LEMMA OrphanStays ==
  ASSUME DInv, [DNext]_dvars, NEW h \in Hosts, NEW t \in orphans[h], t \notin orphans'[h]
  PROVE  \E s \in Sweepers : IsNext(s, h) /\ SweepReport(s)
  <1>0. orphans \in [Hosts -> SUBSET Tokens] /\ excluded \in [Tokens -> SUBSET Hosts]
    BY DEF DInv, IInv, TypeOK, ServiceTypeOK, PoolTypeOK
  <1>1. ASSUME NEW j \in Jobs PROVE ~WAcquire(j)
    <2>1. Token(j) \in Tokens /\ Tried(j) \in SUBSET Hosts
      BY TokenType DEF DInv, CallerInv, Tried
    <2> QED
      BY <2>1, TryAcquirePaths DEF WAcquire, Acquire
  <1>2. ASSUME NEW r \in Tokens PROVE ~ActorRecheck(r)
    BY <1>0, TryAcquirePaths DEF ActorRecheck, Recheck
  <1>3. ASSUME NEW A PROVE ~QuarantineHosts(A)
    BY <1>0 DEF QuarantineHosts
  <1>4. ASSUME NEW s \in Sweepers, SweepReport(s) PROVE IsNext(s, h)
    BY <1>0, <1>4 DEF SweepReport, MarkReconciled, PoolMarkReconciled
  <1>5. ~UNCHANGED orphans
    OBVIOUS
  <1> QED
    BY <1>1, <1>2, <1>3, <1>4, <1>5
    DEF DNext, WorkerStep, WGranted, WRefused, WRegister, RegisterPid, PoolRegisterPid,
        WIssue, EndSettled, EndUnsettled, WEvict, Quarantine, WRelease, Release,
        PoolRelease, EndEscaped, WInterrupted, WCrash, WHeartbeat, Heartbeat,
        PoolHeartbeat, Remote, ProcStep, SweeperStep, SweepExpired, Sweep, PoolSweep,
        SweepList, SweepPick, SweepKill, SweepGiveUp, ActorCancelWait, CancelWait, ClockTick, Tick, PassTime,
        Others, dvars, vars, poolVars

-----------------------------------------------------------------------------
(* The invariant and what it gives *)

LEMMA AccountsInit == DInit => DInv
  <1> SUFFICES ASSUME DInit PROVE DInv
    OBVIOUS
  <1>1. CallerInv /\ IInv
    BY CallerInit, InitInv DEF DInit, Init
  <1>2. GrantedOnce /\ Accounted
    BY DEF DInit, ServiceInit, GrantedOnce, Accounted, Known
  <1>3. Unstarted
    BY <1>1, TokenType, DispatchAssumption DEF DInit, Unstarted, CallerInv
  <1>4. ReleasesSettled /\ SweepsHonest
    BY DEF DInit, ReleasesSettled, SweepsHonest
  <1> QED
    BY <1>1, <1>2, <1>3, <1>4 DEF DInv

LEMMA AccountsStep == OneSweeper /\ DInv /\ [DNext]_dvars => DInv'
  <1> SUFFICES ASSUME OneSweeper, DInv, [DNext]_dvars PROVE DInv'
    OBVIOUS
  <1>1. CallerInv' /\ [Next]_vars
    BY CallerStep, StepConforms DEF DInv
  <1>2. IInv'
    BY <1>1, NextInv DEF DInv
  <1>3. GrantedOnce'
    BY <1>1, GrantsOnce DEF DInv
  <1> QED
    BY <1>1, <1>2, <1>3, UnstartedStep, ReleasesStep, AccountedStep, SweepsStep DEF DInv

\* With one sweeper, a process that may run on a host and was recorded holds a
\* lease there, or the host is out of service: no capacity is handed out on top
\* of a process left by an evicted, crashed or cancelled worker, for any number
\* of hosts, slots, jobs and attempts.
THEOREM Accounting == ASSUME OneSweeper PROVE DSpec => []ProcAccountedFor
  <1>1. DInv => ProcAccountedFor
    <2> SUFFICES ASSUME DInv, NEW h \in Hosts, NEW t \in Known(h), MayRun(t)
                 PROVE  t \in DOMAIN leases \/ h \in quarantined
      BY DEF ProcAccountedFor
    <2>1. t \in pidPaths \cup orphans[h]
      BY DEF DInv, Accounted, Open
    <2> QED
      BY <2>1 DEF DInv, IInv, OrphanCustody
  <1> QED
    BY <1>1, OneSweeper, AccountsInit, AccountsStep, PTL DEF DSpec

\* With one sweeper, the pid.json path of an evicted attempt is dropped only
\* once the process it leads to is gone.
THEOREM OrphanMetadata == ASSUME OneSweeper PROVE DSpec => OrphanMetadataKept
  <1>1. ASSUME DInv, [DNext]_dvars, NEW h \in Hosts, NEW t \in orphans[h] \ orphans'[h]
        PROVE  proc[t] = "dead"
    <2>1. PICK s \in Sweepers : IsNext(s, h) /\ SweepReport(s)
      BY <1>1, OrphanStays
    <2> QED
      BY <1>1, <2>1 DEF SweepReport, DInv, SweepsHonest
  <1>2. DInv /\ [DNext]_dvars =>
          [\A h \in Hosts : \A t \in orphans[h] \ orphans'[h] : proc[t] = "dead"]_dvars
    BY <1>1
  <1> QED
    BY <1>2, OneSweeper, AccountsInit, AccountsStep, PTL DEF DSpec, OrphanMetadataKept

-----------------------------------------------------------------------------
(* How much a host carries *)

\* The recorded attempts whose process may run on host h, now or later.
OpenOn(h) == {t \in Known(h) : Open(t)}

\* While a host is quarantined, what is left on it fitted into its slots.
Carried ==
    \A h \in quarantined :
        IsFiniteSet(OpenOn(h)) /\ Cardinality(OpenOn(h)) <= Slots[h]

\* Live leases on a host have a slot each.
LEMMA LeasesFit ==
  ASSUME IInv, NEW h \in Hosts
  PROVE  IsFiniteSet(LeasesOn({h})) /\ Cardinality(LeasesOn({h})) <= Slots[h]
  <1> DEFINE slotOf == [t \in LeasesOn({h}) |-> leases[t].slot]
  <1>1. slotOf \in Injection(LeasesOn({h}), SlotsOf(h))
    <2>1. \A t \in LeasesOn({h}) : leases[t].slot \in SlotsOf(h)
      BY DEF IInv, SlotsMatchLeases
    <2>2. \A t, u \in LeasesOn({h}) : leases[t].slot = leases[u].slot => t = u
      BY DEF IInv, SlotsMatchLeases, LeasesOn
    <2> QED
      BY <2>1, <2>2 DEF Injection, IsInjective
  <1>2. 0 \in Int /\ Slots[h] - 1 \in Int /\ Slots[h] \in Nat \ {0}
    BY PoolAssumption
  <1>3. IsFiniteSet(SlotsOf(h)) /\ Cardinality(SlotsOf(h)) = Slots[h]
    <2>1. /\ IsFiniteSet(0 .. (Slots[h] - 1))
          /\ Cardinality(0 .. (Slots[h] - 1)) =
               IF 0 > Slots[h] - 1 THEN 0 ELSE (Slots[h] - 1) - 0 + 1
      BY <1>2, FS_Interval, Zenon
    <2> QED
      BY <1>2, <2>1 DEF SlotsOf
  <1> QED
    BY <1>1, <1>3, FS_Injection

\* On a host in service, what may run works under a live lease there.
LEMMA OpenHoldsLease ==
  ASSUME DInv, NEW h \in Hosts \ quarantined
  PROVE  OpenOn(h) \subseteq LeasesOn({h})
  <1> SUFFICES ASSUME NEW t \in OpenOn(h) PROVE t \in LeasesOn({h})
    OBVIOUS
  <1>1. t \in DOMAIN leases
    BY DEF DInv, Accounted, OpenOn, IInv, OrphanCustody
  <1>2. leases[t].host \in Hosts /\ t \in replied[leases[t].host]
    BY <1>1 DEF DInv, IInv, TypeOK, ServiceTypeOK, PoolTypeOK, Lease, GrantsKnown
  <1>3. leases[t].host = h
    BY <1>2 DEF OpenOn, Known, DInv, GrantedOnce
  <1> QED
    BY <1>1, <1>3 DEF LeasesOn

\* An attempt is opened only under a live lease.
LEMMA OpenGrows ==
  ASSUME DInv, [DNext]_dvars, NEW h \in Hosts, NEW t \in OpenOn(h)'
  PROVE  \/ t \in OpenOn(h)
         \/ \E j \in Jobs : t = Token(j) /\ WRegister(j) /\ t \in DOMAIN leases /\ t \in replied[h]
  <1>0. /\ CallerTypeOK /\ TypeOK /\ [Next]_vars /\ IInv /\ GrantedOnce
        /\ Unstarted /\ HoldersGranted
    BY StepConforms DEF DInv, CallerInv, DTypeOK, CallerTypeOK, TypeOK
  <1>1. t \in Tokens /\ t \in replied'[h] /\ t \in Known(h)' /\ Open(t)'
    BY <1>0, NextType DEF TypeOK, ServiceTypeOK, OpenOn, Known
  <1>2. Open(t) \/ \E j \in Jobs : t = Token(j) /\ WRegister(j)
    BY <1>1, OpenStep
  <1>3. Granted(t)
    <2>1. ASSUME NEW j \in Jobs, t = Token(j), WRegister(j) PROVE Granted(t)
      BY <1>0, <2>1 DEF WRegister, Goto, HoldersGranted, Holding
    <2>2. ASSUME NEW j \in Jobs, t = Token(j), task[j] = "running" PROVE Granted(t)
      BY <1>0, <2>2 DEF HoldersGranted, Holding
    <2>3. ASSUME MayRun(t) PROVE Granted(t)
      BY <1>0, <1>1, <2>3 DEF MayRun, Unstarted
    <2> QED
      BY <1>2, <2>1, <2>2, <2>3 DEF Open
  <1>4. t \in replied[h]
    BY <1>0, <1>1, <1>3, GrantsOnce
  <1>5. t \in Known(h)
    BY <1>1, <1>4, MarksStay DEF Known
  <1>6. ASSUME NEW j \in Jobs, t = Token(j), WRegister(j) PROVE t \in DOMAIN leases
    BY <1>1, <1>6 DEF WRegister, Known
  <1> QED
    BY <1>2, <1>4, <1>5, <1>6 DEF OpenOn

LEMMA CarriedStep == DInv /\ Carried /\ [DNext]_dvars => Carried'
  <1> SUFFICES ASSUME DInv, Carried, [DNext]_dvars, NEW h \in quarantined'
               PROVE  (IsFiniteSet(OpenOn(h)) /\ Cardinality(OpenOn(h)) <= Slots[h])'
    BY DEF Carried
  <1>0. /\ IInv /\ IInv' /\ h \in Hosts /\ Slots[h] \in Nat
        /\ quarantined \subseteq Hosts
    <2>1. IInv /\ IInv'
      BY CallerStep, StepConforms, NextInv DEF DInv
    <2> QED
      BY <2>1, PoolAssumption DEF IInv, TypeOK, ServiceTypeOK, PoolTypeOK
  <1>1. IsFiniteSet(OpenOn(h)) /\ Cardinality(OpenOn(h)) <= Slots[h]
    <2>1. CASE h \in quarantined
      BY <2>1 DEF Carried
    <2>2. CASE h \notin quarantined
      <3>1. OpenOn(h) \in SUBSET LeasesOn({h})
        BY <1>0, <2>2, OpenHoldsLease
      <3>2. IsFiniteSet(LeasesOn({h})) /\ Cardinality(LeasesOn({h})) <= Slots[h]
        BY <1>0, LeasesFit
      <3>3. /\ IsFiniteSet(OpenOn(h)) /\ Cardinality(OpenOn(h)) \in Nat
            /\ Cardinality(LeasesOn({h})) \in Nat
            /\ Cardinality(OpenOn(h)) <= Cardinality(LeasesOn({h}))
        BY <3>1, <3>2, FS_Subset, FS_CardinalityType
      <3> QED
        BY <1>0, <3>2, <3>3
    <2> QED
      BY <2>1, <2>2
  <1>2. OpenOn(h)' \subseteq OpenOn(h)
    <2> SUFFICES ASSUME NEW t \in OpenOn(h)', t \notin OpenOn(h) PROVE FALSE
      OBVIOUS
    <2>1. PICK j \in Jobs : WRegister(j) /\ t \in DOMAIN leases /\ t \in replied[h]
      BY <1>0, OpenGrows
    <2>2. h \in quarantined
      BY <2>1 DEF WRegister, RegisterPid, PoolRegisterPid
    <2>3. leases[t].host \in Hosts /\ t \in replied[leases[t].host]
      BY <1>0, <2>1 DEF IInv, TypeOK, ServiceTypeOK, PoolTypeOK, Lease, GrantsKnown
    <2>4. leases[t].host = h
      BY <1>0, <2>1, <2>3 DEF DInv, GrantedOnce
    <2> QED
      BY <1>0, <2>1, <2>2, <2>4 DEF IInv, QuarantineIsEmpty
  <1>3. /\ IsFiniteSet(OpenOn(h)') /\ Cardinality(OpenOn(h)') \in Nat
        /\ Cardinality(OpenOn(h)) \in Nat
        /\ Cardinality(OpenOn(h)') <= Cardinality(OpenOn(h))
    BY <1>1, <1>2, FS_Subset, FS_CardinalityType
  <1> QED
    BY <1>0, <1>1, <1>3

\* With one sweeper, no host is ever given more jobs than it has slots, for any
\* number of hosts, slots, jobs and attempts: crashed, cancelled and evicted
\* attempts that may still run are counted.
THEOREM NoOverloadTheorem == ASSUME OneSweeper PROVE DSpec => []NoOverload
  <1>1. DInit => Carried
    BY DEF DInit, ServiceInit, PoolInit, Carried
  <1>2. DInv /\ Carried => NoOverload
    <2> SUFFICES ASSUME DInv, Carried, NEW h \in Hosts
                 PROVE  Cardinality(Load(h)) <= Slots[h]
      BY DEF NoOverload
    <2>0. Slots[h] \in Nat
      BY PoolAssumption
    <2>1. Load(h) \subseteq OpenOn(h)
      BY DEF Load, OpenOn, Open
    <2>2. PICK S : IsFiniteSet(S) /\ Cardinality(S) <= Slots[h] /\ OpenOn(h) \subseteq S
      <3>1. CASE h \in quarantined
        BY <3>1 DEF Carried
      <3>2. CASE h \notin quarantined
        BY <3>2, LeasesFit, OpenHoldsLease DEF DInv
      <3> QED
        BY <3>1, <3>2
    <2>3. Load(h) \in SUBSET S
      BY <2>1, <2>2
    <2>4. /\ Cardinality(Load(h)) \in Nat /\ Cardinality(S) \in Nat
          /\ Cardinality(Load(h)) <= Cardinality(S)
      BY <2>2, <2>3, FS_Subset, FS_CardinalityType
    <2> QED
      BY <2>0, <2>2, <2>4
  <1> QED
    BY <1>1, <1>2, OneSweeper, AccountsInit, AccountsStep, CarriedStep, PTL DEF DSpec

-----------------------------------------------------------------------------
(* How slots pass from one job to the next *)

\* A lease appears only by a grant, in a slot that was free.
LEMMA NewLease ==
  ASSUME IInv, [Next]_vars, NEW t \in DOMAIN leases' \ DOMAIN leases
  PROVE  \E h \in LiveHosts : \E s \in SlotsOf(h) \ used[h] :
            leases'[t] = [host |-> h, slot |-> s, left |-> LeaseTtl]
  <1> DEFINE Claim == \E h \in LiveHosts : \E s \in SlotsOf(h) \ used[h] :
                         leases'[t] = [host |-> h, slot |-> s, left |-> LeaseTtl]
  <1>1. ASSUME NEW r \in Tokens, NEW excl \in SUBSET Hosts, TryAcquire(r, excl)
        PROVE  Claim
    <2>1. CASE Grant(r, excl)
      <3>1. PICK h \in LiveHosts : \E s \in SlotsOf(h) \ used[h] : TakeLease(r, h, s)
        BY <2>1, GrantEffect
      <3>2. PICK s \in SlotsOf(h) \ used[h] : TakeLease(r, h, s)
        BY <3>1
      <3>3. leases'[t] = [host |-> h, slot |-> s, left |-> LeaseTtl]
        BY <3>2 DEF TakeLease
      <3> QED
        BY <3>3
    <2>2. CASE Refuse(r, excl) \/ Park(r, excl)
      BY <2>2 DEF Refuse, Park, poolVars
    <2> QED
      BY <1>1, <2>1, <2>2 DEF TryAcquire
  <1>2. ASSUME DOMAIN leases' \subseteq DOMAIN leases PROVE FALSE
    BY <1>2
  <1>3. ASSUME NEW D, DropLeases(D) PROVE FALSE
    BY <1>3 DEF DropLeases, Restrict
  <1>4. ASSUME NEW r \in Tokens, Recheck(r) PROVE Claim
    BY <1>1, <1>4 DEF Recheck, IInv, TypeOK, ServiceTypeOK
  <1> QED
    BY <1>1, <1>2, <1>3, <1>4
    DEF Next, Acquire, CancelWait, Release, PoolRelease, RegisterPid, PoolRegisterPid,
        Heartbeat, PoolHeartbeat, Quarantine, QuarantineHosts, MarkReconciled,
        PoolMarkReconciled, Sweep, PoolSweep, Tick, PassTime, vars, poolVars

\* The promise of the design: with one sweeper, no slot passes to a new job
\* while the process of an old recorded one may be running in it, for any number
\* of hosts, slots, jobs and attempts.
THEOREM SlotsPassQuietTheorem == ASSUME OneSweeper PROVE DSpec => SlotsPassQuiet
  <1>1. ASSUME DInv, [DNext]_dvars, NEW t \in DOMAIN leases' \ DOMAIN leases,
               NEW u \in Load(leases'[t].host)
        PROVE  /\ u \in DOMAIN leases
               /\ leases[u].host = leases'[t].host
               /\ leases[u].slot # leases'[t].slot
    <2>1. IInv /\ [Next]_vars
      BY <1>1, StepConforms DEF DInv
    <2>2. PICK h \in LiveHosts : \E s \in SlotsOf(h) \ used[h] :
            leases'[t] = [host |-> h, slot |-> s, left |-> LeaseTtl]
      BY <1>1, <2>1, NewLease
    <2>3. u \in OpenOn(h) /\ h \in Hosts \ quarantined
      BY <1>1, <2>2 DEF Load, OpenOn, Open, LiveHosts
    <2>4. u \in LeasesOn({h})
      BY <1>1, <2>3, OpenHoldsLease
    <2>5. leases[u].slot \in used[h]
      BY <2>1, <2>3, <2>4 DEF IInv, SlotsMatchLeases
    <2> QED
      BY <2>2, <2>4, <2>5 DEF LeasesOn
  <1>2. DInv /\ [DNext]_dvars =>
          [\A t \in DOMAIN leases' \ DOMAIN leases : \A u \in Load(leases'[t].host) :
              /\ u \in DOMAIN leases
              /\ leases[u].host = leases'[t].host
              /\ leases[u].slot # leases'[t].slot]_dvars
    BY <1>1
  <1> QED
    BY <1>2, OneSweeper, AccountsInit, AccountsStep, PTL DEF DSpec, SlotsPassQuiet

-----------------------------------------------------------------------------
(* The host that no sweep readmits *)

\* Host h is out of service and nothing is known that a sweep could reconcile.
Stranded(h) ==
    /\ h \in quarantined
    /\ orphans[h] = {}
    /\ \A s \in Sweepers : sweep[s].at \in {"kill", "report"} => ~IsNext(s, h)

\* Only the report of a sweeper readmits a host.
LEMMA Readmission ==
  ASSUME CallerInv, IInv, [DNext]_dvars, NEW h \in quarantined, h \notin quarantined'
  PROVE  \E s \in Sweepers : IsNext(s, h) /\ SweepReport(s)
  <1>0. excluded \in [Tokens -> SUBSET Hosts]
    BY DEF IInv, TypeOK, ServiceTypeOK
  <1>1. ASSUME NEW j \in Jobs PROVE ~WAcquire(j)
    <2>1. Token(j) \in Tokens /\ Tried(j) \in SUBSET Hosts
      BY TokenType DEF CallerInv, Tried
    <2> QED
      BY <2>1, TryAcquirePaths DEF WAcquire, Acquire
  <1>2. ASSUME NEW r \in Tokens PROVE ~ActorRecheck(r)
    BY <1>0, TryAcquirePaths DEF ActorRecheck, Recheck
  <1>3. ASSUME NEW A PROVE ~QuarantineHosts(A)
    BY DEF QuarantineHosts
  <1>4. ASSUME NEW s \in Sweepers, SweepReport(s) PROVE IsNext(s, h)
    BY <1>4 DEF SweepReport, MarkReconciled, PoolMarkReconciled
  <1>5. ~UNCHANGED quarantined
    OBVIOUS
  <1> QED
    BY <1>1, <1>2, <1>3, <1>4, <1>5
    DEF DNext, WorkerStep, WGranted, WRefused, WRegister, RegisterPid, PoolRegisterPid,
        WIssue, EndSettled, EndUnsettled, WEvict, Quarantine, WRelease, Release,
        PoolRelease, EndEscaped, WInterrupted, WCrash, WHeartbeat, Heartbeat,
        PoolHeartbeat, Remote, ProcStep, SweeperStep, SweepExpired, Sweep, PoolSweep,
        SweepList, SweepPick, SweepKill, SweepGiveUp, ActorCancelWait, CancelWait, ClockTick, Tick, PassTime,
        Others, dvars, vars, poolVars

\* A sweeper begins to reconcile only a host that has something to reconcile.
LEMMA SweepersTurn ==
  ASSUME CallerInv, [DNext]_dvars, NEW s \in Sweepers, NEW h \in Hosts,
         sweep'[s].at \in {"kill", "report"}, IsNext(s, h)'
  PROVE  \/ sweep[s].at \in {"kill", "report"} /\ IsNext(s, h)
         \/ orphans[h] # {}
  <1>0. CallerTypeOK
    BY DEF CallerInv, DTypeOK, CallerTypeOK
  <1>1. CASE sweep'[s] = sweep[s]
    BY <1>1 DEF IsNext
  <1>2. ASSUME NEW u \in Sweepers, u # s, SweeperStep(u)
        PROVE  sweep'[s] = sweep[s]
    BY <1>0, <1>2
    DEF SweeperStep, SweepExpired, SweepList, SweepPick, SweepKill, SweepGiveUp,
        SweepReport, VisitNext, Visit, CallerTypeOK
  <1>3. ~(SweepExpired(s) \/ SweepList(s) \/ SweepGiveUp(s) \/ SweepReport(s))
    BY <1>0 DEF SweepExpired, SweepList, SweepGiveUp, SweepReport, VisitNext, Visit,
                CallerTypeOK
  <1>4. CASE SweepPick(s)
    <2>1. PICK g \in Hosts :
            /\ IsNext(s, g)
            /\ IF orphans[g] = {} THEN VisitNext(s, sweep[s].todo \ {g})
               ELSE Visit(s, "kill", sweep[s].todo, orphans[g])
      BY <1>4 DEF SweepPick
    <2>2. orphans[g] # {} /\ sweep'[s].todo = sweep[s].todo
      BY <1>0, <2>1 DEF VisitNext, Visit, CallerTypeOK
    <2>3. IsNext(s, h)
      BY <2>2 DEF IsNext
    <2>4. g = h
      BY <1>0, <2>1, <2>3, NextHost DEF CallerTypeOK
    <2> QED
      BY <2>2, <2>4
  <1>5. CASE SweepKill(s)
    <2>1. sweep'[s].todo = sweep[s].todo /\ sweep[s].at = "kill"
      BY <1>0, <1>5 DEF SweepKill, Visit, CallerTypeOK
    <2> QED
      BY <2>1 DEF IsNext
  <1>6. CASE UNCHANGED sweep
    BY <1>6, <1>1
  <1> QED
    BY <1>1, <1>2, <1>3, <1>4, <1>5, <1>6
    DEF DNext, WorkerStep, WAcquire, WGranted, WRefused, WRegister, WIssue, EndSettled,
        EndUnsettled, WEvict, WRelease, EndEscaped, WInterrupted, WCrash, WHeartbeat, Remote,
        ProcStep, SweeperStep, ActorRecheck, ActorCancelWait, ClockTick, Others, dvars

LEMMA StrandedStays ==
  ASSUME NEW h \in Hosts
  PROVE  CallerInv /\ IInv /\ Stranded(h) /\ [DNext]_dvars => Stranded(h)'
  <1> SUFFICES ASSUME CallerInv, IInv, Stranded(h), [DNext]_dvars PROVE Stranded(h)'
    OBVIOUS
  <1>1. h \in quarantined'
    BY Readmission DEF Stranded, SweepReport
  <1>2. orphans'[h] = {}
    BY <1>1, StepConforms, WorkKept DEF Stranded
  <1>3. \A s \in Sweepers : sweep'[s].at \in {"kill", "report"} => ~IsNext(s, h)'
    BY SweepersTurn DEF Stranded
  <1> QED
    BY <1>1, <1>2, <1>3 DEF Stranded

\* A host quarantined without a recorded path (by a late eviction, or with a
\* job that never registered) stays out of service for the rest of the session,
\* however many sweepers run and whatever the workers do.
THEOREM StrandedForever ==
  ASSUME NEW h \in Hosts
  PROVE  DSpec => [](Stranded(h) => [](h \in quarantined))
  <1>1. DInit => CallerInv /\ IInv
    BY CallerInit, InitInv DEF DInit, Init
  <1>2. CallerInv /\ IInv /\ [DNext]_dvars => CallerInv' /\ IInv'
    BY CallerStep, StepConforms, NextInv
  <1>3. Stranded(h) => h \in quarantined
    BY DEF Stranded
  <1> QED
    BY <1>1, <1>2, <1>3, StrandedStays, PTL DEF DSpec

=============================================================================
