--------------------------- MODULE DispatchProofs ---------------------------
(***************************************************************************)
(* Proofs about Dispatch: the workers and the sweepers use the lease       *)
(* service only as LeaseService allows, for any number of jobs, attempts   *)
(* and sweepers, so every theorem of LeaseServiceProofs holds here too.    *)
(***************************************************************************)
EXTENDS Dispatch, LeaseServiceProofs

CallerInv == DTypeOK /\ HoldersGranted

\* The worker's token is one of the service's tokens.
LEMMA TokenType ==
  ASSUME DTypeOK, NEW j \in Jobs
  PROVE  Token(j) \in Tokens
  BY DispatchAssumption DEF Token, DTypeOK

\* A grant is final.
LEMMA GrantIsFinal ==
  ASSUME TypeOK, [Next]_vars, NEW t \in Tokens, Granted(t)
  PROVE  Granted(t)'
  <1> USE DEF Granted, TypeOK, ServiceTypeOK
  <1>1. ASSUME NEW r \in Tokens, NEW excl \in SUBSET Hosts,
               TryAcquire(r, excl), request[r] # "granted"
        PROVE  Granted(t)'
    <2>1. \E s \in Stages : request' = [request EXCEPT ![r] = s]
      BY <1>1 DEF TryAcquire, Grant, Refuse, Park, Stages
    <2> QED
      BY <2>1, <1>1
  <1>2. ASSUME NEW r \in Tokens, NEW excl \in SUBSET Hosts, Acquire(r, excl)
        PROVE  Granted(t)'
    BY <1>2, <1>1 DEF Acquire
  <1>3. ASSUME NEW r \in Tokens, Recheck(r)
        PROVE  Granted(t)'
    BY <1>3, <1>1 DEF Recheck
  <1>4. ASSUME NEW r \in Tokens, CancelWait(r)
        PROVE  Granted(t)'
    BY <1>4 DEF CancelWait, Waiting
  <1>5. ASSUME NotifyAll \/ UNCHANGED request
        PROVE  Granted(t)'
    BY <1>5 DEF NotifyAll
  <1> QED
    BY <1>2, <1>3, <1>4, <1>5
    DEF Next, Release, RegisterPid, Heartbeat, Quarantine, MarkReconciled, Sweep,
        Tick, vars, svcVars

-----------------------------------------------------------------------------
(* Every step is a step of the service *)

LEMMA StepConforms == CallerInv /\ [DNext]_dvars => [Next]_vars
  <1> SUFFICES ASSUME CallerInv, [DNext]_dvars PROVE [Next]_vars
    OBVIOUS
  <1> USE DEF CallerInv
  <1>1. ASSUME NEW j \in Jobs, WAcquire(j)
        PROVE  Next
    <2>1. Token(j) \in Tokens /\ Tried(j) \in SUBSET Hosts
      BY TokenType DEF Tried
    <2>2. Acquire(Token(j), Tried(j))
      BY <1>1 DEF WAcquire
    <2> QED
      BY <2>1, <2>2 DEF Next
  <1>2. ASSUME NEW j \in Jobs, WRegister(j)
        PROVE  Next
    <2>1. Token(j) \in Tokens /\ Granted(Token(j)) /\ RegisterPid(Token(j))
      BY <1>2, TokenType DEF WRegister, Goto, HoldersGranted, Holding
    <2> QED
      BY <2>1 DEF Next
  <1>3. ASSUME NEW j \in Jobs, WEvict(j)
        PROVE  Next
    <2>1. PICK h \in Hosts : Token(j) \in replied[h] /\ Quarantine(h)
      BY <1>3 DEF WEvict
    <2> QED
      BY <2>1 DEF Next
  <1>4. ASSUME NEW j \in Jobs, WRelease(j)
        PROVE  Next
    <2>1. Token(j) \in Tokens /\ Granted(Token(j)) /\ Release(Token(j))
      BY <1>4, TokenType DEF WRelease, HoldersGranted, Holding
    <2> QED
      BY <2>1 DEF Next
  <1>5. ASSUME NEW j \in Jobs, WHeartbeat(j)
        PROVE  Next
    <2>1. Token(j) \in Tokens /\ Granted(Token(j)) /\ Heartbeat(Token(j))
      BY <1>5, TokenType DEF WHeartbeat, HoldersGranted, Holding
    <2> QED
      BY <2>1 DEF Next
  <1>6. ASSUME NEW s \in Sweepers, SweepExpired(s)
        PROVE  Next
    BY <1>6 DEF SweepExpired, Next
  <1>7. ASSUME NEW s \in Sweepers, SweepReport(s)
        PROVE  Next
    <2>1. PICK h \in Hosts : MarkReconciled(h)
      BY <1>7 DEF SweepReport
    <2> QED
      BY <2>1 DEF Next
  <1>8. ASSUME NEW r \in Tokens, ActorRecheck(r)
        PROVE  Next
    BY <1>8 DEF ActorRecheck, Next
  <1>9. ASSUME NEW j \in Jobs, ActorCancelWait(j)
        PROVE  Next
    <2>1. Token(j) \in Tokens /\ CancelWait(Token(j))
      BY <1>9, TokenType DEF ActorCancelWait
    <2> QED
      BY <2>1 DEF Next
  <1>10. CASE ClockTick
    BY <1>10 DEF ClockTick, Next
  <1>11. ASSUME NEW j \in Jobs,
                \/ WGranted(j) \/ WRefused(j) \/ WIssue(j) \/ EndSettled(j)
                \/ EndUnsettled(j) \/ EndEscaped(j) \/ WInterrupted(j) \/ WCrash(j)
         PROVE  UNCHANGED vars
    BY <1>11 DEF WGranted, WRefused, WIssue, EndSettled, EndUnsettled,
                 EndEscaped, WInterrupted, WCrash
  <1>12. ASSUME NEW t \in Tokens, Remote(t)
         PROVE  UNCHANGED vars
    BY <1>12 DEF Remote, ProcStep
  <1>13. ASSUME NEW s \in Sweepers,
                SweepList(s) \/ SweepPick(s) \/ SweepKill(s) \/ SweepGiveUp(s)
         PROVE  UNCHANGED vars
    BY <1>13 DEF SweepList, SweepPick, SweepKill, SweepGiveUp
  <1>14. CASE UNCHANGED dvars
    BY <1>14 DEF dvars
  <1> QED
    BY <1>1, <1>2, <1>3, <1>4, <1>5, <1>6, <1>7, <1>8, <1>9, <1>10, <1>11,
       <1>12, <1>13, <1>14
    DEF DNext, WorkerStep, SweeperStep

-----------------------------------------------------------------------------
(* What the callers keep *)

\* The variables that are not the service's.
CallerTypeOK ==
    /\ task \in [Jobs -> TaskSteps]
    /\ attempt \in [Jobs -> 1 .. MaxAttempts]
    /\ verdict \in [Jobs -> {"none", "final", "retry"}]
    /\ proc \in [Tokens -> ProcStates]
    /\ unrecorded \subseteq Tokens /\ escaped \subseteq Tokens
    /\ sweep \in [Sweepers -> [at : SweepSteps, todo : SUBSET Hosts,
                               paths : SUBSET Tokens]]

LEMMA VisitType ==
  ASSUME CallerTypeOK, NEW s \in Sweepers, NEW at \in SweepSteps,
         NEW todo \in SUBSET Hosts, NEW paths \in SUBSET Tokens,
         Visit(s, at, todo, paths)
  PROVE  sweep' \in [Sweepers -> [at : SweepSteps, todo : SUBSET Hosts,
                                  paths : SUBSET Tokens]]
  BY DEF Visit, CallerTypeOK

LEMMA VisitNextType ==
  ASSUME CallerTypeOK, NEW s \in Sweepers, NEW todo \in SUBSET Hosts,
         VisitNext(s, todo)
  PROVE  sweep' \in [Sweepers -> [at : SweepSteps, todo : SUBSET Hosts,
                                  paths : SUBSET Tokens]]
  <1>1. {} \in SUBSET Tokens /\ "idle" \in SweepSteps /\ "pick" \in SweepSteps
    BY DEF SweepSteps
  <1> QED
    BY <1>1, VisitType DEF VisitNext

LEMMA CallerType == CallerInv /\ [DNext]_dvars => CallerTypeOK'
  <1> SUFFICES ASSUME CallerInv, [DNext]_dvars PROVE CallerTypeOK'
    OBVIOUS
  <1>0. CallerTypeOK /\ PoolTypeOK
    BY DEF CallerInv, DTypeOK, CallerTypeOK, ServiceTypeOK
  <1>1. ASSUME NEW j \in Jobs,
               \/ WorkerStep(j) \/ EndEscaped(j) \/ WInterrupted(j)
               \/ WCrash(j) \/ WHeartbeat(j)
        PROVE  CallerTypeOK'
    <2> USE <1>0 DEF CallerTypeOK, TaskSteps, Goto, Judge, marks
    <2>1. Token(j) \in Tokens
      BY TokenType DEF CallerInv
    <2>2. CASE WRegister(j)
      BY <2>1, <2>2 DEF WRegister
    <2>3. CASE WIssue(j)
      BY <2>1, <2>3 DEF WIssue, ProcStates, runVars
    <2>4. CASE WRelease(j)
      <3>1. attempt' \in [Jobs -> 1 .. MaxAttempts]
        BY <2>4, DispatchAssumption DEF WRelease
      <3> QED
        BY <2>4, <3>1 DEF WRelease
    <2>5. CASE WAcquire(j) \/ WGranted(j) \/ WRefused(j)
      BY <2>5 DEF WAcquire, WGranted, WRefused
    <2>6. CASE EndSettled(j) \/ EndUnsettled(j) \/ WEvict(j)
      BY <2>6 DEF EndSettled, EndUnsettled, WEvict
    <2>7. CASE WInterrupted(j)
      BY <2>7 DEF WInterrupted
    <2>10. CASE EndEscaped(j)
      BY <2>1, <2>10 DEF EndEscaped
    <2>8. CASE WCrash(j)
      BY <2>8 DEF WCrash
    <2>9. CASE WHeartbeat(j)
      BY <2>9 DEF WHeartbeat, runVars
    <2> QED
      BY <1>1, <2>2, <2>3, <2>4, <2>5, <2>6, <2>7, <2>8, <2>9, <2>10
      DEF WorkerStep
  <1>2. ASSUME NEW t \in Tokens, Remote(t)
        PROVE  CallerTypeOK'
    BY <1>0, <1>2 DEF Remote, ProcStep, ProcStates, runVars, marks, CallerTypeOK
  <1>3. ASSUME NEW s \in Sweepers, SweeperStep(s)
        PROVE  CallerTypeOK'
    <2> DEFINE SweepType == sweep' \in [Sweepers -> [at : SweepSteps, todo : SUBSET Hosts,
                                                     paths : SUBSET Tokens]]
    <2>0. /\ {"list", "kill", "report"} \subseteq SweepSteps
          /\ sweep[s].todo \in SUBSET Hosts /\ sweep[s].paths \in SUBSET Tokens
      BY <1>0 DEF SweepSteps, CallerTypeOK
    <2>1. CASE SweepExpired(s)
      <3>0. Visit(s, "list", {}, {})
        BY <2>1 DEF SweepExpired
      <3>1. SweepType
        BY <3>0, <2>0, <1>0 DEF Visit, CallerTypeOK
      <3> QED
        BY <2>1, <3>1, <1>0 DEF SweepExpired, CallerTypeOK, runVars, marks
    <2>2. CASE SweepList(s)
      <3>1. SweepType
        BY <2>2, <1>0, VisitNextType DEF SweepList, PoolTypeOK
      <3> QED
        BY <2>2, <3>1, <1>0 DEF SweepList, CallerTypeOK, runVars, marks
    <2>3. CASE SweepPick(s)
      <3>1. PICK h \in Hosts :
              IF orphans[h] = {} THEN VisitNext(s, sweep[s].todo \ {h})
              ELSE Visit(s, "kill", sweep[s].todo, orphans[h])
        BY <2>3 DEF SweepPick
      <3>2. orphans[h] \in SUBSET Tokens /\ sweep[s].todo \ {h} \in SUBSET Hosts
        BY <2>0, <1>0 DEF PoolTypeOK
      <3>3. SweepType
        BY <3>1, <3>2, <2>0, <1>0, VisitType, VisitNextType
      <3> QED
        BY <2>3, <3>3, <1>0 DEF SweepPick, CallerTypeOK, runVars, marks
    <2>4. CASE SweepKill(s)
      <3>1. PICK p \in sweep[s].paths :
              /\ proc' = [proc EXCEPT ![p] = "dead"]
              /\ Visit(s, IF sweep[s].paths = {p} THEN "report" ELSE "kill",
                       sweep[s].todo, sweep[s].paths \ {p})
        BY <2>4 DEF SweepKill
      <3>2. sweep[s].paths \ {p} \in SUBSET Tokens
        BY <2>0
      <3>3. SweepType
        BY <3>1, <3>2, <2>0, <1>0, VisitType
      <3>4. proc' \in [Tokens -> ProcStates]
        BY <3>1, <1>0 DEF CallerTypeOK, ProcStates
      <3> QED
        BY <2>4, <3>3, <3>4, <1>0 DEF SweepKill, CallerTypeOK, runVars, marks
    <2>5. CASE SweepGiveUp(s)
      <3>1. PICK h \in Hosts : VisitNext(s, sweep[s].todo \ {h})
        BY <2>5 DEF SweepGiveUp
      <3>2. SweepType
        BY <3>1, <2>0, <1>0, VisitNextType
      <3> QED
        BY <2>5, <3>2, <1>0 DEF SweepGiveUp, CallerTypeOK, runVars, marks
    <2>6. CASE SweepReport(s)
      <3>1. PICK h \in Hosts : VisitNext(s, sweep[s].todo \ {h})
        BY <2>6 DEF SweepReport
      <3>2. SweepType
        BY <3>1, <2>0, <1>0, VisitNextType
      <3> QED
        BY <2>6, <3>2, <1>0 DEF SweepReport, CallerTypeOK, runVars, marks
    <2> QED
      BY <1>3, <2>1, <2>2, <2>3, <2>4, <2>5, <2>6 DEF SweeperStep
  <1>4. ASSUME UNCHANGED <<runVars, proc, marks, sweep>>
        PROVE  CallerTypeOK'
    BY <1>4, <1>0 DEF CallerTypeOK, runVars, marks
  <1> QED
    BY <1>1, <1>2, <1>3, <1>4
    DEF DNext, ActorRecheck, ActorCancelWait, ClockTick, Others, dvars

LEMMA HoldersStep == CallerInv /\ [DNext]_dvars => HoldersGranted'
  <1> SUFFICES ASSUME CallerInv, [DNext]_dvars, NEW i \in Jobs,
                      task'[i] \in Holding
               PROVE  Granted(Token(i))'
    BY DEF HoldersGranted, Holding
  <1>0. CallerTypeOK /\ TypeOK
    BY DEF CallerInv, DTypeOK, CallerTypeOK, TypeOK
  <1>1. \/ task[i] \in Holding
        \/ Granted(Token(i))
    <2>1. ASSUME NEW j \in Jobs, WorkerStep(j)
          PROVE  \/ task[i] \in Holding
                 \/ Granted(Token(i))
      BY <2>1, <1>0
      DEF WorkerStep, WAcquire, WGranted, WRefused, WRegister, WIssue, EndSettled,
          EndUnsettled, WEvict, WRelease, Goto, runVars, CallerTypeOK, Holding
    <2>2. ASSUME NEW j \in Jobs, EndEscaped(j) \/ WInterrupted(j) \/ WCrash(j)
          PROVE  task[i] \in Holding
      BY <2>2, <1>0 DEF EndEscaped, WInterrupted, WCrash, Goto, CallerTypeOK, Holding
    <2>3. ASSUME task' = task
          PROVE  task[i] \in Holding
      BY <2>3
    <2> QED
      BY <2>1, <2>2, <2>3
      DEF DNext, WHeartbeat, Remote, ProcStep, SweeperStep, SweepExpired, SweepList,
          SweepPick, SweepKill, SweepGiveUp, SweepReport, ActorRecheck,
          ActorCancelWait, ClockTick, Others, dvars, runVars
  <1>2. Granted(Token(i)) /\ Token(i) \in Tokens
    BY <1>1, TokenType DEF CallerInv, HoldersGranted
  <1>3. attempt'[i] = attempt[i]
    <2>1. ASSUME NEW j \in Jobs, WRelease(j)
          PROVE  attempt'[i] = attempt[i]
      BY <2>1, <1>0 DEF WRelease, CallerTypeOK, Holding
    <2> QED
      BY <2>1
      DEF DNext, WorkerStep, WAcquire, WGranted, WRefused, WRegister, WIssue,
          EndSettled, EndUnsettled, WEvict, EndEscaped, WInterrupted, WCrash,
          WHeartbeat, Remote, ProcStep, SweeperStep, SweepExpired, SweepList, SweepPick, SweepKill,
          SweepGiveUp, SweepReport, ActorRecheck, ActorCancelWait, ClockTick, Others,
          dvars, runVars
  <1>4. Granted(Token(i))' <=> request'[Token(i)] = "granted"
    BY <1>3 DEF Granted, Token
  <1>5. [Next]_vars
    BY StepConforms
  <1> QED
    BY <1>0, <1>2, <1>4, <1>5, GrantIsFinal DEF Granted

LEMMA CallerInit == DInit => CallerInv
  <1> SUFFICES ASSUME DInit PROVE CallerInv
    OBVIOUS
  <1>1. TypeOK
    BY InitType DEF DInit, Init
  <1>2. CallerTypeOK
    BY DispatchAssumption DEF DInit, CallerTypeOK, TaskSteps, ProcStates, SweepSteps
  <1>3. HoldersGranted
    BY DEF DInit, HoldersGranted, Holding
  <1> QED
    BY <1>1, <1>2, <1>3 DEF CallerInv, DTypeOK, CallerTypeOK, TypeOK

LEMMA CallerStep == CallerInv /\ [DNext]_dvars => CallerInv'
  <1> SUFFICES ASSUME CallerInv, [DNext]_dvars PROVE CallerInv'
    OBVIOUS
  <1>1. TypeOK'
    BY StepConforms, NextType DEF CallerInv, DTypeOK, TypeOK
  <1> QED
    BY <1>1, CallerType, HoldersStep DEF CallerInv, DTypeOK, CallerTypeOK, TypeOK

\* The workers, the sweepers and the service keep their types.
THEOREM DispatchTypeCorrect == DSpec => []DTypeOK
  <1>1. CallerInv => DTypeOK
    BY DEF CallerInv
  <1> QED
    BY <1>1, CallerInit, CallerStep, PTL DEF DSpec

\* The workers and the sweepers call the lease service only in ways that
\* LeaseService allows its arbitrary callers: run_job never uses a token it was
\* not granted and quarantines only the host of such a token.
THEOREM Conformance == DSpec => ServiceConformance
  <1>1. DInit => Init
    BY DEF DInit, Init
  <1> QED
    BY <1>1, CallerInit, CallerStep, StepConforms, PTL DEF DSpec, ServiceConformance, Spec

\* So the whole composition, seen through the leases and the marks of used
\* slots, behaves as the slot table does: no crash of a worker, late sweep or
\* lost reply gives a slot to two attempts, or a token a second slot.
THEOREM DispatchImplementsTable == DSpec => ImplementsTable
  BY Conformance, Refinement, PTL DEF ServiceConformance

\* Whatever workers and sweepers do, the books of the lease pool agree, the
\* quarantined hosts are empty and no caller sleeps without reason.
THEOREM DispatchIsSafe ==
  DSpec => [](SlotsMatchLeases /\ QuarantineIsEmpty /\ OrphanCustody /\ NoLostWakeup)
  <1>1. IInv => SlotsMatchLeases /\ QuarantineIsEmpty /\ OrphanCustody /\ NoLostWakeup
    BY DEF IInv
  <1> QED
    BY <1>1, Conformance, Invariant, PTL DEF ServiceConformance
=============================================================================
