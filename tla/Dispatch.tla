------------------------------ MODULE Dispatch ------------------------------
(***************************************************************************)
(* The lease service together with everyone who calls it:                  *)
(*                                                                         *)
(*  - one worker per job (scheduling.py, run_job, inside the Ray task      *)
(*    _attempt_task of ssh_ray.py), which acquires a lease, registers the  *)
(*    attempt's pid.json path, runs the attempt, quarantines the host if   *)
(*    the attempt did not end cleanly, releases the lease and retries;     *)
(*  - the remote process of every attempt, which survives its worker;      *)
(*  - the sweeper threads (ssh_ray.py, _sweep_once): the background loop,  *)
(*    and, while teardown drains the jobs, the thread that called it.      *)
(*                                                                         *)
(* The token of attempt n of job j is <<j, n>>.  What happens inside an    *)
(* attempt is the subject of AttemptSupervisor; here an attempt ends in    *)
(* one of the ways that AttemptContract allows, which AttemptSupervisor    *)
(* implements.  A job whose worker dies is not restarted (max_retries=0).  *)
(* Definitions named Op_Fault are faulty variants of Op (see LeasePool).   *)
(***************************************************************************)
EXTENDS LeaseService

CONSTANTS
    Jobs,         \* the submitted jobs
    MaxAttempts,  \* RetryPolicy.max_attempts
    Sweepers      \* the threads that may run _sweep_once

ASSUME DispatchAssumption ==
    /\ MaxAttempts \in Nat \ {0}
    /\ Tokens = Jobs \X (1 .. MaxAttempts)

VARIABLES
    task,       \* task[j]: where run_job is
    attempt,    \* attempt[j]: n, the number of the current attempt
    verdict,    \* verdict[j]: whether the current attempt's result is final
    proc,       \* proc[t]: the remote process of attempt t
    unrecorded, \* attempts whose register_pid found the lease already gone
    escaped,    \* attempts released by an interrupt that cut their cleanup short
    sweep       \* sweep[s]: what sweeper s is doing

runVars == <<task, attempt, verdict>>
marks == <<unrecorded, escaped>>
dvars == <<vars, runVars, proc, marks, sweep>>

TaskSteps == {"ready", "acquiring", "leased", "running", "evicting",
              "releasing", "finished", "crashed", "stray"}

\* issued: the SSH command that starts the runner was sent; alive: the job's
\* process group exists; void: the runner never started the job.
ProcStates == {"none", "issued", "alive", "dead", "void"}

SweepSteps == {"idle", "list", "pick", "kill", "report"}

DTypeOK ==
    /\ ServiceTypeOK
    /\ task \in [Jobs -> TaskSteps]
    /\ attempt \in [Jobs -> 1 .. MaxAttempts]
    /\ verdict \in [Jobs -> {"none", "final", "retry"}]
    /\ proc \in [Tokens -> ProcStates]
    /\ unrecorded \subseteq Tokens /\ escaped \subseteq Tokens
    /\ sweep \in [Sweepers -> [at : SweepSteps, todo : SUBSET Hosts,
                               paths : SUBSET Tokens]]

DInit ==
    /\ ServiceInit
    /\ task = [j \in Jobs |-> "ready"]
    /\ attempt = [j \in Jobs |-> 1]
    /\ verdict = [j \in Jobs |-> "none"]
    /\ proc = [t \in Tokens |-> "none"]
    /\ unrecorded = {} /\ escaped = {}
    /\ sweep = [s \in Sweepers |-> [at |-> "idle", todo |-> {}, paths |-> {}]]

\* The lease the worker of j works under, and the hosts it has tried.
Token(j) == <<j, attempt[j]>>
Tried(j) == {h \in Hosts : \E n \in 1 .. (attempt[j] - 1) : <<j, n>> \in replied[h]}

\* The process may be running on the host, now or later.
MayRun(t) == proc[t] \in {"issued", "alive"}

Goto(j, from, to) == task[j] = from /\ task' = [task EXCEPT ![j] = to]
Judge(j, v) == verdict' = [verdict EXCEPT ![j] = v]

-----------------------------------------------------------------------------
(* The worker of job j *)

\* lease.acquire is sent, and the actor runs it up to its first wait.
WAcquire(j) ==
    /\ Goto(j, "ready", "acquiring")
    /\ Acquire(Token(j), Tried(j))
    /\ UNCHANGED <<attempt, verdict, proc, marks, sweep>>

\* The reply arrives; the heartbeat thread starts.
WGranted(j) ==
    /\ Granted(Token(j))
    /\ Goto(j, "acquiring", "leased")
    /\ UNCHANGED <<vars, attempt, verdict, proc, marks, sweep>>

\* NoHealthyHostsError: the job has failed.
WRefused(j) ==
    /\ request[Token(j)] = "refused"
    /\ Goto(j, "acquiring", "finished")
    /\ UNCHANGED <<vars, attempt, verdict, proc, marks, sweep>>

\* The pid.json path is recorded if the lease is still there; the caller is not
\* told whether it was.
WRegister(j) ==
    /\ Goto(j, "leased", "running")
    /\ RegisterPid(Token(j))
    /\ unrecorded' = unrecorded \cup ({Token(j)} \ DOMAIN leases)
    /\ UNCHANGED <<attempt, verdict, proc, escaped, sweep>>

\* execute_attempt sends the command that starts the runner.
WIssue(j) ==
    /\ task[j] = "running"
    /\ proc[Token(j)] = "none"
    /\ proc' = [proc EXCEPT ![Token(j)] = "issued"]
    /\ UNCHANGED <<vars, runVars, marks, sweep>>

EndSettled_Unchecked(j) ==
    /\ Goto(j, "running", "releasing")
    /\ \E v \in {"final", "retry"} : Judge(j, v)
    /\ UNCHANGED <<vars, attempt, proc, marks, sweep>>

\* The attempt ends with the remote side seen to be finished or never started.
EndSettled(j) ==
    /\ proc[Token(j)] \in {"none", "dead"}
    /\ Goto(j, "running", "releasing")
    /\ \E v \in {"final", "retry"} : Judge(j, v)
    /\ UNCHANGED <<vars, attempt, proc, marks, sweep>>

\* _LeaseLostError or _HostCleanupError
EndUnsettled(j) ==
    /\ Goto(j, "running", "evicting")
    /\ \E v \in {"final", "retry"} : Judge(j, v)
    /\ UNCHANGED <<vars, attempt, proc, marks, sweep>>

\* An interrupt during the cleanup, or just before lease.quarantine: run_job goes
\* on as after an ordinary cancellation, whatever still runs.
EndEscaped(j) ==
    /\ task[j] \in {"running", "evicting"}
    /\ task' = [task EXCEPT ![j] = "releasing"]
    /\ Judge(j, "final")
    /\ escaped' = escaped \cup
          (IF proc[Token(j)] \in {"none", "dead"} THEN {} ELSE {Token(j)})
    /\ UNCHANGED <<vars, attempt, proc, unrecorded, sweep>>

WEvict_OwnLeaseOnly(j) ==
    /\ Goto(j, "evicting", "releasing")
    /\ \E h \in Hosts :
          /\ Token(j) \in replied[h]
          /\ quarantined' = quarantined \cup {h}
          /\ orphans' = [orphans EXCEPT ![h] = @ \cup ({Token(j)} \cap pidPaths)]
    /\ DropLeases({Token(j)} \cap DOMAIN leases)
    /\ NotifyAll
    /\ UNCHANGED <<excluded, replied, attempt, verdict, proc, marks, sweep>>

\* lease.quarantine(leased.host), also when the lease is gone already
WEvict(j) ==
    /\ Goto(j, "evicting", "releasing")
    /\ \E h \in Hosts : Token(j) \in replied[h] /\ Quarantine(h)
    /\ UNCHANGED <<attempt, verdict, proc, marks, sweep>>

WRelease_OneMore(j) ==
    /\ task[j] = "releasing"
    /\ Release(Token(j))
    /\ Judge(j, "none")
    /\ IF verdict[j] = "retry" /\ attempt[j] <= MaxAttempts
       THEN /\ task' = [task EXCEPT ![j] = "ready"]
            /\ attempt' = [attempt EXCEPT ![j] = @ + 1]
       ELSE /\ task' = [task EXCEPT ![j] = "finished"]
            /\ UNCHANGED attempt
    /\ UNCHANGED <<proc, marks, sweep>>

\* lease.release, then the retry decision (should_retry)
WRelease(j) ==
    /\ task[j] = "releasing"
    /\ Release(Token(j))
    /\ Judge(j, "none")
    /\ IF verdict[j] = "retry" /\ attempt[j] < MaxAttempts
       THEN /\ task' = [task EXCEPT ![j] = "ready"]
            /\ attempt' = [attempt EXCEPT ![j] = @ + 1]
       ELSE /\ task' = [task EXCEPT ![j] = "finished"]
            /\ UNCHANGED attempt
    /\ UNCHANGED <<proc, marks, sweep>>

\* Ray cancels the job while its worker waits for the lease actor.  In acquire
\* nothing is released, even if the grant is on its way; in register_pid the
\* lease is released; in release the lease is left to expire.  Between the two
\* calls, where run_job's try block has not begun, the job ends as a stray: its
\* heartbeat thread goes on as long as the worker process lives.  (Inside the
\* attempt a cancellation is one of the causes of the endings above.)
WInterrupted(j) ==
    /\ \/ Goto(j, "acquiring", "finished") /\ UNCHANGED verdict
       \/ Goto(j, "leased", "stray") /\ UNCHANGED verdict
       \/ Goto(j, "leased", "releasing") /\ Judge(j, "final")
       \/ Goto(j, "releasing", "finished") /\ Judge(j, "none")
    /\ UNCHANGED <<vars, attempt, proc, marks, sweep>>

\* The worker process dies, or Ray retires it; what it started on the host goes on.
WCrash(j) ==
    /\ task[j] \notin {"finished", "crashed"}
    /\ task' = [task EXCEPT ![j] = "crashed"]
    /\ Judge(j, "none")
    /\ UNCHANGED <<vars, attempt, proc, marks, sweep>>

\* The heartbeat thread runs from the grant until release stops it.
WHeartbeat(j) ==
    /\ task[j] \in {"leased", "running", "evicting", "stray"}
    /\ Heartbeat(Token(j))
    /\ UNCHANGED <<runVars, proc, marks, sweep>>

-----------------------------------------------------------------------------
(* The remote process of attempt t *)

ProcStep(t, from, to) ==
    /\ proc[t] = from
    /\ proc' = [proc EXCEPT ![t] = to]
    /\ UNCHANGED <<vars, runVars, marks, sweep>>

Remote(t) ==
    \/ ProcStep(t, "issued", "alive")
    \/ ProcStep(t, "issued", "void")
    \/ ProcStep(t, "alive", "dead")

-----------------------------------------------------------------------------
(* Sweeper s: one pass of _sweep_once *)

Visit(s, at, todo, paths) ==
    sweep' = [sweep EXCEPT ![s] = [at |-> at, todo |-> todo, paths |-> paths]]

\* The hosts are visited in label order.
IsNext(s, h) == h \in sweep[s].todo /\ \A g \in sweep[s].todo : h <= g

VisitNext(s, todo) == Visit(s, IF todo = {} THEN "idle" ELSE "pick", todo, {})

SweepExpired_OnlyInQuarantine(s) ==
    /\ sweep[s].at = "idle"
    /\ IF quarantined # {} THEN Sweep ELSE UNCHANGED vars
    /\ Visit(s, "list", {}, {})
    /\ UNCHANGED <<runVars, proc, marks>>

SweepExpired(s) ==
    /\ sweep[s].at = "idle"
    /\ Sweep
    /\ Visit(s, "list", {}, {})
    /\ UNCHANGED <<runVars, proc, marks>>

SweepList(s) ==
    /\ sweep[s].at = "list"
    /\ VisitNext(s, quarantined)
    /\ UNCHANGED <<vars, runVars, proc, marks>>

\* orphan_paths: a host without recorded paths is not clean.
SweepPick(s) ==
    /\ sweep[s].at = "pick"
    /\ \E h \in Hosts :
          /\ IsNext(s, h)
          /\ IF orphans[h] = {} THEN VisitNext(s, sweep[s].todo \ {h})
             ELSE Visit(s, "kill", sweep[s].todo, orphans[h])
    /\ UNCHANGED <<vars, runVars, proc, marks>>

SweepKill_AbsenceIsClean(s) ==
    /\ sweep[s].at = "kill"
    /\ \E p \in sweep[s].paths :
          /\ proc' = [proc EXCEPT ![p] = IF @ = "alive" THEN "dead" ELSE @]
          /\ Visit(s, IF sweep[s].paths = {p} THEN "report" ELSE "kill",
                   sweep[s].todo, sweep[s].paths \ {p})
    /\ UNCHANGED <<vars, runVars, marks>>

\* reconcile_host succeeds for one path: pid.json was read and the process
\* group it names is gone.
SweepKill(s) ==
    /\ sweep[s].at = "kill"
    /\ \E p \in sweep[s].paths :
          /\ proc[p] \in {"alive", "dead"}
          /\ proc' = [proc EXCEPT ![p] = "dead"]
          /\ Visit(s, IF sweep[s].paths = {p} THEN "report" ELSE "kill",
                   sweep[s].todo, sweep[s].paths \ {p})
    /\ UNCHANGED <<vars, runVars, marks>>

\* It fails for one path: no pid.json, an unreachable host or a process that
\* does not die.  The host stays quarantined.
SweepGiveUp(s) ==
    /\ sweep[s].at = "kill"
    /\ \E h \in Hosts : IsNext(s, h) /\ VisitNext(s, sweep[s].todo \ {h})
    /\ UNCHANGED <<vars, runVars, proc, marks>>

\* mark_reconciled
SweepReport(s) ==
    /\ sweep[s].at = "report"
    /\ \E h \in Hosts :
          /\ IsNext(s, h)
          /\ MarkReconciled(h)
          /\ VisitNext(s, sweep[s].todo \ {h})
    /\ UNCHANGED <<runVars, proc, marks>>

-----------------------------------------------------------------------------
(* The lease actor's own steps *)

Others == UNCHANGED <<runVars, proc, marks, sweep>>

ActorRecheck(r) == Recheck(r) /\ Others

\* Ray passes the cancellation of a job on to the acquire call it is waiting in.
ActorCancelWait(j) ==
    /\ task[j] \in {"finished", "crashed"}
    /\ CancelWait(Token(j))
    /\ Others

ClockTick == Tick /\ Others

-----------------------------------------------------------------------------
WorkerStep(j) ==
    \/ WAcquire(j) \/ WGranted(j) \/ WRefused(j) \/ WRegister(j) \/ WIssue(j)
    \/ EndSettled(j) \/ EndUnsettled(j) \/ WEvict(j) \/ WRelease(j)

SweeperStep(s) ==
    \/ SweepExpired(s) \/ SweepList(s) \/ SweepPick(s)
    \/ SweepKill(s) \/ SweepGiveUp(s) \/ SweepReport(s)

DNext ==
    \/ \E j \in Jobs : WorkerStep(j)
    \/ \E j \in Jobs : EndEscaped(j) \/ WInterrupted(j) \/ WCrash(j) \/ WHeartbeat(j)
    \/ \E t \in Tokens : Remote(t)
    \/ \E s \in Sweepers : SweeperStep(s)
    \/ \E r \in Tokens : ActorRecheck(r)
    \/ \E j \in Jobs : ActorCancelWait(j)
    \/ ClockTick

\* Workers that do not crash go on (an attempt ends: it has a timeout, or its
\* job ends), the actor runs woken calls, and the sweep loop keeps going: it
\* catches every exception.  Nothing is assumed about reconciliation.
DFairness ==
    /\ \A j \in Jobs : WF_dvars(WorkerStep(j))
    /\ \A r \in Tokens : WF_dvars(ActorRecheck(r))
    /\ \A s \in Sweepers : WF_dvars(SweeperStep(s))
    /\ WF_dvars(ClockTick)

DSpec == DInit /\ [][DNext]_dvars
DFairSpec == DSpec /\ DFairness

-----------------------------------------------------------------------------
(* Properties *)

\* A worker that believes it holds a lease was granted one.
Holding == {"leased", "running", "evicting", "releasing", "stray"}
HoldersGranted == \A j \in Jobs : task[j] \in Holding => Granted(Token(j))

\* The attempts granted on host h whose path was recorded, and whose lease no
\* interrupt released before they were over.
Known(h) == replied[h] \ (unrecorded \cup escaped)

\* A process that may run on a host is accounted for: it holds a lease there,
\* or the host is out of service until reconciliation.  The exceptions are an
\* attempt that lost its lease before it could register its pid.json, and one
\* whose cleanup was cut short by an interrupt, each the subject of a run of its
\* own (CapacityHeld, and CapacityHeldWhileAlive in AttemptSupervisor).
ProcAccountedFor ==
    \A h \in Hosts : \A t \in Known(h) :
        MayRun(t) => t \in DOMAIN leases \/ h \in quarantined

\* The attempts on host h whose process may run, with the same exceptions.
Load(h) == {t \in Known(h) : MayRun(t)}

\* A host is never given more jobs than it has slots: counting every recorded
\* attempt whose process may still run there, also those whose worker crashed,
\* was evicted or cancelled before its attempt, and those that wait for
\* reconciliation.
NoOverload == \A h \in Hosts : Cardinality(Load(h)) <= Slots[h]

\* The claim of the project's design notes, without the first exception.
CapacityHeld ==
    \A h \in Hosts : \A t \in replied[h] \ escaped :
        MayRun(t) => t \in DOMAIN leases \/ h \in quarantined

\* The pid.json path of an evicted attempt is forgotten only when the process
\* it leads to is gone.
OrphanMetadataKept ==
    [][\A h \in Hosts : \A t \in orphans[h] \ orphans'[h] : proc[t] = "dead"]_dvars

\* At the moment a slot is granted, every recorded attempt that may still run on
\* that host works under a live lease of its own, on another slot: no slot passes
\* to a new job while the process of an old one may be running in it.
SlotsPassQuiet ==
    [][\A t \in DOMAIN leases' \ DOMAIN leases : \A u \in Load(leases'[t].host) :
            /\ u \in DOMAIN leases
            /\ leases[u].host = leases'[t].host
            /\ leases[u].slot # leases'[t].slot]_dvars

\* The callers keep to the calls that LeaseService allows, so that what is
\* shown about the service with arbitrary callers holds here.
ServiceConformance == Spec

\* Every job whose worker survives comes to an end, though other workers may
\* crash while they hold leases and hosts may never be readmitted.  Only a stray
\* whose process lives on may keep its slot, and others waiting, for ever.
JobsFinish ==
    \A j \in Jobs : \/ <>(task[j] \in {"finished", "crashed", "stray"})
                    \/ <>[](\E i \in Jobs : task[i] = "stray")

\* When all jobs have ended without a crash, every pid.json path was recorded,
\* no cleanup was cut short and every process is gone, a host still in quarantine
\* can be reconciled by some later sweep: it has paths to reconcile.
QuarantinedIsRetryable ==
    (/\ \A j \in Jobs : task[j] = "finished"
     /\ unrecorded = {} /\ escaped = {}
     /\ \A h \in Hosts : \A t \in replied[h] : proc[t] = "dead")
    => \A h \in quarantined : orphans[h] # {}
=============================================================================
