# Formal model of ray-dispatcher

ray-dispatcher runs batches of jobs on a fixed set of SSH hosts. A local Ray
runtime runs one task per job; a lease actor decides which job may use which
slot of which host; a small runner script starts the job on the host. The
dispatcher process, any worker, the SSH link and the hosts may fail
independently. The design's central promise is that *the capacity of a host is
never given to a new job while an old process may still be running there*, and
that no failure leaves jobs waiting for ever.

This directory holds TLA+ modules that model the parts of the program which
keep that promise, TLC configurations that check them on small instances, and
TLAPS proofs of their safety properties for every instance.

All paths below are relative to
`src/it/unimib/data/nanofaas/ray_dispatcher/` unless they say otherwise.

## 1. The system

### Components

| Component (code) | State it keeps | Operations | Talks to |
|---|---|---|---|
| Lease pool (`scheduling.py`, `LeasePool`) | slots in use, live leases with expiry, pid.json paths, orphan paths, quarantined hosts | `acquire`, `release`, `register_pid`, `heartbeat`, `quarantine`, `mark_reconciled`, `sweep_expired` | called by the lease service only |
| Lease service (`scheduling.py`, `LeaseService`) | one pool, one `asyncio.Condition` and its waiters | the same, as methods of a Ray actor; `acquire` waits | workers, sweepers |
| Job orchestration (`scheduling.py`, `run_job`; `backends/ssh_ray.py`, `_attempt_task`, `_ActorLeaseHandle`) | attempt number, hosts tried, current lease, heartbeat thread, attempt results | acquire, register, run, quarantine on a doubtful end, release, retry | lease service, attempt |
| Attempt (`scheduling.py`, `execute_attempt`, `_invoke_runner`, `_kill_remote_pgid`; `ssh.py`, `terminate_process_group`) | supervising thread, SSH worker thread, loss flag | prepare, supervise, clean up, collect, classify | runner over SSH, local result tree |
| Runner (`remote_runner.py`) | process group of the job, `pid.json`, `result.json` | spawn, record, wait, report | job |
| Sweeper (`ssh_ray.py`, `_sweep_loop`, `_sweep_once`; `scheduling.py`, `reconcile_host`) | a snapshot of quarantined hosts and orphan paths | expire, reconcile, readmit | lease service, hosts |
| Session lock (`locking.py`) | lock file on the host: owner, heartbeat time | acquire, heartbeat, release, under `flock` | other dispatcher processes |
| Provisioning (`provisioning.py`) | trees on the host: source, environments, runner, secrets; locks and heartbeat threads | provision each host, release all | hosts |
| Backend (`ssh_ray.py`, `SshRayBackend`) | Ray refs, cancel requests, session-loss error, draining flag | setup and its rollback, submit, cancel, status, resolve, drain, teardown, purge | all of the above |
| Dispatcher (`dispatcher.py`) | outstanding handles, batch directories | setup, submit, run, teardown | backend |
| Results (`results.py`) | attempt directories, staged and published outputs, `result.json` | collect, publish, write | local file system |
| Models, paths, digests, errors | none | validation, hashing | everyone |

### What is hard about it

* **Two books that must agree.** `_used` and `_leases` are updated separately by
  `acquire`, `release` and `quarantine`; the pid paths move between a live
  lease, the orphans of a host and nowhere.
* **Sleeping callers.** `acquire` waits on a condition. Each of five methods has
  to remember to notify, and a caller must be refused when the last live host
  goes away.
* **Late callers.** The actor serialises methods, not conversations. A worker
  may release, register or quarantine long after its lease was taken away.
* **Orphans.** When a worker dies, its job goes on. The host is out of service
  until the sweeper has read each `pid.json` and seen each process group gone.
* **Cleanup that is itself interrupted.** A timeout, a lost lease, a broken SSH
  connection and a Ray cancellation can hit the same attempt at any point.
* **Two sweepers.** Teardown's drain calls `_sweep_once` while the background
  loop may be in the middle of one.
* **A lock over an unreliable link.** Requests and answers get lost, and a
  request that timed out may still be executed later.
* **Publication by renaming**, and setup and teardown that can fail half way.

### What makes each component correct

* Lease pool: the books agree; no slot is lent twice; a quarantined host holds
  no lease; each recorded path has exactly one keeper; expiry is final.
* Lease service: no lost wakeup; every waiting caller is answered; retries go to
  hosts that were not tried; all of it amounts to a simple slot table.
* Attempt: an attempt reported as cleanly ended left nothing running; a loss is
  never reported as success or as the command's failure; a success is of a job
  that exited with zero and that its supervisor never signalled; cleanup ends;
  all of it amounts to a simple contract.
* Orchestration with sweepers: a process that may run is known to the service as
  a lease or as a reason for quarantine; a host never carries more jobs than it
  has slots (both with the exceptions of findings 2 and 4); reconciliation work
  is not forgotten; every job ends; a quarantined host can come back.
* Session lock: a session that beats in time keeps the host; a released lock
  stays released; an abandoned lock expires; a session that lost the host finds
  out; the jobs of two sessions do not meet on a host.
* Backend and Dispatcher: while work may be running, the actor, the runtime and
  the heartbeats that a teardown needs are kept; a task submitted during a
  session loss is cancelled; a batch is submitted as a whole or cancelled; a
  failed setup or teardown leaves no lock, heartbeat, actor or runtime behind.
* Provisioning: a host that setup reports as ready has the session's own source
  and an entire environment, whatever earlier sessions left half done; the tree
  that counts is only ever replaced, at once, by a complete one; after any
  failure a later setup succeeds.
* Results: outputs come from one attempt, the last, that is recorded as successful
  unless something happens right after they are published; `attempt.json`,
  `result.json` and the in-memory history agree; the verdict on disk is final
  and is what the submitter is told.

## 2. The modules

```
SlotTable  <--implements--  LeaseService  --EXTENDS-->  LeasePool
                                 ^    ^
                             EXTENDS  +-- LeaseServiceProofs
                                 |              ^
                             Dispatch  <--  DispatchProofs  <--  AccountingProofs
                                 |
                      (endings taken from)
                                 |
                         AttemptContract  <--implements--  AttemptSupervisor  <--  AttemptProofs

JobResults   <--  JobResultsProofs     (one job's files, over its attempts)
Provision    <--  ProvisionProofs      (one host's disk, over many sessions)
SessionLock  <--  SessionLockProofs    (one host's lock, several sessions)
Backend      <--  BackendProofs        (one process and its calls)
```

**SlotTable** is the abstract specification: per slot, the token that owns it,
the barred hosts, and the tokens ever issued. Granting needs an empty slot of a
host that is not barred and a new token; barring a host empties it in the same
step.

**LeasePool** has one operator per method of the class `LeasePool`. The
variables are the fields: `used` (`_used`), `leases`, `pidPaths`, `orphans`,
`quarantined`. Hosts are their ranks in label order, because ties in `acquire`
are broken by label. The pid.json path of an attempt is a function of its token
and is represented by the token. Instead of a clock and expiry times the model
keeps `left`, the ticks until expiry, down to -1, which stands for "overdue":
the code only compares `expiry_s` with the present. `left = 0` is the boundary,
where a heartbeat is rejected and a sweep already collects the lease.

**LeaseService** adds the actor. A method is one step, since it holds the
condition's lock and does not await, except in `acquire`. `request[r]` says how
far the `acquire` call with token `r` has got: parked on the condition, woken by
`notify_all`, granted, refused or cancelled. In the code the token is drawn when
the grant is made; naming it from the start changes nothing, because nobody sees
it before. `replied` is history: what callers were told. Callers are
unconstrained: anyone who was ever granted a token may call any method with it,
at any time.

**Dispatch** adds the real callers: one worker per job (`run_job`), the remote
process of every attempt, and the sweeper threads. `task[j]` is the position in
`run_job`, `proc[t]` the state of the process of attempt `t`, `sweep[s]` the
snapshot a sweeper works from. Workers may crash, and be cancelled while waiting
for the actor. A worker that is cancelled after its heartbeat thread was started
and before the `try` of `run_job` becomes a `stray`: its job is over, but its
lease is renewed as long as the worker process lives, so that other jobs may
wait for the slot as long. `JobsFinish` names this as its only exception, and
TLC finds a violation without it. An attempt is summarised by the endings of
`AttemptContract`: `EndSettled` (released only) requires that the process is
gone or was never started; `EndUnsettled` is followed by the quarantine of the
host and the release; `EndEscaped` is an interrupt during the cleanup, or
between it and `lease.quarantine`: `run_job` takes it for an ordinary
cancellation and releases, whatever still runs. Two history variables mark the
attempts that the properties about capacity must leave out, and nothing else
reads them: `unrecorded`, those whose lease was gone before `register_pid`
(finding 2), and `escaped`, those that were released over a process (finding 4).

**AttemptContract** is the abstract specification of an attempt: the process it
may start once, whether its supervisor has acted on the loss of its lease
(`fenced`), and what the supervisor says at the end. "Settled" may be said only
while nothing runs and nothing will, and never by a supervisor that is fenced;
"unsettled" at any time; "escaped" is the ending of finding 4. `Dispatch` builds
its workers from these steps; `AttemptSupervisor` implements
them (`ImplementsContract`), so what one module assumes of an attempt is what the
other one delivers. The refinement mapping reads the process off the states of
the runner and of the job's group, and the ending off the exception under way
when the supervisor is done.

**AttemptSupervisor** is one attempt in detail: the supervising thread, the
thread that holds the SSH command, the runner, the job's process group, and the
outside (link failures, lease loss, the sweeper signalling the group, one
cancellation). Time limits may elapse at any moment. A group is sent SIGTERM
first, so a signalled job may end with any exit code; `signalled` is history: who
signalled the group while it was alive.

**JobResults** is one job seen through the files it writes: `execute_attempt`
reduced to its file operations and classification (`staged`, `published`,
`attemptJson`), `run_job`'s history and retries (`attempts`, `pending`), the
task around it that writes `result.json`, and what `status` and `resolve` answer
from it (`answers`). The cancellation that Ray delivers may fall between any two
steps, inside the `except` clauses too; any file operation may fail; the worker
may die. What makes an attempt end as it does is `AttemptSupervisor`'s business,
so `Invoke` may end in any way.

**Provision** is one host's disk over an unlimited number of sessions: the
source tree and the environment, each at its three places (`live`, `old`,
`staging`), the source manifest, and the five commands of the script that
publishes a tree (`at` is the next one). A command may fail, the host may die
between two of them, and the session may give up waiting while the script goes
on. `_sync_source`, the check that an environment is valid, `uv sync`,
`_publish_env`, the steps without effect on the trees, `setup(force=True)` and
the purge are its steps. A `ruin` is an environment of which a purge that was
cut short has removed a part, but not what the validity check looks at.

**SessionLock** is one host's lock file, the script that edits it (one step per
execution, it runs under `flock`), and several sessions with their requests,
answers, heartbeat threads, crashes and jobs.

**Backend** is one process with its `Dispatcher`: the main thread that makes the
calls (`pc` is its position in `setup`, `submit`, `cancel`, `status` or
`teardown`, `call` its local variables, `back` the fields of the backend), a
heartbeat thread per host (`beat`), and two users of `_request_cancel`, the main
thread and whoever runs `_on_session_lost`. Every external call of setup and
teardown may fail. The lease actor is reduced to what the drain asks of it:
which attempts hold a lease (`leases`) and which keep their host quarantined
(`orphans`), for processes that register their path and are swept one sweep at a
time. `proc` has the processes that the service knows of: one that was never
recorded (finding 2) or that an interrupted cleanup let go of (finding 4) is not
protected by any teardown, and is the business of `Dispatch`. A late quarantine
(finding 1) evicts whoever holds a lease on the host by then; that the host may
be left without a path only keeps the drain waiting. Slots are not counted. A
session loss may be handled by the heartbeat thread that finds it and, at the
same time, by the main thread, which raises as soon as the error is set. A Ray
runtime that `ray.shutdown` failed to stop is `left`, told apart from a
`foreign` one, and an actor that `ray.kill` failed to stop is `actorLeft`: no
later teardown tries again, and `setup` refuses to start beside the runtime. The
lock is reduced to whether it is ours, and may move to another session whenever
`SessionLock` allows: `stale` is a lock in our name that nobody beats. The state
of one `teardown` call can be followed through `pc`: cancel the outstanding
jobs, drain in rounds of three questions, kill the actor, purge, stop the
heartbeats, release, shut down Ray and forget.

Definitions called `Op_Fault` are variants of `Op` with one plausible mistake.
No specification uses them. Each is paired in `PROJECT.json` with the property
that detects it, which shows that the property depends on the code being right.

## 3. The runs

| Run | Configuration | What it checks | Instance |
|---|---|---|---|
| lease_service | `MCLeaseService.cfg` | the pool's books, orphan paths, wakeups, expiry, retries on untried hosts, waiters answered, refinement of `SlotTable` | hosts with 1 and 2 slots, 3 tokens, TTL 2 |
| attempt | `AttemptSupervisor.cfg` | quiet ends, what a success means, a noticed loss is final, cleanup ends, refinement of `AttemptContract` | one attempt, no bound needed |
| attempt_cancel | `AttemptCancel.cfg` | *violated*: capacity held while a process is alive | one attempt |
| dispatch | `Dispatch.cfg` | every process accounted for and no host overloaded, but for the attempts of findings 2 and 4; orphan paths kept | 1 host with 2 slots, 2 jobs, 2 attempts, 1 sweeper |
| dispatch_progress | `DispatchProgress.cfg` | every job ends, unless a stray heartbeat keeps a slot; the service is used as it allows | 1 host with 1 slot, 2 jobs, 2 attempts, 1 sweeper |
| late_eviction | `DispatchLateEviction.cfg` | *violated*: a quarantined host can be reconciled | 1 host with 2 slots, 2 jobs, 1 attempt |
| late_register | `DispatchLateRegister.cfg` | *violated*: capacity held, unregistered processes included | as above |
| two_sweepers | `DispatchTwoSweepers.cfg` | *violated*: orphan paths kept, with the drain's sweep | as above, 2 sweepers |
| session_lock | `SessionLock.cfg` | a beating session keeps the host, the jobs of two sessions do not meet, released stays free, abandoned expires, loss is noticed | 2 sessions, TTL 2 |
| backend | `Backend.cfg` | work known to the service protected until it is over, a loss reaches every task, nothing leaks but what Ray failed to stop, no stray tasks, cancellations can be repeated | 1 host, 2 jobs, any number of setups and teardowns |
| job_results | `JobResults.cfg` | outputs of one attempt, recorded as successful but for three named cases; agreement of the three histories, finality of the verdict | 3 attempts; connection, host loss, collection and timeout failures are retried |
| provision | `Provision.cfg` | a provisioned host is ready, replacement is atomic, every failure can be recovered from | 2 versions of the source, 3 faults, any number of sessions and purges |

### Bounds, and why they are enough

* **Hosts and slots.** One host with two slots gives co-tenants, and therefore
  evictions of an attempt by somebody else's expiry. A second host gives
  choice: most free slots first, ties, exclusion of tried hosts. The instance of
  `lease_service` has both. `Dispatch` runs on one host, because its properties
  are per host and `LeaseService` covers the choice. `JobsFinish` uses one slot,
  so that jobs compete; two slots for two jobs would never make a job wait.
* **Tokens, jobs, attempts.** Three tokens fill the host with two slots and
  leave one caller waiting or on the other host. Two jobs with two attempts give
  a retry on the same host after another job's failure.
* **Lease TTL 2.** A worker that beats after one tick renews its lease, at the
  second tick it is too late: both sides of the deadline, and a lease that can be
  kept for ever. With a TTL of 1 no heartbeat would change anything. A longer TTL
  only adds stuttering between the same events: every step is possible between
  any two ticks.
* **Session lock TTL 2.** The boundary `age = TTL` is still live and `TTL + 1`
  is stale; 2 leaves room for a heartbeat that arrives late but in time. `age`
  and `since` stop at `TTL + 1`, beyond which no guard tells values apart. One
  request per operation and session is in flight; a second copy of a heartbeat
  that was given up would have the same effect as the first.
* **Backend.** Two jobs make a batch that fails half way, a batch after another,
  and a loss in the middle of either. With one host, the loss always concerns
  the only host; with two hosts and one job (1 759 585 states, run by hand by
  changing the two constants) the same invariants hold. Setups and teardowns are
  not counted; each job is submitted once.
* **Results.** Three attempts allow a first, a middle and a last one; the fourth
  would behave like the third. The retry policy leaves kinds out
  (`COMMAND`, `OUTPUT_MISSING`, `INTERNAL`), so both branches of the decision to
  retry are taken. There is at most one cancellation, as Ray delivers it.
* **Provisioning.** Two versions of the source tell the session's own tree from
  a leftover. Three faults allow one failed session, one whose recovery fails,
  and one that fails after that; the proofs need no bound. Liveness (`Recovery`)
  needs one: with a fault in every session nothing would ever succeed.
* **Symmetry** among jobs is used in `dispatch` and `backend`. Their properties
  name no job and they contain no liveness property.

`CHECK_DEADLOCK FALSE` appears everywhere because each system may come to rest:
all jobs finished, the attempt over, every session gone.

### Fairness, and why the code justifies it

* `LeaseService!Fairness`: the actor's event loop runs woken coroutines, and a
  live lease is eventually released by the `finally` clause of `run_job`.
  Without the second, callers may wait as long as the holder likes. Crashed
  holders are the subject of `JobsFinish`, where nothing of the kind is assumed.
* `Dispatch!DFairness`: workers that have not crashed go on; woken calls run;
  sweepers go on, because `_sweep_loop` catches every exception and tries again;
  time passes. Nothing is assumed about reconciliation: `SweepGiveUp` may win
  each time. That an attempt ends is assumed; a job without `timeout_s` that
  runs for ever is outside the property.
* `AttemptSupervisor!FairSpec`: only the supervisor's own cleanup steps, all of
  them bounded by time limits in the code.
* `SessionLock!Fairness`: time passes, the heartbeat thread runs, and a session
  that tries for ever gets one heartbeat executed and answered (strong fairness
  on `ExecBeat` and `BeatLost`: the link may fail any number of times, not every
  time). `LossIsNoticed` needs it; nothing else is assumed to get through.

* `Provision!FairSpec`: weak fairness of the whole next-state relation. Users
  call `setup` again after a failure, and a session goes on to its end, since
  each of its commands has a time limit. Faults are bounded, as said above.

`JobResults`, `Backend` and the safety parts of the others assume no fairness.

## 4. What is proved

TLAPS checks the following for *every* value of the constants: hosts,
capacities, tokens, jobs, attempts, sessions, lease durations, retry policies,
numbers of faults. The assumptions are `PoolAssumption` (hosts are finitely many
numbers, capacities and the lease duration are positive: what `RemoteHost` and
`SshRayBackend` validate), `DispatchAssumption` (tokens are pairs of a job and
an attempt number), `ResultsAssumption` (a policy allows at least one attempt
and retries known failure kinds), `ProvisionAssumption` and the assumption on
the TTL in `SessionLock`. The first four theorems of `AccountingProofs` also
assume `OneSweeper`, which is the point of them: with two sweepers
`OrphanMetadata` is false, as the run `two_sweepers` shows.

| Theorem | States |
|---|---|
| `TypeCorrect` | `TypeOK` |
| `SlotSafety` | `SlotsMatchLeases`: the books agree and no slot is lent twice |
| `QuarantineSafety`, `CustodySafety` | `QuarantineIsEmpty`; `OrphanCustody` |
| `WakeupSafety` | `NoLostWakeup` |
| `WorkFixed` | `WorkFixedInQuarantine` |
| `ExpiryFinal` | `NoRevival` |
| `Refinement` | the lease service implements `SlotTable` |
| `AcquireTheorem` | `AcquireDecides`: a call with a candidate always finds a best host and a lowest free slot |
| `DispatchTypeCorrect` | `DTypeOK` |
| `Conformance` | `ServiceConformance`: workers and sweepers make only the calls that `LeaseService` allows |
| `UntriedTheorem` | `UntriedFirst`: a retry gets a host it tried only when every live host was tried |
| `DispatchIsSafe`, `DispatchImplementsTable` | the service's invariants, and the slot table, under the real workers and sweepers |
| `Accounting` | `ProcAccountedFor`, with one sweeper: a process that may run holds a lease or keeps its host out of service, except for an attempt that was never recorded and one whose cleanup an interrupt cut short |
| `OrphanMetadata` | `OrphanMetadataKept`, with one sweeper |
| `NoOverloadTheorem` | `NoOverload`: a host never carries more attempts that may run than it has slots, with one sweeper and the exceptions of `ProcAccountedFor` |
| `SlotsPassQuietTheorem` | `SlotsPassQuiet`: when a slot is granted, every attempt that may run on the host holds another slot of it, likewise |
| `StrandedForever` | a host that is out of service with nothing to reconcile never comes back (finding 1), with any sweepers |
| `AttemptTyped`, `QuietTheorem`, `LossTheorem`, `SuccessTheorem`, `FinalLossTheorem` | of `AttemptSupervisor`: `TypeOK`, `SettledIsQuiet`, `LossIsReported`, `SuccessIsGenuine`, `LossIsFinal` |
| `ContractTheorem` | `ImplementsContract`: the supervision of an attempt implements `AttemptContract` |
| `ResultsTyped`, `OutputsTheorem`, `HistoryTheorem`, `VerdictTheorem` | of `JobResults`: `TypeOK`, `OutputsOfOneSuccess`, `HistoryAgrees`, `VerdictIsFinal` |
| `EarnedTheorem`, `FinishedTheorem` | `AttemptsAreEarned`: no attempt leaves a trace unless all before it failed in a way that is retried; `FinishedIsFinal`: the record of a finished attempt and `outputs/` never change |
| `ProvisionTyped`, `HostReadyTheorem`, `AtomicReplaceTheorem` | of `Provision`: `TypeOK`, `HostReady`, `AtomicReplace` |
| `LockTyped`, `FreshHolderTheorem`, `ReleasedTheorem`, `JobsTheorem` | of `SessionLock`: `TypeOK`, `FreshHolderOwns`, `ReleasedStaysFree`, `JobsOfOneSession` |
| `BackendTyped`, `ProtectionTheorem`, `LeakTheorem`, `LossTheorem`, `StrayTheorem`, `MarksTheorem` | of `Backend`: `TypeOK`, `WorkIsProtected`, `NothingLeaks`, `LossReachesTasks`, `NoStrayTasks`, `MarksAreTrue` |

Each safety property of a run is stated by one of these theorems. `AcquireDecides`,
`SlotsPassQuiet`, `AttemptsAreEarned`, `FinishedIsFinal`, `StrandedForever`,
`QuarantineIsEmpty`, `WorkFixedInQuarantine` and `LossIsReported` are stated by
theorems only: the runs need not repeat them. The last three are lemmas of
stronger results (`Refinement`, `Accounting`, `ContractTheorem`).

**The argument for the service.** `IInv` of `LeaseServiceProofs` is `TypeOK`,
`SlotsMatchLeases`, `QuarantineIsEmpty`, `OrphanCustody`, `GrantsKnown` and
`NoLostWakeup`. None but `TypeOK` is inductive alone. Freeing the slot of a
dropped lease keeps the books equal only because no other lease names that slot.
A path is not in two places only because a quarantined host has no leases and a
token is granted once, and the latter needs `GrantsKnown`, which ties leases to
the calls that were answered. `NoLostWakeup` depends on which operations may
enlarge `Candidates`: the proof shows for each that either it notifies or it
cannot. Refinement uses `SlotsMatchLeases` to know that a slot which is not in
`used` has no owner. `AcquireTheorem` rests on two facts about finite sets: every
strict order has an element with nothing before it (`FiniteFirst`, from the
well-foundedness of the natural numbers, for the `max` over free slots and
labels), and a host with a free slot has a lowest one (`NatMin`).

**The argument for the callers.** Every step of `Dispatch` is a step of
`LeaseService` or leaves its variables unchanged. The one thing to know is
`HoldersGranted`: a worker that is past its `acquire` was granted its token, so
it may use it. This is inductive because a grant is final (`GrantIsFinal`). The
invariants of the service then hold in `Dispatch` without a second proof, and
so does the refinement of `SlotTable`.

**The argument for processes and paths** (`AccountingProofs`) follows the path
of a `pid.json` from the moment it is recorded. `Accounted`: the recorded path
of a process that runs or may still be started is with its live lease or among
the orphans of its host. `ReleasesSettled`: a worker releases a lease that is
still live only when its process is gone, or the attempt is marked as escaped.
`SweepsHonest`: while a sweeper works on a host the host stays quarantined, and
every orphan is dead or still on the sweeper's list, which is empty when it
reports; a second sweeper that readmits the host breaks exactly this.
`Unstarted`: an attempt whose worker never got so far has no process.

`NoOverload` is not inductive, and counting the leases of a host does not help
once they are dropped. The proof counts the attempts in `Known` of which the
process may run *or may still be started* (`OpenOn`). On a host in service each
holds a lease there (`OpenHoldsLease`), and leases are no more than slots
(`LeasesFit`). On a host in quarantine nothing is granted, so their number, which
was within the slots when the host went out of service, can only shrink
(`OpenGrows`, `Carried`); and it comes back only when all of them are dead.
`SlotsPassQuiet` uses the same facts for the step of a grant.

`StrandedForever` has an invariant of its own, for any number of sweepers: a
host in quarantine without orphans gets none while it is there (`WorkKept`), so
no new snapshot leads a sweep to report it (`SweepersTurn`), and only a report
readmits (`Readmission`).

**The argument for one attempt** (`AttemptProofs`). The remote side and the SSH
thread only move forward (`Remains`), and the supervisor's position tells how
far they have got (`Position`, `Handling`): whoever read `pid.json` knows that
there was a group; the last probe shows that it is gone. `Signallers` says who
can have signalled the group by now: the supervisor does so only in its cleanup,
from which no way leads to a success, and a sweeper only once the lease was
dropped. `LossIsFinal` follows
from `Doomed`: once the loss was noticed, no position the supervisor can
still reach ends in a verdict on the command. `ContractTheorem` maps each step to
one of `AttemptContract` or to none: the last probe and a result without an
error are what makes `EndSettled` possible, and `LossIsReported` is what makes a
fenced supervisor end in another way.

**The argument for results** (`JobResultsProofs`). `Position` says which verdict
and which outputs go with the task's step; `Publication` that `outputs/` belongs
to the attempt in progress or to the last one of the history; `Records` that the
finished attempts are on disk, that only the published one succeeded, and that
it is recorded as anything else only when a cancellation was delivered;
`Reports` that `result.json` is written last, fits the history, and is all that
is ever answered. For the attempts as a sequence one lemma, `StepTouches`, goes
through the actions once: no step touches an attempt but the one in progress,
only `Release` adds to the history, and a decided job is not resumed. `EarnedInv`
needs no more, and neither does `FinishedIsFinal`.

**The argument for provisioning** (`ProvisionProofs`). `Publication` says what
the script finds before each of its commands: the new tree is complete in
`staging` until `promote` and in its place afterwards, the old one is dropped
only where it is not the tree that counts, and `promote` finds the place free.
`Sources` and `Environment` say what the session has put in place by its current
step, and `Ruins` that a ruin counts only during a purge or after one that was
cut short.

**The argument for the session lock** (`SessionLockProofs`). `Ages`:
the owner's clock is the file's. `Owners`, the strengthening of
`FreshHolderOwns`: a session that has not given up and is within the TTL owns
the lock even before it knows. `Acquires` and `Releases` bound the requests that
a session may have left behind when it went on: no acquire of a session that
released, and no release of one that still holds the lock. `JobsOfOneSession`
also needs that a session whose jobs run has not stopped beating (`Drained`), and
that one which was told of a loss is `Superseded` and stays so, also when the
answer is read late (`Alarms`): only its own pending acquire, of which there is
none, or a heartbeat of the owner could make the lock fresh for it again.

**The argument for the backend** (`BackendProofs`). `Phases` relates the flags to
the main thread's position; `Holdings` says that locks, heartbeats, actor and
runtime hang on the sessions, and in which order they are given back. `Work` is
the heart: a drain that has seen its tasks done, then no lease, then no orphan,
in this order, knows that nothing runs, because a lease only comes from an
unfinished task and an orphan only from a lease. `Known` and `Cancels` follow a
task between its creation and its record, when a loss can miss it, to the
recheck that catches it; they hold for both threads that may handle a loss.
`RayMoves` lists all that a step can do to the runtime.

**Only model-checked.** Liveness (`WaitersAnswered`, `JobsFinish`, `CleanupEnds`,
`AbandonedLockExpires`, `LossIsNoticed`, `Recovery`): it needs fairness and
`ENABLED`, which are beyond this prover.

## 5. Where the code and its documents disagree

Each is a run that ends in a counterexample. The quoted documents are in
`docs/superpowers/specs/` and `README.md` at the top of the repository.

1. **A late quarantine can never be lifted** (`late_eviction`). The lease of a
   worker expires; the sweeper quarantines the host, kills the process and
   readmits the host; then the worker notices the loss and calls
   `lease.quarantine(host)`. No lease with a recorded path is dropped by that,
   so there is nothing to reconcile, and `_sweep_once` requires
   `bool(pid_paths)` to call a host clean. The host stays out for the whole
   session (`StrandedForever`) and no teardown can drain.
2. **A process the service does not know** (`late_register`). `register_pid` is
   ignored without notice when the lease is already gone, and `run_job` starts
   the attempt all the same. If a co-tenant's path is reconciled, the host is
   readmitted while the unrecorded process runs. `ProcAccountedFor` shows that,
   together with finding 4, this is the only hole in `Dispatch`: every attempt
   that could register, and whose cleanup was not cut short, is accounted for.
3. **Two sweeps at once** (`two_sweepers`). `mark_reconciled` drops all orphan
   paths of the host, not those the sweep confirmed. A slow sweep with an old
   snapshot can drop paths recorded after another sweep readmitted the host.
   With one sweeper `OrphanMetadataKept` holds.
4. **A cancellation during cleanup** (`attempt_cancel`). `_kill_remote_pgid`
   catches `Exception`; a `KeyboardInterrupt` passes through, and `run_job` takes
   it for an ordinary cancellation and releases the lease. The same happens when
   the interrupt arrives between the end of a failed cleanup and the call of
   `lease.quarantine`. `Dispatch` has both as `EndEscaped`.

## 6. What is left out, and known limits

* What `Dispatch` shows about capacity leaves out, by name, the attempts of
  findings 2 and 4 (`Known`). `Backend` does not follow their processes, and
  `JobsOfOneSession` of `SessionLock` assumes that a drain saw all jobs of its
  session end (`StopBeats`), which such a process defeats.
* `Backend` takes `provision` as one step with any outcome, so an interrupt in the
  middle of it is not a step; it does not model the sweeper thread as such (a
  sweeper of an earlier setup that survived its `join`), nor a heartbeat thread
  that outlives `stop`. Batch directories are not modelled. That a session may
  lose its lock between the check and the `rm` of a purge is a step of the model,
  but no property forbids it.
* `Provision` lets sessions follow one another: a script or a `uv sync` of an
  earlier session that is still running when the next one begins is not
  modelled. Both would work on the same fixed staging paths.
* The remote directories of runs are not modelled; the code deletes that of no
  successful run before a purge. The source's digest is computed from the
  local tree after the push, so a file edited in between is not noticed.
* Further limits of the code that the models reach or state, as exceptions in
  their properties rather than as findings:
  - A job that a sweeper signalled can count as a success. Its lease was dropped
    for a co-tenant's expiry, its worker's next heartbeat is still to come, and it
    traps SIGTERM and exits with zero: the check before the result is read
    (`scheduling.py:367-371`) passes, and lines 499-508 publish what may be half
    the work. `SuccessIsGenuine` allows this case and no other.
  - "Final outputs come from exactly one successful attempt" (section 9.1 of the
    design) fails in three cases, each named in `OutputsOfOneSuccess`. Nothing
    undoes the rename at `scheduling.py:508`. An interrupt before the attempt is
    recorded (line 520) leaves outputs of an attempt recorded as CANCELLED or not
    at all, and a later one outputs in a CANCELLED job. A failing write of
    `attempt.json` leaves them in a FAILED job. The death of the worker leaves
    them without a record.
  - When `ray.shutdown` raises, the runtime stays, the backend no longer counts it
    as its own, and every later `setup` refuses to start until other code stops it
    (`left` in `Backend`; the exceptions in `NothingLeaks`).
  - A purge cut short leaves an environment that may still look valid, and the
    next setup reuses it (the last disjunct of `HostReady`). A dispatcher that
    never modifies an environment in place would remove its manifest first.
  - A job cancelled while it waits for a retry, or whose `run_job` is left by an
    exception, reports no attempts, although their files exist (the exception in
    `HistoryAgrees`).
  - When the worker process dies, `status` and `resolve` raise instead of
    returning a failed result (`Die` in `JobResults`).
  - The takeover of a stale session lock looks at the heartbeat's age only, not
    at runners of the old session that may be alive.
  - `setup` refuses to start when a Ray runtime exists, but looks only before
    provisioning; the rollback then shuts down a runtime that other code started
    meanwhile (`StopRayAfterRollback`).
* Clocks only move forward. The lock script uses the host's wall clock and a
  step back or forward is not modelled.
* The death of the lease actor is not modelled: it ends the whole session.
* Process group ids are not reused, and a job whose leader has exited left no
  other process in its group.
* Forwarding of output, log contents, SSH options, parsing, hashing and the
  validation of single values are left out. The constants' assumptions
  correspond to the bounds the validation guarantees.

## 7. Plan

*Done:* the models (`SlotTable` and `LeasePool` with `LeaseService`,
`AttemptContract` and `AttemptSupervisor`, `Dispatch`, `JobResults`,
`SessionLock`, `Provision`, `Backend`) and the proofs about all of them.

*Left:*

1. `Provision`: commands of an earlier session that overlap with the next one's,
   and the workspaces and run directories.
2. `Backend`: an interrupt during `provision`, the batch directories, a heartbeat
   thread that outlives `stop`.

## 8. Running it

```
tlc -config Dispatch.cfg MCDispatch.tla
tlc -config Provision.cfg Provision.tla
for m in LeaseService Dispatch Accounting Attempt JobResults Provision SessionLock Backend
do tlapm ${m}Proofs.tla; done
```

`PROJECT.json` lists the runs with their modules, the mutants, the source lines
every definition models, the hazards with the properties that watch them, and
the findings. The largest run is `backend` (about 4 million states, a good
minute); the proofs take under a minute.
