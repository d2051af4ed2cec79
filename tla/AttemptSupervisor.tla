------------------------- MODULE AttemptSupervisor -------------------------
(***************************************************************************)
(* One job attempt on one host, from execute_attempt and _invoke_runner    *)
(* (scheduling.py) down to the remote runner (remote_runner.py) and the    *)
(* job's process group.  Five parties interleave:                          *)
(*                                                                         *)
(*  - the supervisor: the main thread of the attempt, which watches,       *)
(*    cleans up (_kill_remote_pgid, terminate_process_group), collects the *)
(*    outputs and classifies the outcome;                                  *)
(*  - the worker thread that holds the SSH command running the runner;     *)
(*  - the runner on the host: spawns the job, writes pid.json, waits for   *)
(*    the job and writes result.json;                                      *)
(*  - the job's process group;                                             *)
(*  - the outside: the SSH link, the heartbeat thread that may flag the    *)
(*    lease as lost, the sweeper that may kill the group of a dropped      *)
(*    lease, and Ray, which delivers one KeyboardInterrupt to the main     *)
(*    thread when the job is cancelled.                                    *)
(*                                                                         *)
(* Abstractions.  Time bounds (the job timeout, the 0.5 s wait for         *)
(* pid.json, the grace period, the 0.5 s join) may elapse at any moment.   *)
(* A process group id is never reused while the attempt lasts, and a job   *)
(* whose leader has exited leaves nothing running in its group.            *)
(* Definitions named Op_Fault are faulty variants of Op (see LeasePool).   *)
(***************************************************************************)
EXTENDS Naturals

VARIABLES
    pc,         \* where the supervisor is
    exc,        \* the exception that sent it into cleanup
    confirmed,  \* what the cleanup of a timed-out job established
    outcome,    \* what run_job makes of the attempt
    worker,     \* the SSH worker thread: its state and the error it recorded
    runner,     \* the runner process on the host
    group,      \* the job's process group
    exitCode,   \* how the job's leader ended
    signalled,  \* history: who signalled the group while the job ran
    pidFile,    \* pid.json can be read
    resultFile, \* result.json was written
    dropped,    \* the lease service no longer knows this attempt's lease
    lost,       \* _lost: the heartbeat thread noticed
    cancelled   \* the KeyboardInterrupt was delivered

supVars    == <<pc, exc, confirmed, outcome>>
remoteVars == <<runner, group, exitCode, signalled, pidFile, resultFile>>
leaseVars  == <<dropped, lost>>
vars == <<supVars, worker, remoteVars, leaseVars, cancelled>>

CleanupSteps == {"kill", "term", "probe", "sigkill", "verify", "join", "logs"}
Steps == {"prepare", "watch", "joined", "collect", "done"} \cup CleanupSteps

Exceptions == {"none", "timeout", "lost", "cancel", "ssh", "internal"}

\* AttemptResult verdicts; CRASHED is an exception run_job does not handle.
Verdicts == {"SUCCEEDED", "COMMAND", "COLLECTION", "OUTPUT_MISSING", "TIMEOUT",
             "SSH", "HOST_LOST", "INTERNAL", "CANCELLED", "CRASHED"}

\* How the attempt left the host: the remote side was seen to be finished or
\* never started (settled), the lease was lost (lost), cleanup could not be
\* confirmed (unconfirmed: _HostCleanupError), or an exception got out of the
\* cleanup itself (escaped).
Endings == {"settled", "lost", "unconfirmed", "escaped"}

ExitCodes == {"zero", "nonzero"}

NoOutcome == [verdict |-> "NONE", ending |-> "NONE", published |-> FALSE]
Outcome == [verdict : Verdicts, ending : Endings, published : BOOLEAN]

TypeOK ==
    /\ pc \in Steps
    /\ exc \in Exceptions
    /\ confirmed \in BOOLEAN
    /\ outcome \in Outcome \cup {NoOutcome}
    /\ worker \in [state : {"unstarted", "running", "returned"},
                   error : {"none", "ssh", "internal"}]
    /\ runner \in {"absent", "starting", "spawned", "waiting", "gone"}
    /\ group \in {"none", "alive", "dead"}
    /\ exitCode \in ExitCodes \cup {"none"}
    /\ signalled \subseteq {"supervisor", "sweeper"}
    /\ {pidFile, resultFile, dropped, lost, cancelled} \subseteq BOOLEAN

Init ==
    /\ pc = "prepare" /\ exc = "none" /\ confirmed = FALSE /\ outcome = NoOutcome
    /\ worker = [state |-> "unstarted", error |-> "none"]
    /\ runner = "absent" /\ group = "none" /\ exitCode = "none" /\ signalled = {}
    /\ pidFile = FALSE /\ resultFile = FALSE
    /\ dropped = FALSE /\ lost = FALSE /\ cancelled = FALSE

-----------------------------------------------------------------------------
(* The remote side *)

\* sshd starts the runner.
RunnerStarts ==
    /\ worker.state = "running" /\ runner = "absent"
    /\ runner' = "starting"
    /\ UNCHANGED <<supVars, worker, group, exitCode, signalled, pidFile, resultFile,
                   leaseVars, cancelled>>

\* Popen(start_new_session=True)
RunnerSpawns ==
    /\ runner = "starting"
    /\ runner' = "spawned" /\ group' = "alive"
    /\ UNCHANGED <<supVars, worker, exitCode, signalled, pidFile, resultFile, leaseVars,
                   cancelled>>

\* The write of pid.json becomes readable.
RunnerRecordsPid ==
    /\ runner = "spawned"
    /\ runner' = "waiting" /\ pidFile' = TRUE
    /\ UNCHANGED <<supVars, worker, group, exitCode, signalled, resultFile, leaseVars,
                   cancelled>>

\* A bad manifest, a command that cannot be executed, or a pid.json that cannot
\* be written: the runner exits nonzero and, in the last case, leaves the job.
RunnerBreaks ==
    /\ runner \in {"starting", "spawned"}
    /\ runner' = "gone"
    /\ UNCHANGED <<supVars, worker, group, exitCode, signalled, pidFile, resultFile,
                   leaseVars, cancelled>>

\* A log cannot be written: the drain thread kills the group and the runner
\* exits nonzero without a result.
RunnerLosesLog ==
    /\ runner = "waiting"
    /\ runner' = "gone" /\ group' = "dead"
    /\ exitCode' = IF group = "alive" THEN "nonzero" ELSE exitCode
    /\ UNCHANGED <<supVars, worker, signalled, pidFile, resultFile, leaseVars, cancelled>>

\* proc.wait() returned: write result.json and exit 0.
RunnerReports ==
    /\ runner = "waiting" /\ group = "dead"
    /\ runner' = "gone" /\ resultFile' = TRUE
    /\ UNCHANGED <<supVars, worker, group, exitCode, signalled, pidFile, leaseVars,
                   cancelled>>

\* The job ends by itself.
JobExits(code) ==
    /\ group = "alive"
    /\ group' = "dead" /\ exitCode' = code
    /\ UNCHANGED <<supVars, worker, runner, signalled, pidFile, resultFile, leaseVars,
                   cancelled>>

\* A party signals the group.  A signal ends the job with one of the codes, or
\* the job holds out.  SIGTERM may be trapped, and the job may then still exit
\* with zero; SIGKILL leaves no choice.
Signal(party, codes) ==
    IF group = "alive"
    THEN /\ signalled' = signalled \cup {party}
         /\ \/ group' = "dead" /\ exitCode' \in codes
            \/ UNCHANGED <<group, exitCode>>
    ELSE UNCHANGED <<group, exitCode, signalled>>

-----------------------------------------------------------------------------
(* The worker thread *)

\* _run_checked saw the runner's exit status.
WorkerReturns ==
    /\ worker.state = "running" /\ runner = "gone"
    /\ worker' = [state |-> "returned",
                  error |-> IF resultFile THEN "none" ELSE "internal"]
    /\ UNCHANGED <<supVars, remoteVars, leaseVars, cancelled>>

\* The SSH connection fails or was never made; the runner, if any, goes on.
WorkerDisconnects ==
    /\ worker.state = "running"
    /\ worker' = [state |-> "returned", error |-> "ssh"]
    /\ UNCHANGED <<supVars, remoteVars, leaseVars, cancelled>>

-----------------------------------------------------------------------------
(* The lease *)

\* Expiry of this lease or of a co-tenant's takes the lease away.
LeaseDrops ==
    /\ ~dropped
    /\ dropped' = TRUE
    /\ UNCHANGED <<supVars, worker, remoteVars, lost, cancelled>>

\* The heartbeat was rejected, or the actor did not answer in time.
LossNoticed ==
    /\ ~lost /\ pc # "done"
    /\ lost' = TRUE
    /\ UNCHANGED <<supVars, worker, remoteVars, dropped, cancelled>>

\* The sweeper reconciles the host: SIGTERM to the recorded group, SIGKILL
\* after the grace period.
SweeperSignals ==
    /\ dropped /\ pidFile /\ group = "alive"
    /\ Signal("sweeper", ExitCodes)
    /\ UNCHANGED <<supVars, worker, runner, pidFile, resultFile, leaseVars, cancelled>>

-----------------------------------------------------------------------------
(* The supervisor: prepare, watch, collect *)

Finish(verdict, ending, published) ==
    /\ pc' = "done"
    /\ outcome' = [verdict |-> verdict, ending |-> ending, published |-> published]

\* Directories, source, inputs and manifest are in place: worker.start().
Prepare ==
    /\ pc = "prepare"
    /\ pc' = "watch"
    /\ worker' = [worker EXCEPT !.state = "running"]
    /\ UNCHANGED <<exc, confirmed, outcome, remoteVars, leaseVars, cancelled>>

\* A remote command or a push failed before anything was started.
PrepareFails(verdict) ==
    /\ pc = "prepare"
    /\ Finish(verdict, "settled", FALSE)
    /\ UNCHANGED <<exc, confirmed, worker, remoteVars, leaseVars, cancelled>>

Raise(e) ==
    /\ exc' = e
    /\ pc' = "kill"
    /\ UNCHANGED <<confirmed, outcome>>

Watch ==
    /\ pc = "watch"
    /\ \/ lost /\ Raise("lost")
       \/ Raise("timeout")
       \/ /\ worker.state = "returned"
          /\ pc' = "joined"
          /\ UNCHANGED <<exc, confirmed, outcome>>
    /\ UNCHANGED <<worker, remoteVars, leaseVars, cancelled>>

Joined_NoLastCheck ==
    /\ pc = "joined"
    /\ \/ worker.error # "none" /\ Raise(worker.error)
       \/ /\ worker.error = "none"
          /\ pc' = "collect"
          /\ UNCHANGED <<exc, confirmed, outcome>>
    /\ UNCHANGED <<worker, remoteVars, leaseVars, cancelled>>

\* The worker ended: its error first, then a last look at the lease.
Joined ==
    /\ pc = "joined"
    /\ \/ worker.error # "none" /\ Raise(worker.error)
       \/ worker.error = "none" /\ lost /\ Raise("lost")
       \/ /\ worker.error = "none" /\ ~lost
          /\ pc' = "collect"
          /\ UNCHANGED <<exc, confirmed, outcome>>
    /\ UNCHANGED <<worker, remoteVars, leaseVars, cancelled>>

JobSucceeded_Assumed == TRUE

\* returncode == 0 in result.json
JobSucceeded == exitCode = "zero"

\* The verdicts that result.json and the collected outputs allow.
CollectVerdicts ==
    {"SSH", "CRASHED"} \cup
    IF JobSucceeded THEN {"COLLECTION", "OUTPUT_MISSING", "SUCCEEDED"}
    ELSE {"COMMAND"}

\* Read result.json, pull the logs and outputs, classify; publish on success.
\* A local write that fails crashes the attempt, before or after publication.
Collect ==
    /\ pc = "collect" /\ resultFile
    /\ \E v \in CollectVerdicts, published \in BOOLEAN :
          /\ published => JobSucceeded /\ v \in {"SUCCEEDED", "CRASHED"}
          /\ v = "SUCCEEDED" => published
          /\ Finish(v, "settled", published)
    /\ UNCHANGED <<exc, confirmed, worker, remoteVars, leaseVars, cancelled>>

-----------------------------------------------------------------------------
(* The supervisor: cleanup *)

VerdictOf_Raw(e) == IF e = "timeout" THEN "TIMEOUT" ELSE e

VerdictOf(e) ==
    CASE e = "timeout"  -> "TIMEOUT"
      [] e = "lost"     -> "HOST_LOST"
      [] e = "cancel"   -> "CANCELLED"
      [] e = "ssh"      -> "SSH"
      [] e = "internal" -> "INTERNAL"

EndingOf_LossIsSettled(e, clean) == IF clean THEN "settled" ELSE "unconfirmed"

EndingOf(e, clean) ==
    IF ~clean THEN "unconfirmed" ELSE IF e = "lost" THEN "lost" ELSE "settled"

\* The end of _invoke_runner's handler.  A timed-out job goes on to have its
\* logs pulled; every other exception ends the attempt.
CleanedUp(clean) ==
    IF exc = "timeout"
    THEN pc' = "logs" /\ confirmed' = clean /\ UNCHANGED outcome
    ELSE Finish(VerdictOf(exc), EndingOf(exc, clean), FALSE) /\ UNCHANGED confirmed

\* Nothing but the supervisor's own state and, through a signal, the group.
Cleanup(step) ==
    /\ pc = step
    /\ UNCHANGED <<exc, worker, runner, pidFile, resultFile, leaseVars, cancelled>>

SeekPid_Unbounded ==
    /\ Cleanup("kill")
    /\ pidFile /\ pc' = "term"
    /\ UNCHANGED <<confirmed, outcome, group, exitCode, signalled>>

\* cat pid.json until it can be read or the wait is over.
SeekPid ==
    /\ Cleanup("kill")
    /\ IF pidFile THEN pc' = "term" /\ UNCHANGED <<confirmed, outcome>>
                  ELSE CleanedUp(FALSE)
    /\ UNCHANGED <<group, exitCode, signalled>>

SendTerm ==
    /\ Cleanup("term")
    /\ Signal("supervisor", ExitCodes)
    /\ pc' = "probe" /\ UNCHANGED <<confirmed, outcome>>

\* kill -0 until the group is gone or the grace period is over.
Probe ==
    /\ Cleanup("probe")
    /\ pc' = IF group = "alive" THEN "sigkill" ELSE "join"
    /\ UNCHANGED <<confirmed, outcome, group, exitCode, signalled>>

SendKill ==
    /\ Cleanup("sigkill")
    /\ Signal("supervisor", {"nonzero"})
    /\ pc' = "verify" /\ UNCHANGED <<confirmed, outcome>>

\* One last probe decides.
Verify ==
    /\ Cleanup("verify")
    /\ IF group = "alive" THEN CleanedUp(FALSE)
                          ELSE pc' = "join" /\ UNCHANGED <<confirmed, outcome>>
    /\ UNCHANGED <<group, exitCode, signalled>>

JoinWorker_NotAwaited ==
    /\ Cleanup("join")
    /\ CleanedUp(TRUE)
    /\ UNCHANGED <<group, exitCode, signalled>>

\* The worker thread must end within its 0.5 s, or cleanup is not confirmed.
JoinWorker ==
    /\ Cleanup("join")
    /\ \/ worker.state # "running" /\ CleanedUp(TRUE)
       \/ worker.state = "running" /\ CleanedUp(FALSE)
    /\ UNCHANGED <<group, exitCode, signalled>>

\* Any SSH command of the cleanup raises; _kill_remote_pgid answers False.
CleanupDisconnects ==
    /\ \E step \in CleanupSteps \ {"join", "logs"} : Cleanup(step)
    /\ CleanedUp(FALSE)
    /\ UNCHANGED <<group, exitCode, signalled>>

\* Pull the logs of a timed-out job, record TIMED_OUT, and report a cleanup
\* that was not confirmed.
PullLogs ==
    /\ Cleanup("logs")
    /\ Finish("TIMEOUT", EndingOf("timeout", confirmed), FALSE)
    /\ UNCHANGED <<confirmed, group, exitCode, signalled>>

\* attempt.json cannot be written: the error replaces what was to be reported.
RecordFails ==
    /\ Cleanup("logs")
    /\ Finish("CRASHED", "escaped", FALSE)
    /\ UNCHANGED <<confirmed, group, exitCode, signalled>>

-----------------------------------------------------------------------------
(* Ray delivers the cancellation, once *)

\* While preparing: nothing was started, or _invoke_runner was just entered.
CancelPrepare ==
    /\ pc = "prepare"
    /\ \/ Finish("CANCELLED", "settled", FALSE) /\ UNCHANGED exc
       \/ pc' = "kill" /\ exc' = "cancel" /\ UNCHANGED outcome

\* While supervising: caught by _invoke_runner, which cleans up.
CancelRunning ==
    /\ pc \in {"watch", "joined"}
    /\ pc' = "kill" /\ exc' = "cancel" /\ UNCHANGED outcome

\* While cleaning up after another exception: nothing in the cleanup catches
\* it, run_job takes it for an ordinary cancellation.
CancelCleanup ==
    /\ pc \in CleanupSteps
    /\ Finish("CANCELLED", "escaped", FALSE) /\ UNCHANGED exc

\* While collecting, before or after publication.
CancelCollect ==
    /\ pc = "collect"
    /\ \E published \in {FALSE, JobSucceeded} :
          Finish("CANCELLED", "settled", published)
    /\ UNCHANGED exc

Cancel ==
    /\ ~cancelled /\ cancelled' = TRUE
    /\ CancelPrepare \/ CancelRunning \/ CancelCleanup \/ CancelCollect
    /\ UNCHANGED <<confirmed, worker, remoteVars, leaseVars>>

\* While the main thread is inside an SSH command, the SSH library may forward
\* the interrupt to the remote command instead of raising it.
CancelAbsorbed ==
    /\ pc \in {"prepare", "collect"} \cup CleanupSteps
    /\ ~cancelled /\ cancelled' = TRUE
    /\ UNCHANGED <<supVars, worker, remoteVars, leaseVars>>

-----------------------------------------------------------------------------
Remote ==
    \/ RunnerStarts \/ RunnerSpawns \/ RunnerRecordsPid
    \/ RunnerBreaks \/ RunnerLosesLog \/ RunnerReports
    \/ \E code \in ExitCodes : JobExits(code)

CleanupStep ==
    SeekPid \/ SendTerm \/ Probe \/ SendKill \/ Verify \/ JoinWorker \/ PullLogs

Next ==
    \/ Remote
    \/ WorkerReturns \/ WorkerDisconnects
    \/ LeaseDrops \/ LossNoticed \/ SweeperSignals
    \/ Prepare \/ \E v \in {"SSH", "INTERNAL", "CRASHED"} : PrepareFails(v)
    \/ Watch \/ Joined \/ Collect
    \/ CleanupStep \/ CleanupDisconnects \/ RecordFails
    \/ Cancel \/ CancelAbsorbed

Spec == Init /\ [][Next]_vars

\* The supervisor's thread runs, every SSH command has a time limit, and each
\* wait in the cleanup is bounded.  No failure is assumed to happen.
FairSpec == Spec /\ WF_vars(CleanupStep)

-----------------------------------------------------------------------------
(* Properties *)

\* The slot's capacity is given back, that is, the lease is released without
\* quarantining the host (run_job's handlers).
CapacityReturned == pc = "done" /\ outcome.ending \in {"settled", "escaped"}

\* No process of this attempt runs or can still be started, and the thread
\* that holds its SSH command is over.
RemoteQuiet ==
    /\ group # "alive"
    /\ runner \notin {"starting", "spawned"}
    /\ worker.state # "running"

\* Whatever the moment of a timeout, a lost lease, a broken connection or a
\* cancellation, an attempt that ends as settled, or as lost and cleaned up,
\* has left nothing running on the host.
SettledIsQuiet ==
    pc = "done" /\ outcome.ending \in {"settled", "lost"} => RemoteQuiet

\* An attempt that learns in time that its lease is gone, before the worker
\* thread's result was accepted, never counts as a success or a failure of the
\* command: the host is quarantined, and only a cancellation, a connection
\* error or a timeout that came first may name another verdict.
LossIsReported ==
    pc = "done" /\ exc = "lost" /\ outcome.ending # "escaped" =>
        outcome.verdict = "HOST_LOST" /\ outcome.ending \in {"lost", "unconfirmed"}

\* An attempt that run_job records as SUCCEEDED was supervised to the end
\* without an exception, its job exited with zero and its runner reported that,
\* and the supervisor never signalled it.  A successful job may still have been
\* signalled, by one party in one case: the lease was dropped for a co-tenant's
\* expiry, no heartbeat has noticed yet, and the job, terminated by the sweeper,
\* trapped SIGTERM and exited with zero (scheduling.py:367-371, 499-508).  The
\* code then publishes what may be half-done work.
SuccessIsGenuine ==
    outcome.verdict = "SUCCEEDED" =>
        /\ exitCode = "zero" /\ group = "dead" /\ resultFile
        /\ exc = "none" /\ worker = [state |-> "returned", error |-> "none"]
        /\ signalled = {} \/ (signalled = {"sweeper"} /\ dropped)

\* A loss noticed while the attempt runs, even as the SSH command returns, is
\* never overtaken: no later step makes a verdict on the command of it.
CommandVerdicts == {"SUCCEEDED", "COMMAND", "COLLECTION", "OUTPUT_MISSING"}
LossIsFinal ==
    [](lost /\ pc \in {"watch", "joined"} => [](outcome.verdict \notin CommandVerdicts))

\* The job's process as the contract sees it: a command whose runner has not
\* spawned the job counts as issued for as long as it still may.
ContractProc ==
    IF worker.state = "unstarted" THEN "none"
    ELSE IF group # "none" THEN group
    ELSE IF runner = "starting" \/ (runner = "absent" /\ worker.state = "running")
    THEN "issued" ELSE "void"

ContractEnding ==
    IF pc # "done" THEN "open"
    ELSE IF outcome.ending \in {"settled", "escaped"} THEN outcome.ending ELSE "unsettled"

\* The supervisor, its SSH thread, the runner and the process group together
\* keep the contract that run_job and the sweeper rely on, whatever the order of
\* timeouts, losses, broken connections, sweeps and the cancellation.
Contract == INSTANCE AttemptContract WITH
    proc <- ContractProc, fenced <- exc = "lost", ending <- ContractEnding

ImplementsContract == Contract!Spec

\* Cleanup always comes to an end, even if the host never answers and the job
\* never dies.
CleanupEnds == (pc \in CleanupSteps) ~> (pc = "done")

\* The claim of the project's design notes: capacity is never released while a
\* remote process may still be alive.
CapacityHeldWhileAlive == CapacityReturned => group # "alive"
=============================================================================
