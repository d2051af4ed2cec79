------------------------------ MODULE Backend ------------------------------
(***************************************************************************)
(* The life of one Dispatcher and its SshRayBackend in one process         *)
(* (dispatcher.py, backends/ssh_ray.py, ProvisioningOutcome): setup and    *)
(* its rollback, submission of batches, cancellation, the loss of a        *)
(* session lock, and teardown with its drain and purge.  These interleave: *)
(*                                                                         *)
(*  - the main thread, which makes the calls one at a time;                *)
(*  - the heartbeat thread of every provisioned host.  The first to learn  *)
(*    that its lock is lost runs _on_session_lost, or leaves that to the   *)
(*    main thread if the callback is not installed yet;                    *)
(*  - the tasks, in processes of their own, and the sweeps of the lease    *)
(*    actor, which may happen at any moment while the actor exists;        *)
(*  - other dispatchers, which may take a lock that is free or stale.      *)
(*                                                                         *)
(* Abstractions.  The lease actor is reduced to what the drain asks it:    *)
(* which tasks hold a lease and which left an orphan, that is, keep their  *)
(* host quarantined (see Dispatch for the rest).  The lock protocol is     *)
(* SessionLock's.  A heartbeat thread ends when it is told to stop.        *)
(* Definitions named Op_Fault are faulty variants of Op (see LeasePool).   *)
(***************************************************************************)
EXTENDS Naturals, FiniteSets

CONSTANTS
    Hosts,  \* the inventory
    Jobs    \* the jobs that may be submitted, each once

VARIABLES
    pc,            \* where the main thread is
    call,          \* the local variables of the calls it makes
    \* the Dispatcher
    setupDone, outstanding,
    back,          \* the fields of the backend
    \* _request_cancel, run by the main thread and by _on_session_lost
    requested,     \* _cancel_requested
    todo, sending, \* per thread: tasks to cancel, and the ray.cancel under way
    cancelled,     \* tasks that ray.cancel reached
    missed,        \* tasks for which some ray.cancel raised
    \* the hosts
    lock,          \* lock[h]: the owner named by the lock file
    beat,          \* beat[h]: the heartbeat thread
    callback,      \* the loss callback is installed
    \* the tasks
    task,          \* task[j]: its state
    leases,        \* <<j, h>>: the live leases
    orphans,       \* <<j, h>>: attempts that keep their host quarantined
    proc,          \* <<j, h>>: attempts whose remote process may be running,
                   \* known to the lease service
    \* history
    returned       \* jobs whose handles the caller was given

disp  == <<setupDone, outstanding, returned>>
canc  == <<requested, todo, sending, cancelled, missed>>
site  == <<lock, beat, callback>>
jobs  == <<task, leases, orphans, proc>>
vars  == <<pc, call, disp, back, canc, site, jobs>>

Threads == {"main", "loss"}
Steps == {"idle", "status", "install", "start-ray", "start-actor", "check",
          "roll-back", "unlock", "stop-ray", "submit", "record", "recheck",
          "cancel", "begin-drain", "poll", "ask-leases", "ask-quarantined",
          "drained", "purge", "stop-beats", "release", "shut-down"}

Calls ==
    [then: {"idle", "begin-drain", "poll"}, \* what comes after cancelling tasks
     left: SUBSET Jobs, handles: SUBSET Jobs, \* submit: to do; obtained
     purge: BOOLEAN,       \* the argument of teardown
     failed: BOOLEAN,      \* teardown has an error to report when it is through
     pending: SUBSET Jobs, \* _drain_jobs: tasks not yet seen to be done
     sawLeases: BOOLEAN]   \* _drain_jobs: the answer of current_hosts

Backends ==
    [draining: BOOLEAN, lossSeen: BOOLEAN, refs: SUBSET Jobs,
     runtimes: SUBSET Hosts,
     sessions: SUBSET Hosts, \* _outcome: the hosts whose locks it holds, or {}
     actor: BOOLEAN,         \* _actor is there
     actorLeft: BOOLEAN,     \* an actor that ray.kill did not stop runs on
     ray: {"none", "ours", "left", "foreign"}] \* the Ray runtime: _owns_runtime,
                             \* one that ray.shutdown did not stop, another's

TypeOK ==
    /\ pc \in Steps /\ call \in Calls /\ back \in Backends
    /\ {setupDone, callback} \subseteq BOOLEAN
    /\ {outstanding, requested, cancelled, missed, returned} \subseteq SUBSET Jobs
    /\ {todo, sending} \subseteq [Threads -> SUBSET Jobs]
    /\ \A th \in Threads : Cardinality(sending[th]) <= 1
    /\ lock \in [Hosts -> {"free", "ours", "stale", "other"}]
    /\ beat \in [Hosts -> {"off", "on", "reporting", "failed"}]
    /\ task \in [Jobs -> {"new", "queued", "leased", "done"}]
    /\ {leases, orphans, proc} \subseteq SUBSET (Jobs \X Hosts)

Init ==
    /\ pc = "idle"
    /\ call = [then |-> "idle", left |-> {}, handles |-> {}, purge |-> FALSE,
               failed |-> FALSE, pending |-> {}, sawLeases |-> FALSE]
    /\ back = [draining |-> FALSE, lossSeen |-> FALSE, refs |-> {}, runtimes |-> {},
               sessions |-> {}, actor |-> FALSE, actorLeft |-> FALSE, ray |-> "none"]
    /\ setupDone = FALSE /\ outstanding = {} /\ returned = {}
    /\ requested = {} /\ cancelled = {} /\ missed = {}
    /\ todo = [th \in Threads |-> {}] /\ sending = [th \in Threads |-> {}]
    /\ lock = [h \in Hosts |-> "free"] /\ beat = [h \in Hosts |-> "off"]
    /\ callback = FALSE
    /\ task = [j \in Jobs |-> "new"]
    /\ leases = {} /\ orphans = {} /\ proc = {}

Goto(from, to) == pc = from /\ pc' = to

-----------------------------------------------------------------------------
(* Session loss *)

\* raise_if_session_lost: some heartbeat thread has recorded a failure.
BeatFailed == \E h \in back.sessions : beat[h] \in {"reporting", "failed"}

\* _on_session_lost, run by thread th: the first caller records the loss and
\* snapshots the tasks, which it then cancels.
OnSessionLost(th) ==
    /\ back' = [back EXCEPT !.lossSeen = TRUE]
    /\ todo' = [todo EXCEPT ![th] = IF back.lossSeen THEN @ ELSE back.refs]

\* The steps at which the main thread calls _fail_if_session_lost; with a purge
\* it does so also after the drain.
Checking ==
    \/ pc \in {"status", "install", "start-ray", "check", "submit", "recheck"}
    \/ pc = "drained" /\ call.purge

\* The main thread finds the failure before the heartbeat thread reports it,
\* and runs _on_session_lost itself.
MainFindsLoss ==
    /\ Checking /\ ~back.lossSeen /\ BeatFailed
    /\ OnSessionLost("main")
    /\ UNCHANGED <<pc, call, disp, requested, sending, cancelled, missed, site, jobs>>

\* _fail_if_session_lost raises, once the main thread is through with a loss it
\* found itself; it does not wait for a heartbeat thread that is still
\* cancelling tasks.  Or it does not raise.
Lost == back.lossSeen /\ todo["main"] = {} /\ sending["main"] = {}
NotLost == ~back.lossSeen /\ ~BeatFailed

\* status, resolve and running_hosts change nothing but this.
AskStatus ==
    /\ Goto("idle", "status")
    /\ UNCHANGED <<call, disp, back, canc, site, jobs>>

StatusOver ==
    /\ Lost \/ NotLost
    /\ Goto("status", "idle")
    /\ UNCHANGED <<call, disp, back, canc, site, jobs>>

\* SessionLockLostError in HeartbeatThread.run
BeatRefused(h) ==
    /\ beat[h] = "on" /\ lock[h] # "ours"
    /\ beat' = [beat EXCEPT ![h] = IF callback THEN "reporting" ELSE "failed"]
    /\ UNCHANGED <<pc, call, disp, back, canc, lock, callback, jobs>>

BeatReports(h) ==
    /\ beat[h] = "reporting"
    /\ beat' = [beat EXCEPT ![h] = "failed"]
    /\ OnSessionLost("loss")
    /\ UNCHANGED <<pc, call, disp, requested, sending, cancelled, missed, lock,
                   callback, jobs>>

-----------------------------------------------------------------------------
(* _request_cancel, by thread th *)

MarkCancel_AllAtOnce(th) ==
    /\ \E j \in todo[th] \ requested :
          /\ requested' = requested \cup {j}
          /\ sending' = [sending EXCEPT ![th] = @ \cup {j}]
    /\ UNCHANGED <<pc, call, disp, back, todo, cancelled, missed, site, jobs>>

\* The token is marked first; a token that is marked is left to whoever did it.
MarkCancel(th) ==
    /\ sending[th] = {}
    /\ \E j \in todo[th] :
          IF j \in requested
          THEN /\ todo' = [todo EXCEPT ![th] = @ \ {j}]
               /\ UNCHANGED <<requested, sending>>
          ELSE /\ requested' = requested \cup {j}
               /\ sending' = [sending EXCEPT ![th] = {j}]
               /\ UNCHANGED todo
    /\ UNCHANGED <<pc, call, disp, back, cancelled, missed, site, jobs>>

SendCancel(th) ==
    /\ sending[th] # {}
    /\ cancelled' = cancelled \cup sending[th]
    /\ todo' = [todo EXCEPT ![th] = @ \ sending[th]]
    /\ sending' = [sending EXCEPT ![th] = {}]
    /\ UNCHANGED <<pc, call, disp, back, requested, missed, site, jobs>>

CancelRaises_MarkKept(th) ==
    /\ sending[th] # {}
    /\ missed' = missed \cup sending[th]
    /\ sending' = [sending EXCEPT ![th] = {}]
    /\ todo' = [todo EXCEPT ![th] = @ \ sending[th]]
    /\ UNCHANGED <<pc, call, disp, back, requested, cancelled, site, jobs>>

\* ray.cancel raises and the mark is taken back.  Only the drain gives up then.
CancelRaises(th) ==
    /\ sending[th] # {}
    /\ requested' = requested \ sending[th]
    /\ missed' = missed \cup sending[th]
    /\ sending' = [sending EXCEPT ![th] = {}]
    /\ IF th = "main" /\ pc = "cancel" /\ call.then = "poll"
       THEN pc' = "idle" /\ todo' = [todo EXCEPT ![th] = {}]
       ELSE todo' = [todo EXCEPT ![th] = @ \ sending[th]] /\ UNCHANGED pc
    /\ UNCHANGED <<call, disp, back, cancelled, site, jobs>>

\* The main thread starts to cancel the tasks of S; call.then says what comes after.
CancelAll(S) ==
    /\ pc' = "cancel"
    /\ todo' = [todo EXCEPT !["main"] = S \cap back.refs]
    /\ UNCHANGED <<requested, sending, cancelled, missed>>

CancelsDone ==
    /\ todo["main"] = {} /\ sending["main"] = {}
    /\ Goto("cancel", call.then)
    /\ UNCHANGED <<call, disp, back, canc, site, jobs>>

\* Dispatcher.cancel
Cancel(j) ==
    /\ pc = "idle" /\ CancelAll({j})
    /\ call' = [call EXCEPT !.then = "idle"]
    /\ UNCHANGED <<disp, back, site, jobs>>

-----------------------------------------------------------------------------
(* setup *)

\* provision(): T are hosts that were locked and could not be unlocked again
\* when something failed there.
ProvisionFails ==
    /\ pc = "idle" /\ ~setupDone /\ back.ray = "none"
    /\ \E T \in SUBSET {h \in Hosts : lock[h] = "free"} :
          lock' = [h \in Hosts |-> IF h \in T THEN "stale" ELSE lock[h]]
    /\ back' = [back EXCEPT !.draining = FALSE, !.lossSeen = FALSE]
    /\ UNCHANGED <<pc, call, disp, canc, beat, callback, jobs>>

\* Without require_all_hosts some hosts may be missing from H.
Provision ==
    /\ ~setupDone /\ back.ray = "none"
    /\ Goto("idle", "install")
    /\ \E H, T \in SUBSET {h \in Hosts : lock[h] = "free"} :
          /\ H # {} /\ H \cap T = {}
          /\ lock' = [h \in Hosts |-> IF h \in H THEN "ours"
                                      ELSE IF h \in T THEN "stale" ELSE lock[h]]
          /\ beat' = [h \in Hosts |-> IF h \in H THEN "on" ELSE beat[h]]
          /\ back' = [back EXCEPT !.draining = FALSE, !.lossSeen = FALSE, !.sessions = H]
    /\ callback' = FALSE
    /\ UNCHANGED <<call, disp, canc, jobs>>

\* A step of setup: it goes on to s, or raises and is rolled back.  A loss that
\* is known makes it raise.
SetupStep(from, s) ==
    \/ Goto(from, s) /\ (Checking => NotLost)
    \/ Goto(from, "roll-back") /\ (Checking => Lost \/ NotLost)

\* set_session_loss_callback hands over a failure recorded before; then the
\* runtimes are built.
Install ==
    /\ SetupStep("install", "start-ray")
    /\ callback' = TRUE
    /\ back' = [back EXCEPT !.runtimes =
                                IF pc' = "start-ray" THEN back.sessions ELSE {}]
    /\ UNCHANGED <<call, disp, canc, lock, beat, jobs>>

\* ray.init also fails when a runtime has appeared meanwhile.
StartRay ==
    /\ SetupStep("start-ray", "start-actor")
    /\ pc' = "start-actor" => back.ray = "none"
    /\ back' = [back EXCEPT !.ray = IF pc' = "start-actor" THEN "ours" ELSE @]
    /\ UNCHANGED <<call, disp, canc, site, jobs>>

\* The lease actor, then the sweeper thread
StartActor ==
    /\ SetupStep("start-actor", "check")
    /\ \E started \in BOOLEAN :
          /\ pc' = "check" => started
          /\ back' = [back EXCEPT !.actor = @ \/ started]
    /\ UNCHANGED <<call, disp, canc, site, jobs>>

SetupReturns ==
    /\ NotLost
    /\ Goto("check", "idle")
    /\ setupDone' = TRUE
    /\ UNCHANGED <<call, outstanding, returned, back, canc, site, jobs>>

SetupRefused ==
    /\ Lost
    /\ Goto("check", "roll-back")
    /\ UNCHANGED <<call, disp, back, canc, site, jobs>>

RollBack_LocksForgotten ==
    /\ Goto("roll-back", "stop-ray")
    /\ back' = [back EXCEPT !.actor = FALSE, !.sessions = {}]
    /\ UNCHANGED <<call, disp, canc, site, jobs>>

\* The actor is killed, or ray.kill raises and that is logged.
RollBack ==
    /\ Goto("roll-back", "unlock")
    /\ \E error \in {FALSE, back.actor} :
          back' = [back EXCEPT !.actor = FALSE, !.actorLeft = error]
    /\ UNCHANGED <<call, disp, canc, site, jobs>>

\* ProvisioningOutcome.release_all: every heartbeat thread is stopped, ...
StopBeats ==
    /\ beat' = [h \in Hosts |-> IF h \in back.sessions THEN "off" ELSE beat[h]]
    /\ UNCHANGED <<lock, callback>>

\* ... then every lock is released, where that gets through.
ReleaseLocks(T) ==
    lock' = [h \in Hosts |->
               IF h \notin back.sessions \/ lock[h] # "ours" THEN lock[h]
               ELSE IF h \in T THEN "stale" ELSE "free"]

UnlockAfterRollback ==
    /\ Goto("unlock", "stop-ray")
    /\ \E T \in SUBSET back.sessions : ReleaseLocks(T)
    /\ beat' = [h \in Hosts |-> IF h \in back.sessions THEN "off" ELSE beat[h]]
    /\ back' = [back EXCEPT !.sessions = {}]
    /\ UNCHANGED <<call, disp, canc, callback, jobs>>

\* What ray.shutdown leaves: nothing, for the actors end with their runtime; or,
\* if it raises, the runtime, which the backend no longer calls its own.
AfterShutdown(error) ==
    IF ~error THEN [back EXCEPT !.runtimes = {}, !.ray = "none", !.actorLeft = FALSE]
    ELSE [back EXCEPT !.runtimes = {}, !.ray = IF @ = "ours" THEN "left" ELSE @]

\* ray.shutdown whenever a runtime is there, with its errors logged
StopRayAfterRollback ==
    /\ Goto("stop-ray", "idle")
    /\ \E error \in {FALSE, back.ray # "none"} : back' = AfterShutdown(error)
    /\ UNCHANGED <<call, disp, canc, site, jobs>>

-----------------------------------------------------------------------------
(* submit *)

\* Dispatcher.submit with the batch S; a batch that needs a setup first is the
\* same as the two calls.
Submit(S) ==
    /\ setupDone
    /\ Goto("idle", "submit")
    /\ call' = [call EXCEPT !.left = S]
    /\ UNCHANGED <<disp, back, canc, site, jobs>>

\* SshRayBackend.submit: the task is created, ...
CreateTask(j) ==
    /\ j \in call.left /\ NotLost /\ ~back.draining
    /\ Goto("submit", "record")
    /\ task' = [task EXCEPT ![j] = "queued"]
    /\ UNCHANGED <<call, disp, back, canc, site, leases, orphans, proc>>

\* ... recorded in _refs, ...
RecordTask(j) ==
    /\ j \in call.left /\ task[j] # "new"
    /\ Goto("record", "recheck")
    /\ back' = [back EXCEPT !.refs = @ \cup {j}]
    /\ UNCHANGED <<call, disp, canc, site, jobs>>

Returned(j) ==
    /\ outstanding' = outstanding \cup {j}
    /\ IF call.left = {j}
       THEN /\ pc' = "idle" /\ returned' = returned \cup call.handles \cup {j}
            /\ call' = [call EXCEPT !.left = {}, !.handles = {}]
       ELSE /\ pc' = "submit" /\ UNCHANGED returned
            /\ call' = [call EXCEPT !.left = @ \ {j}, !.handles = @ \cup {j}]

RecheckTask_Trusting(j) ==
    /\ pc = "recheck" /\ j \in call.left /\ task[j] # "new"
    /\ Returned(j)
    /\ UNCHANGED <<setupDone, back, canc, site, jobs>>

\* ... and the session is looked at again.
RecheckTask(j) ==
    /\ pc = "recheck" /\ NotLost /\ j \in call.left /\ task[j] # "new"
    /\ Returned(j)
    /\ UNCHANGED <<setupDone, back, canc, site, jobs>>

AbortSubmit_NoCancel ==
    /\ \/ pc = "submit"
       \/ pc = "recheck" /\ Lost
    /\ pc' = "idle" /\ call' = [call EXCEPT !.left = {}, !.handles = {}]
    /\ UNCHANGED <<disp, back, canc, site, jobs>>

\* The submission of some job raises: a lost session, a draining backend or a
\* task that cannot be created.  What was submitted is cancelled.
AbortSubmit ==
    /\ \/ pc = "submit" /\ (Lost \/ NotLost)
       \/ pc = "recheck" /\ Lost
    /\ CancelAll(call.handles \cup {j \in call.left : task[j] # "new"})
    /\ call' = [call EXCEPT !.left = {}, !.handles = {}, !.then = "idle"]
    /\ UNCHANGED <<disp, back, site, jobs>>

-----------------------------------------------------------------------------
(* teardown *)

\* Dispatcher.teardown.  Before a purge every outstanding job is asked for its
\* status, which raises if the session is lost or the job is not in _refs.
Teardown(p) ==
    /\ pc = "idle"
    /\ p /\ outstanding # {} =>
         /\ NotLost
         /\ \A j \in outstanding : j \in back.refs /\ task[j] = "done"
    /\ CancelAll(outstanding)
    /\ call' = [call EXCEPT !.purge = p, !.failed = FALSE, !.then = "begin-drain"]
    /\ UNCHANGED <<disp, back, site, jobs>>

\* SshRayBackend.teardown and the start of _drain_jobs
BeginDrain ==
    /\ pc = "begin-drain"
    /\ back' = [back EXCEPT !.draining = TRUE]
    /\ CancelAll(back.refs)
    /\ call' = [call EXCEPT !.pending = back.refs, !.then = "poll"]
    /\ UNCHANGED <<disp, site, jobs>>

\* The three questions of one round of _drain_jobs, in this order
Poll ==
    /\ pc = "poll"
    /\ call' = [call EXCEPT !.pending = {j \in @ : task[j] # "done"}]
    /\ pc' = IF back.actor THEN "ask-leases"
             ELSE IF call'.pending = {} THEN "drained" ELSE "idle"
    /\ UNCHANGED <<disp, back, canc, site, jobs>>

AskLeases ==
    /\ Goto("ask-leases", "ask-quarantined")
    /\ call' = [call EXCEPT !.sawLeases = leases # {}]
    /\ UNCHANGED <<disp, back, canc, site, jobs>>

AskQuarantined_NotAsked ==
    /\ Goto("ask-quarantined",
            IF call.pending # {} \/ call.sawLeases THEN "poll" ELSE "drained")
    /\ UNCHANGED <<call, disp, back, canc, site, jobs>>

AskQuarantined ==
    /\ Goto("ask-quarantined",
            IF call.pending # {} \/ call.sawLeases \/ orphans # {}
            THEN "poll" ELSE "drained")
    /\ call' = [call EXCEPT !.sawLeases = FALSE]
    /\ UNCHANGED <<disp, back, canc, site, jobs>>

\* The deadline passes, or the actor does not answer in time.
DrainFails ==
    /\ pc \in {"poll", "ask-leases", "ask-quarantined"}
    /\ pc' = "idle" /\ call' = [call EXCEPT !.pending = {}, !.sawLeases = FALSE]
    /\ UNCHANGED <<disp, back, canc, site, jobs>>

\* teardown(purge=True) raises: the session was lost.
PurgeRefused ==
    /\ call.purge /\ Lost
    /\ Goto("drained", "idle")
    /\ UNCHANGED <<call, disp, back, canc, site, jobs>>

\* The sweeper is stopped and the actor killed; if ray.kill raises, teardown
\* goes on and reports it at the end.
KillActor ==
    /\ call.purge => NotLost
    /\ Goto("drained", IF call.purge THEN "purge" ELSE "stop-beats")
    /\ \E error \in {FALSE, back.actor} :
          /\ call' = [call EXCEPT !.failed = error]
          /\ back' = [back EXCEPT !.actor = FALSE, !.actorLeft = @ \/ error]
    /\ UNCHANGED <<disp, canc, site, jobs>>

\* _purge_remote_state: it fails on some hosts, or on none.
Purge ==
    /\ Goto("purge", "stop-beats")
    /\ \E error \in BOOLEAN : call' = [call EXCEPT !.failed = @ \/ error]
    /\ UNCHANGED <<disp, back, canc, site, jobs>>

StopSessions ==
    /\ Goto("stop-beats", "release")
    /\ StopBeats
    /\ UNCHANGED <<call, disp, back, canc, jobs>>

Release ==
    /\ Goto("release", "shut-down")
    /\ \E T \in SUBSET back.sessions :
          ReleaseLocks(T) /\ call' = [call EXCEPT !.failed = @ \/ T # {}]
    /\ back' = [back EXCEPT !.sessions = {}]
    /\ UNCHANGED <<disp, canc, beat, callback, jobs>>

\* ray.shutdown of a runtime of its own.  The Dispatcher forgets the jobs and the
\* setup only if teardown reports no error.
ShutDown ==
    /\ Goto("shut-down", "idle")
    /\ \E error \in {FALSE, back.ray = "ours"} :
          /\ call' = [call EXCEPT !.failed = @ \/ error]
          /\ back' = [(IF back.ray = "ours" THEN AfterShutdown(error) ELSE back)
                        EXCEPT !.runtimes = {}, !.refs = {}]
    /\ requested' = {}
    /\ IF call'.failed THEN UNCHANGED <<outstanding, setupDone>>
                  ELSE outstanding' = {} /\ setupDone' = FALSE
    /\ UNCHANGED <<returned, todo, sending, cancelled, missed, site, jobs>>

-----------------------------------------------------------------------------
(* The tasks, the sweeps, the other dispatchers *)

JobStep == UNCHANGED <<pc, call, disp, back, canc, site>>

At(S, h) == {x \in S : x[2] = h}
Of(S, j) == {x \in S : x[1] = j}

\* Acquire a lease and start the job.
TaskRuns(j) ==
    /\ task[j] = "queued" /\ back.actor
    /\ \E h \in back.runtimes :
          /\ At(orphans, h) = {}
          /\ leases' = leases \cup {<<j, h>>} /\ proc' = proc \cup {<<j, h>>}
    /\ task' = [task EXCEPT ![j] = "leased"]
    /\ UNCHANGED orphans
    /\ JobStep

\* The attempt ends with nothing left running that the lease service knows of
\* (what it never recorded or was let go of is the subject of Dispatch); the
\* job is done or retried.
TaskSettles(j) ==
    /\ task[j] = "leased" /\ Of(leases, j) # {}
    /\ \E s \in {"done", "queued"} : task' = [task EXCEPT ![j] = s]
    /\ leases' = leases \ Of(leases, j) /\ proc' = proc \ Of(leases, j)
    /\ UNCHANGED orphans
    /\ JobStep

Quarantine(h) ==
    /\ leases' = leases \ At(leases, h)
    /\ orphans' = orphans \cup At(leases, h)

\* The attempt ends in doubt and its host is quarantined, with whatever other
\* leases are there by then if its own is gone already.  (A host left in
\* quarantine without a path only keeps the drain waiting: here it may end.)
TaskEvicts(j) ==
    /\ task[j] = "leased"
    /\ \E s \in {"done", "queued"} : task' = [task EXCEPT ![j] = s]
    /\ \E h \in Hosts : Of(leases, j) \subseteq At(leases, h) /\ Quarantine(h)
    /\ UNCHANGED proc
    /\ JobStep

\* Cancelled or refused while waiting, or the worker dies with its lease.
TaskEnds(j) ==
    /\ task[j] \in {"queued", "leased"}
    /\ task' = [task EXCEPT ![j] = "done"]
    /\ UNCHANGED <<leases, orphans, proc>>
    /\ JobStep

\* _sweep_once, by the sweeper thread or by the drain: a lease expires, ...
SweepExpires(h) ==
    /\ back.actor /\ At(leases, h) # {}
    /\ Quarantine(h)
    /\ UNCHANGED <<task, proc>>
    /\ JobStep

\* ... and a host is reconciled and readmitted.
SweepReconciles(h) ==
    /\ back.actor /\ At(orphans, h) # {}
    /\ orphans' = orphans \ At(orphans, h) /\ proc' = proc \ At(orphans, h)
    /\ UNCHANGED <<task, leases>>
    /\ JobStep

\* A lock is taken over when its heartbeats fail too long; other dispatchers
\* come and go.
LockMoves(h) ==
    /\ \/ lock[h] = "ours" /\ beat[h] # "off" /\ lock' = [lock EXCEPT ![h] = "other"]
       \/ lock[h] \in {"free", "stale"} /\ lock' = [lock EXCEPT ![h] = "other"]
       \/ lock[h] \in {"stale", "other"} /\ lock' = [lock EXCEPT ![h] = "free"]
    /\ UNCHANGED <<pc, call, disp, back, canc, beat, callback, jobs>>

\* Other code of the same process starts a Ray runtime, or stops one that the
\* backend does not call its own.
ForeignRay ==
    /\ \/ back.ray = "none" /\ back' = [back EXCEPT !.ray = "foreign"]
       \/ /\ back.ray \in {"foreign", "left"}
          /\ back' = [back EXCEPT !.ray = "none", !.actorLeft = FALSE]
    /\ UNCHANGED <<pc, call, disp, canc, site, jobs>>

-----------------------------------------------------------------------------
Setup ==
    \/ ProvisionFails \/ Provision \/ Install \/ StartRay \/ StartActor
    \/ SetupReturns \/ SetupRefused
    \/ RollBack \/ UnlockAfterRollback \/ StopRayAfterRollback

SubmitBatch ==
    \/ \E S \in SUBSET {j \in Jobs : task[j] = "new"} : S # {} /\ Submit(S)
    \/ \E j \in Jobs : CreateTask(j) \/ RecordTask(j) \/ RecheckTask(j)
    \/ AbortSubmit

TearDown ==
    \/ \E p \in BOOLEAN : Teardown(p)
    \/ BeginDrain \/ Poll \/ AskLeases \/ AskQuarantined \/ DrainFails
    \/ PurgeRefused \/ KillActor \/ Purge \/ StopSessions \/ Release \/ ShutDown

Cancelling ==
    \/ \E th \in Threads : MarkCancel(th) \/ SendCancel(th) \/ CancelRaises(th)
    \/ CancelsDone
    \/ \E j \in Jobs : Cancel(j)

Next ==
    \/ Setup \/ SubmitBatch \/ TearDown \/ Cancelling
    \/ MainFindsLoss \/ AskStatus \/ StatusOver
    \/ \E h \in Hosts : BeatRefused(h) \/ BeatReports(h)
    \/ \E j \in Jobs : TaskRuns(j) \/ TaskSettles(j) \/ TaskEvicts(j) \/ TaskEnds(j)
    \/ \E h \in Hosts : SweepExpires(h) \/ SweepReconciles(h) \/ LockMoves(h)
    \/ ForeignRay

Spec == Init /\ [][Next]_vars

-----------------------------------------------------------------------------
(* Properties *)

Unfinished(j) == task[j] \in {"queued", "leased"}

\* While a task is unfinished or a remote process the lease service knows of may
\* be running, everything that a later teardown needs to deal with it is there:
\* the lease actor, the Ray runtime, and on the process's host a heartbeat thread
\* that was not stopped.  So no session lock is released over such work.
WorkIsProtected ==
    /\ (\E j \in Jobs : Unfinished(j)) \/ proc # {} => back.actor /\ back.ray = "ours"
    /\ \A x \in proc : x[2] \in back.sessions /\ beat[x[2]] # "off"

LossOver == todo["loss"] = {} /\ sending["loss"] = {}

\* When the session is known to be lost and the threads that deal with it are
\* through, every task that is not over was sent a cancellation, or sending it
\* was tried and failed: none slips through between _on_session_lost's snapshot
\* and submit.
LossReachesTasks ==
    back.lossSeen /\ pc = "idle" /\ LossOver =>
        \A j \in back.refs : Unfinished(j) => j \in cancelled \cup missed

\* When the backend holds no sessions and no call is under way, nothing of an
\* earlier setup is left: no heartbeat thread, no lock that a heartbeat would
\* still be needed for, no actor and no runtime.  Two calls may leave something,
\* when they raise: a runtime that ray.shutdown did not stop stays ("left"), no
\* later teardown tries again, and setup refuses to start beside it; an actor
\* that ray.kill did not stop lives only as long as such a runtime.
NothingLeaks ==
    pc = "idle" /\ back.sessions = {} =>
        /\ ~back.actor /\ back.ray # "ours"
        /\ back.actorLeft => back.ray = "left"
        /\ \A h \in Hosts : beat[h] = "off" /\ lock[h] # "ours"

\* A batch is submitted as a whole or not at all: between calls, with no loss
\* being dealt with, each unfinished task is one whose handle the caller got, or
\* was sent a cancellation, or that was tried and failed.
NoStrayTasks ==
    pc = "idle" /\ LossOver =>
        \A j \in Jobs : Unfinished(j) => j \in returned \cup cancelled \cup missed

\* A failed cancellation can be repeated: a task is only marked as cancelled if
\* some thread is about to cancel it or has.
MarksAreTrue ==
    requested \subseteq cancelled \cup sending["main"] \cup sending["loss"]
=============================================================================
