---------------------------- MODULE SessionLock ----------------------------
(***************************************************************************)
(* The session lock of one worker host (locking.py) and the dispatcher     *)
(* processes that compete for the host.  The lock is a file on the host    *)
(* that names its owner and the time of its last heartbeat; it is read and *)
(* written only by a script that runs under flock, so every execution of   *)
(* the script is one step.  The script is run over SSH: a request may be   *)
(* lost, its answer may be lost, and a request that its sender has given   *)
(* up may still be executed later.                                         *)
(*                                                                         *)
(* A session has a fresh identifier, acquires the lock once, refreshes it  *)
(* from its HeartbeatThread, runs jobs on the host, and releases the lock  *)
(* when setup fails or when teardown has drained the jobs.  Its process    *)
(* may die at any moment; what it runs on the host then goes on.           *)
(*                                                                         *)
(* Abstractions.  Time is counted in ticks of the host's clock, which is   *)
(* taken to be monotonic.  A request is in flight at most once per session *)
(* and operation: a given-up heartbeat and the next one are the same.      *)
(* Definitions named Op_Fault are faulty variants of Op (see LeasePool).   *)
(***************************************************************************)
EXTENDS Naturals

CONSTANTS
    Sessions,  \* session identifiers
    NoOwner,   \* the lock file does not exist
    LockTtl    \* SessionLock.ttl_s, in ticks

ASSUME LockAssumption ==
    /\ NoOwner \notin Sessions
    /\ LockTtl \in Nat

VARIABLES
    phase,   \* phase[s]: where session s is in its life
    call,    \* call[s][op]: the request for operation op of session s
    owner,   \* the session named by the lock file
    age,     \* ticks since the heartbeat time in the lock file
    since,   \* since[s]: ticks since the script last wrote the file for s
    runner   \* runner[s]: a job of session s may be running on the host

fileVars == <<owner, age, since>>
vars == <<phase, call, fileVars, runner>>

Ops == {"acquire", "beat", "release"}

\* failed: acquire did not succeed; stopped: the heartbeat thread was stopped,
\* the release is not sent yet; gone: a release that could not be confirmed.
Phases == {"idle", "acquiring", "held", "lost", "stopped", "releasing",
           "released", "failed", "gone", "crashed"}

\* A request that was given up may still be executed; nobody reads its answer.
CallStates == {"none", "sent", "given up", "ok", "refused"}

Age == 0 .. (LockTtl + 1)

TypeOK ==
    /\ phase \in [Sessions -> Phases]
    /\ call \in [Sessions -> [Ops -> CallStates]]
    /\ owner \in Sessions \cup {NoOwner}
    /\ age \in Age
    /\ since \in [Sessions -> Age]
    /\ runner \in [Sessions -> BOOLEAN]

Init ==
    /\ phase = [s \in Sessions |-> "idle"]
    /\ call = [s \in Sessions |-> [op \in Ops |-> "none"]]
    /\ owner = NoOwner
    /\ age = 0
    /\ since = [s \in Sessions |-> LockTtl + 1]
    /\ runner = [s \in Sessions |-> FALSE]

-----------------------------------------------------------------------------
(* The script, on the host *)

Pending(s, op) == call[s][op] \in {"sent", "given up"}

Answer(s, op, a) ==
    call' = [call EXCEPT ![s][op] = IF @ = "sent" THEN a ELSE "none"]

WriteOwner_Expiry(s) ==
    owner' = s /\ age' = 0 - LockTtl /\ since' = [since EXCEPT ![s] = 0]

\* The heartbeat time is the time of the write.
WriteOwner(s) == owner' = s /\ age' = 0 /\ since' = [since EXCEPT ![s] = 0]

LiveOther_Early(s) == owner \notin {s, NoOwner} /\ age < LockTtl

\* Another session owns the lock and its heartbeat is not older than the TTL.
LiveOther(s) == owner \notin {s, NoOwner} /\ age <= LockTtl

ExecAcquire(s) ==
    /\ Pending(s, "acquire")
    /\ \/ LiveOther(s) /\ Answer(s, "acquire", "refused") /\ UNCHANGED fileVars
       \/ ~LiveOther(s) /\ Answer(s, "acquire", "ok") /\ WriteOwner(s)
    /\ UNCHANGED <<phase, runner>>

ExecBeat_OverNobody(s) ==
    /\ Pending(s, "beat")
    /\ \/ owner \notin {s, NoOwner} /\ Answer(s, "beat", "refused") /\ UNCHANGED fileVars
       \/ owner \in {s, NoOwner} /\ Answer(s, "beat", "ok") /\ WriteOwner(s)
    /\ UNCHANGED <<phase, runner>>

ExecBeat(s) ==
    /\ Pending(s, "beat")
    /\ \/ owner # s /\ Answer(s, "beat", "refused") /\ UNCHANGED fileVars
       \/ owner = s /\ Answer(s, "beat", "ok") /\ WriteOwner(s)
    /\ UNCHANGED <<phase, runner>>

\* The release succeeds whether or not the lock was still owned.
ExecRelease(s) ==
    /\ Pending(s, "release")
    /\ Answer(s, "release", "ok")
    /\ owner' = IF owner = s THEN NoOwner ELSE owner
    /\ UNCHANGED <<phase, age, since, runner>>

Tick ==
    /\ age' = IF age = LockTtl + 1 THEN age ELSE age + 1
    /\ since' = [s \in Sessions |->
                   IF since[s] = LockTtl + 1 THEN since[s] ELSE since[s] + 1]
    /\ UNCHANGED <<phase, call, owner, runner>>

-----------------------------------------------------------------------------
(* The session: requests and answers *)

Enter(s, from, to) == phase[s] \in from /\ phase' = [phase EXCEPT ![s] = to]

Send(s, op) == call' = [call EXCEPT ![s][op] = "sent"]

Receive(s, op, a) ==
    /\ call[s][op] = a
    /\ call' = [call EXCEPT ![s][op] = "none"]

\* TransportError: the request was lost, is still under way, or was executed.
GiveUp(s, op) ==
    \/ /\ call[s][op] = "sent"
       /\ \E c \in {"none", "given up"} : call' = [call EXCEPT ![s][op] = c]
    \/ \E a \in {"ok", "refused"} : Receive(s, op, a)

Unchanged == UNCHANGED <<fileVars, runner>>

\* HostProvisioner.provision: lock.acquire()
Acquire(s) ==
    Enter(s, {"idle"}, "acquiring") /\ Send(s, "acquire") /\ Unchanged

\* The heartbeat thread starts.
Acquired(s) ==
    Enter(s, {"acquiring"}, "held") /\ Receive(s, "acquire", "ok") /\ Unchanged

\* HostInUseError
InUse(s) ==
    Enter(s, {"acquiring"}, "failed") /\ Receive(s, "acquire", "refused") /\ Unchanged

\* The host counts as unavailable; nothing is released.
AcquireFails(s) ==
    Enter(s, {"acquiring"}, "failed") /\ GiveUp(s, "acquire") /\ Unchanged

Beat_AfterStop(s) ==
    /\ phase[s] \in {"held", "stopped", "gone"}
    /\ call[s]["beat"] \in {"none", "given up"}
    /\ Send(s, "beat")
    /\ UNCHANGED phase /\ Unchanged

\* HeartbeatThread.run, until stopped or told that the lock is lost
Beat(s) ==
    /\ phase[s] = "held"
    /\ call[s]["beat"] \in {"none", "given up"}
    /\ Send(s, "beat")
    /\ UNCHANGED phase /\ Unchanged

BeatOk(s) ==
    Receive(s, "beat", "ok") /\ UNCHANGED phase /\ Unchanged

BeatLost_Retried(s) ==
    Receive(s, "beat", "refused") /\ UNCHANGED phase /\ Unchanged

\* SessionLockLostError: the thread ends and the backend's callback fails every
\* later operation; once the session is being torn down it changes nothing.
BeatLost(s) ==
    /\ Receive(s, "beat", "refused")
    /\ phase' = [phase EXCEPT ![s] = IF @ = "held" THEN "lost" ELSE @]
    /\ Unchanged

\* Logged; the thread goes on and relies on the TTL.
BeatFails(s) ==
    GiveUp(s, "beat") /\ UNCHANGED phase /\ Unchanged

StopBeats_NotDrained(s) ==
    Enter(s, {"held", "lost"}, "stopped") /\ UNCHANGED call /\ Unchanged

\* Setup failed, or teardown has drained the jobs: hb.stop().  The thread gets
\* five seconds to end; a heartbeat that takes longer stays under way.
StopBeats(s) ==
    /\ ~runner[s]
    /\ Enter(s, {"held", "lost"}, "stopped")
    /\ UNCHANGED call /\ Unchanged

\* lock.release(), also when the lock was lost
Release(s) ==
    Enter(s, {"stopped"}, "releasing") /\ Send(s, "release") /\ Unchanged

Released(s) ==
    Enter(s, {"releasing"}, "released") /\ Receive(s, "release", "ok") /\ Unchanged

ReleaseFails(s) ==
    Enter(s, {"releasing"}, "gone") /\ GiveUp(s, "release") /\ Unchanged

\* The dispatcher process dies; its requests may still be executed.
Crash(s) ==
    /\ Enter(s, {"acquiring", "held", "lost", "stopped", "releasing"}, "crashed")
    /\ call' = [call EXCEPT ![s] = [op \in Ops |->
                  IF @[op] \in {"sent", "given up"} THEN "given up" ELSE "none"]]
    /\ Unchanged

-----------------------------------------------------------------------------
(* Jobs of the session on this host *)

\* A task that has not yet been cancelled gets to run, also when the backend has
\* learnt that the lock is lost but ray.cancel has not reached the task.
RunnerStarts(s) ==
    /\ phase[s] \in {"held", "lost"} /\ ~runner[s]
    /\ runner' = [runner EXCEPT ![s] = TRUE]
    /\ UNCHANGED <<phase, call, fileVars>>

RunnerEnds(s) ==
    /\ runner[s]
    /\ runner' = [runner EXCEPT ![s] = FALSE]
    /\ UNCHANGED <<phase, call, fileVars>>

-----------------------------------------------------------------------------
Exec(s) == ExecAcquire(s) \/ ExecBeat(s) \/ ExecRelease(s)

Client(s) ==
    \/ Acquire(s) \/ Acquired(s) \/ InUse(s) \/ AcquireFails(s)
    \/ Beat(s) \/ BeatOk(s) \/ BeatLost(s) \/ BeatFails(s)
    \/ StopBeats(s) \/ Release(s) \/ Released(s) \/ ReleaseFails(s)

Next ==
    \/ \E s \in Sessions : Exec(s) \/ Client(s) \/ Crash(s)
    \/ \E s \in Sessions : RunnerStarts(s) \/ RunnerEnds(s)
    \/ Tick

\* The heartbeat thread runs and its SSH commands have a time limit.  Its link
\* to the host works again and again: a session that tries for ever gets a
\* heartbeat executed and its answer back.  Time passes.
Fairness ==
    /\ WF_vars(Tick)
    /\ \A s \in Sessions : /\ WF_vars(Beat(s))
                           /\ WF_vars(BeatOk(s) \/ BeatLost(s) \/ BeatFails(s))
                           /\ SF_vars(call[s]["beat"] = "sent" /\ ExecBeat(s))
                           /\ SF_vars(BeatLost(s))

Spec == Init /\ [][Next]_vars
FairSpec == Spec /\ Fairness

-----------------------------------------------------------------------------
(* Properties *)

\* A session whose heartbeats are executed in time keeps the host: until it
\* stops beating itself, no late or repeated request of another session takes
\* the lock from it.
FreshHolderOwns ==
    \A s \in Sessions : phase[s] = "held" /\ since[s] <= LockTtl => owner = s

\* The jobs of two sessions run on the host at once only if the process of one
\* of them died, or its heartbeats were not executed for longer than the TTL:
\* no order of late, lost and repeated requests, of failed setups and of
\* teardowns brings it about.
JobsOfOneSession ==
    \A s, t \in Sessions : s # t /\ runner[s] /\ runner[t] =>
        \E x \in {s, t} : phase[x] = "crashed" \/ since[x] > LockTtl

\* A lock that was released stays released: a heartbeat that was still under
\* way when its session released the lock does not bring it back.
ReleasedStaysFree ==
    \A s \in Sessions : phase[s] = "released" => owner # s

\* A lock left behind by a crash, by a release that did not get through or by
\* an acquire whose answer was lost does not block the host for ever.
AbandonedLockExpires ==
    \A s \in Sessions :
        owner = s /\ phase[s] \in {"failed", "gone", "crashed"}
            ~> owner # s \/ age > LockTtl

\* A session that has lost the host to another one finds out.
LossIsNoticed ==
    \A s \in Sessions :
        phase[s] = "held" /\ owner # s ~> phase[s] # "held"
=============================================================================
