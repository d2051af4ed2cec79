------------------------- MODULE SessionLockProofs -------------------------
(***************************************************************************)
(* Proofs about SessionLock, for any number of sessions and any time to    *)
(* live.  The inductive invariant IInv: the age of the file is counted     *)
(* from its owner's last write (Ages); a session that still holds or asks  *)
(* for the lock owns it as long as its last write is fresh (Owners); and   *)
(* requests of one kind are only under way in the phases that send them or *)
(* that gave them up (Acquires, Releases).  JobsInv adds what a session    *)
(* knows when its jobs still run: an alarm is never false (Alarms), and a  *)
(* session drains its jobs before it gives the lock back (Drained).        *)
(***************************************************************************)
EXTENDS SessionLock, TLAPS

\* The owner's clock and the file's are the same.
Ages == \A s \in Sessions : owner = s => since[s] = age

Holding == {"idle", "acquiring", "held"}

\* A fresh session that has not given up owns the lock.
Owners ==
    \A s \in Sessions : phase[s] \in Holding /\ since[s] <= LockTtl => owner = s

\* A lock is asked for before it is held, and by sessions that are gone.
Acquires ==
    \A s \in Sessions :
        call[s]["acquire"] # "none" => phase[s] \in {"acquiring", "failed", "crashed"}

\* A session asks for a release at its end only, and what releases it is final.
Releases ==
    \A s \in Sessions :
        /\ call[s]["release"] # "none" =>
             phase[s] \in {"releasing", "gone", "crashed"}
        /\ call[s]["release"] \in {"sent", "ok", "refused"} => phase[s] = "releasing"
        /\ call[s]["release"] = "ok" \/ phase[s] = "released" => owner # s

IInv == TypeOK /\ Ages /\ Owners /\ Acquires /\ Releases

-----------------------------------------------------------------------------
(* Time *)

LEMMA AgeFacts == /\ LockTtl \in Nat /\ NoOwner \notin Sessions
                  /\ 0 \in Age /\ LockTtl + 1 \in Age /\ Age \subseteq Nat
                  /\ \A a \in Age : a # LockTtl + 1 => a <= LockTtl /\ a + 1 \in Age
  BY LockAssumption DEF Age

LEMMA InitIInv == Init => IInv
  BY AgeFacts DEF Init, IInv, TypeOK, Ages, Owners, Acquires, Releases, Holding, Phases,
    CallStates, Ops

-----------------------------------------------------------------------------
(* Requests *)

LEMMA Answered ==
  ASSUME TypeOK, NEW s \in Sessions, NEW op \in Ops, NEW a \in CallStates, Answer(s, op, a)
  PROVE  /\ call' \in [Sessions -> [Ops -> CallStates]]
         /\ call'[s][op] \in {a, "none"}
         /\ \A r \in Sessions, o \in Ops :
              r # s \/ o # op => call'[r][o] = call[r][o]
  BY DEF Answer, TypeOK, CallStates

LEMMA GivenUp ==
  ASSUME TypeOK, NEW s \in Sessions, NEW op \in Ops, GiveUp(s, op)
  PROVE  /\ call' \in [Sessions -> [Ops -> CallStates]]
         /\ call[s][op] # "none" /\ call'[s][op] \in {"none", "given up"}
         /\ \A r \in Sessions, o \in Ops :
              r # s \/ o # op => call'[r][o] = call[r][o]
  <1>1. PICK c \in {"none", "given up"} :
          call' = [call EXCEPT ![s][op] = c] /\ call[s][op] # "none"
    BY DEF GiveUp, Receive
  <1> QED
    BY <1>1 DEF TypeOK, CallStates

-----------------------------------------------------------------------------
(* Every step keeps the invariant *)

LEMMA ExecAcquireKeeps == ASSUME IInv, NEW s \in Sessions, ExecAcquire(s) PROVE IInv'
  <1> USE AgeFacts DEF IInv, ExecAcquire, Pending, LiveOther, WriteOwner, fileVars, Holding
  <1>0. /\ call' \in [Sessions -> [Ops -> CallStates]]
        /\ call[s]["acquire"] # "none"
        /\ call'[s]["acquire"] \in {"ok", "refused", "none"}
        /\ \A r \in Sessions, o \in Ops :
             r # s \/ o # "acquire" => call'[r][o] = call[r][o]
    BY Answered DEF Ops, CallStates
  <1>1. TypeOK'
    BY <1>0 DEF TypeOK, Phases
  <1>2. Ages'
    BY DEF Ages, TypeOK
  <1>3. Owners'
    BY DEF Owners, Ages, Acquires, Releases, TypeOK, Ops
  <1>4. Acquires'
    BY <1>0 DEF Acquires, TypeOK, Ops
  <1>5. Releases'
    BY <1>0 DEF Releases, Acquires, TypeOK, Ops
  <1> QED
    BY <1>1, <1>2, <1>3, <1>4, <1>5

LEMMA ExecBeatKeeps == ASSUME IInv, NEW s \in Sessions, ExecBeat(s) PROVE IInv'
  <1> USE AgeFacts DEF IInv, ExecBeat, Pending, WriteOwner, fileVars, Holding
  <1>0. /\ call' \in [Sessions -> [Ops -> CallStates]]
        /\ call[s]["beat"] # "none"
        /\ call'[s]["beat"] \in {"ok", "refused", "none"}
        /\ \A r \in Sessions, o \in Ops :
             r # s \/ o # "beat" => call'[r][o] = call[r][o]
    BY Answered DEF Ops, CallStates
  <1>1. TypeOK'
    BY <1>0 DEF TypeOK, Phases
  <1>2. Ages'
    BY DEF Ages, TypeOK
  <1>3. Owners'
    BY DEF Owners, Ages, Acquires, Releases, TypeOK, Ops
  <1>4. Acquires'
    BY <1>0 DEF Acquires, TypeOK, Ops
  <1>5. Releases'
    BY <1>0 DEF Releases, Acquires, TypeOK, Ops
  <1> QED
    BY <1>1, <1>2, <1>3, <1>4, <1>5

LEMMA ExecReleaseKeeps == ASSUME IInv, NEW s \in Sessions, ExecRelease(s) PROVE IInv'
  <1> USE AgeFacts DEF IInv, ExecRelease, Pending, fileVars, Holding
  <1>0. /\ call' \in [Sessions -> [Ops -> CallStates]]
        /\ call[s]["release"] # "none"
        /\ call'[s]["release"] \in {"ok", "refused", "none"}
        /\ call[s]["release"] = "given up" => call'[s]["release"] = "none"
        /\ \A r \in Sessions, o \in Ops :
             r # s \/ o # "release" => call'[r][o] = call[r][o]
    BY Answered DEF Ops, CallStates, Answer, TypeOK
  <1>1. TypeOK'
    BY <1>0 DEF TypeOK, Phases
  <1>2. Ages'
    BY DEF Ages, TypeOK
  <1>3. Owners'
    BY DEF Owners, Ages, Acquires, Releases, TypeOK, Ops
  <1>4. Acquires'
    BY <1>0 DEF Acquires, TypeOK, Ops
  <1>5. Releases'
    BY <1>0 DEF Releases, Acquires, TypeOK, Ops
  <1> QED
    BY <1>1, <1>2, <1>3, <1>4, <1>5

LEMMA AcquireKeeps == ASSUME IInv, NEW s \in Sessions, Acquire(s) PROVE IInv'
  <1> USE AgeFacts DEF IInv, Acquire, Enter, Send, Unchanged, fileVars, Holding
  <1>1. TypeOK'
    BY DEF TypeOK, Phases, CallStates, Ops
  <1>2. Ages'
    BY DEF Ages, TypeOK
  <1>3. Owners'
    BY DEF Owners, Ages, Acquires, Releases, TypeOK, Ops
  <1>4. Acquires'
    BY DEF Acquires, TypeOK, Ops
  <1>5. Releases'
    BY DEF Releases, Acquires, TypeOK, Ops
  <1> QED
    BY <1>1, <1>2, <1>3, <1>4, <1>5

LEMMA AcquiredKeeps == ASSUME IInv, NEW s \in Sessions, Acquired(s) PROVE IInv'
  <1> USE AgeFacts DEF IInv, Acquired, Enter, Receive, Unchanged, fileVars, Holding
  <1>1. TypeOK'
    BY DEF TypeOK, Phases, CallStates, Ops
  <1>2. Ages'
    BY DEF Ages, TypeOK
  <1>3. Owners'
    BY DEF Owners, Ages, Acquires, Releases, TypeOK, Ops
  <1>4. Acquires'
    BY DEF Acquires, TypeOK, Ops
  <1>5. Releases'
    BY DEF Releases, Acquires, TypeOK, Ops
  <1> QED
    BY <1>1, <1>2, <1>3, <1>4, <1>5

LEMMA InUseKeeps == ASSUME IInv, NEW s \in Sessions, InUse(s) PROVE IInv'
  <1> USE AgeFacts DEF IInv, InUse, Enter, Receive, Unchanged, fileVars, Holding
  <1>1. TypeOK'
    BY DEF TypeOK, Phases, CallStates, Ops
  <1>2. Ages'
    BY DEF Ages, TypeOK
  <1>3. Owners'
    BY DEF Owners, Ages, Acquires, Releases, TypeOK, Ops
  <1>4. Acquires'
    BY DEF Acquires, TypeOK, Ops
  <1>5. Releases'
    BY DEF Releases, Acquires, TypeOK, Ops
  <1> QED
    BY <1>1, <1>2, <1>3, <1>4, <1>5

LEMMA AcquireFailsKeeps == ASSUME IInv, NEW s \in Sessions, AcquireFails(s) PROVE IInv'
  <1> USE AgeFacts DEF IInv, AcquireFails, Enter, Unchanged, fileVars, Holding
  <1>0. /\ call' \in [Sessions -> [Ops -> CallStates]]
        /\ call[s]["acquire"] # "none" /\ call'[s]["acquire"] \in {"none", "given up"}
        /\ \A r \in Sessions, o \in Ops :
             r # s \/ o # "acquire" => call'[r][o] = call[r][o]
    BY GivenUp DEF Ops
  <1>1. TypeOK'
    BY <1>0 DEF TypeOK, Phases
  <1>2. Ages'
    BY DEF Ages, TypeOK
  <1>3. Owners'
    BY DEF Owners, Ages, Acquires, Releases, TypeOK, Ops
  <1>4. Acquires'
    BY <1>0 DEF Acquires, TypeOK, Ops
  <1>5. Releases'
    BY <1>0 DEF Releases, Acquires, TypeOK, Ops
  <1> QED
    BY <1>1, <1>2, <1>3, <1>4, <1>5

LEMMA BeatKeeps == ASSUME IInv, NEW s \in Sessions, Beat(s) PROVE IInv'
  <1> USE AgeFacts DEF IInv, Beat, Send, Unchanged, fileVars, Holding
  <1>1. TypeOK'
    BY DEF TypeOK, Phases, CallStates, Ops
  <1>2. Ages'
    BY DEF Ages, TypeOK
  <1>3. Owners'
    BY DEF Owners, Ages, Acquires, Releases, TypeOK, Ops
  <1>4. Acquires'
    BY DEF Acquires, TypeOK, Ops
  <1>5. Releases'
    BY DEF Releases, Acquires, TypeOK, Ops
  <1> QED
    BY <1>1, <1>2, <1>3, <1>4, <1>5

LEMMA BeatOkKeeps == ASSUME IInv, NEW s \in Sessions, BeatOk(s) PROVE IInv'
  <1> USE AgeFacts DEF IInv, BeatOk, Receive, Unchanged, fileVars, Holding
  <1>1. TypeOK'
    BY DEF TypeOK, Phases, CallStates, Ops
  <1>2. Ages'
    BY DEF Ages, TypeOK
  <1>3. Owners'
    BY DEF Owners, Ages, Acquires, Releases, TypeOK, Ops
  <1>4. Acquires'
    BY DEF Acquires, TypeOK, Ops
  <1>5. Releases'
    BY DEF Releases, Acquires, TypeOK, Ops
  <1> QED
    BY <1>1, <1>2, <1>3, <1>4, <1>5

LEMMA BeatLostKeeps == ASSUME IInv, NEW s \in Sessions, BeatLost(s) PROVE IInv'
  <1> USE AgeFacts DEF IInv, BeatLost, Receive, Unchanged, fileVars, Holding
  <1>1. TypeOK'
    BY DEF TypeOK, Phases, CallStates, Ops
  <1>2. Ages'
    BY DEF Ages, TypeOK
  <1>3. Owners'
    BY DEF Owners, Ages, Acquires, Releases, TypeOK, Ops
  <1>4. Acquires'
    BY DEF Acquires, TypeOK, Ops
  <1>5. Releases'
    BY DEF Releases, Acquires, TypeOK, Ops
  <1> QED
    BY <1>1, <1>2, <1>3, <1>4, <1>5

LEMMA BeatFailsKeeps == ASSUME IInv, NEW s \in Sessions, BeatFails(s) PROVE IInv'
  <1> USE AgeFacts DEF IInv, BeatFails, Unchanged, fileVars, Holding
  <1>0. /\ call' \in [Sessions -> [Ops -> CallStates]]
        /\ call[s]["beat"] # "none" /\ call'[s]["beat"] \in {"none", "given up"}
        /\ \A r \in Sessions, o \in Ops :
             r # s \/ o # "beat" => call'[r][o] = call[r][o]
    BY GivenUp DEF Ops
  <1>1. TypeOK'
    BY <1>0 DEF TypeOK, Phases
  <1>2. Ages'
    BY DEF Ages, TypeOK
  <1>3. Owners'
    BY DEF Owners, Ages, Acquires, Releases, TypeOK, Ops
  <1>4. Acquires'
    BY <1>0 DEF Acquires, TypeOK, Ops
  <1>5. Releases'
    BY <1>0 DEF Releases, Acquires, TypeOK, Ops
  <1> QED
    BY <1>1, <1>2, <1>3, <1>4, <1>5

LEMMA StopBeatsKeeps == ASSUME IInv, NEW s \in Sessions, StopBeats(s) PROVE IInv'
  <1> USE AgeFacts DEF IInv, StopBeats, Enter, Unchanged, fileVars, Holding
  <1>1. TypeOK'
    BY DEF TypeOK, Phases, CallStates, Ops
  <1>2. Ages'
    BY DEF Ages, TypeOK
  <1>3. Owners'
    BY DEF Owners, Ages, Acquires, Releases, TypeOK, Ops
  <1>4. Acquires'
    BY DEF Acquires, TypeOK, Ops
  <1>5. Releases'
    BY DEF Releases, Acquires, TypeOK, Ops
  <1> QED
    BY <1>1, <1>2, <1>3, <1>4, <1>5

LEMMA ReleaseKeeps == ASSUME IInv, NEW s \in Sessions, Release(s) PROVE IInv'
  <1> USE AgeFacts DEF IInv, Release, Enter, Send, Unchanged, fileVars, Holding
  <1>1. TypeOK'
    BY DEF TypeOK, Phases, CallStates, Ops
  <1>2. Ages'
    BY DEF Ages, TypeOK
  <1>3. Owners'
    BY DEF Owners, Ages, Acquires, Releases, TypeOK, Ops
  <1>4. Acquires'
    BY DEF Acquires, TypeOK, Ops
  <1>5. Releases'
    BY DEF Releases, Acquires, TypeOK, Ops
  <1> QED
    BY <1>1, <1>2, <1>3, <1>4, <1>5

LEMMA ReleasedKeeps == ASSUME IInv, NEW s \in Sessions, Released(s) PROVE IInv'
  <1> USE AgeFacts DEF IInv, Released, Enter, Receive, Unchanged, fileVars, Holding
  <1>1. TypeOK'
    BY DEF TypeOK, Phases, CallStates, Ops
  <1>2. Ages'
    BY DEF Ages, TypeOK
  <1>3. Owners'
    BY DEF Owners, Ages, Acquires, Releases, TypeOK, Ops
  <1>4. Acquires'
    BY DEF Acquires, TypeOK, Ops
  <1>5. Releases'
    BY DEF Releases, Acquires, TypeOK, Ops
  <1> QED
    BY <1>1, <1>2, <1>3, <1>4, <1>5

LEMMA ReleaseFailsKeeps == ASSUME IInv, NEW s \in Sessions, ReleaseFails(s) PROVE IInv'
  <1> USE AgeFacts DEF IInv, ReleaseFails, Enter, Unchanged, fileVars, Holding
  <1>0. /\ call' \in [Sessions -> [Ops -> CallStates]]
        /\ call[s]["release"] # "none" /\ call'[s]["release"] \in {"none", "given up"}
        /\ \A r \in Sessions, o \in Ops :
             r # s \/ o # "release" => call'[r][o] = call[r][o]
    BY GivenUp DEF Ops
  <1>1. TypeOK'
    BY <1>0 DEF TypeOK, Phases
  <1>2. Ages'
    BY DEF Ages, TypeOK
  <1>3. Owners'
    BY DEF Owners, Ages, Acquires, Releases, TypeOK, Ops
  <1>4. Acquires'
    BY <1>0 DEF Acquires, TypeOK, Ops
  <1>5. Releases'
    BY <1>0 DEF Releases, Acquires, TypeOK, Ops
  <1> QED
    BY <1>1, <1>2, <1>3, <1>4, <1>5

LEMMA CrashKeeps == ASSUME IInv, NEW s \in Sessions, Crash(s) PROVE IInv'
  <1> USE AgeFacts DEF IInv, Crash, Enter, Unchanged, fileVars, Holding
  <1>1. TypeOK'
    BY DEF TypeOK, Phases, CallStates, Ops
  <1>2. Ages'
    BY DEF Ages, TypeOK
  <1>3. Owners'
    BY DEF Owners, Ages, Acquires, Releases, TypeOK, Ops
  <1>4. Acquires'
    BY DEF Acquires, TypeOK, Ops
  <1>5. Releases'
    BY DEF Releases, Acquires, TypeOK, Ops
  <1> QED
    BY <1>1, <1>2, <1>3, <1>4, <1>5

LEMMA TickKeeps == IInv /\ Tick => IInv'
  <1> SUFFICES ASSUME IInv, Tick PROVE IInv'
    OBVIOUS
  <1> USE AgeFacts DEF IInv, Tick, Holding
  <1>1. TypeOK'
    BY DEF TypeOK
  <1>2. Ages'
    BY DEF Ages, TypeOK
  <1>3. Owners'
    BY DEF Owners, TypeOK, Age
  <1>4. Acquires' /\ Releases'
    BY DEF Acquires, Releases
  <1> QED
    BY <1>1, <1>2, <1>3, <1>4

LEMMA NextKeeps == IInv /\ [Next]_vars => IInv'
  <1> SUFFICES ASSUME IInv, [Next]_vars PROVE IInv'
    OBVIOUS
  <1>1. ASSUME NEW s \in Sessions, Exec(s) \/ Crash(s) PROVE IInv'
    BY <1>1, ExecAcquireKeeps, ExecBeatKeeps, ExecReleaseKeeps, CrashKeeps DEF Exec
  <1>2. ASSUME NEW s \in Sessions, Client(s) PROVE IInv'
    BY <1>2, AcquireKeeps, AcquiredKeeps, InUseKeeps, AcquireFailsKeeps, BeatKeeps,
       BeatOkKeeps, BeatLostKeeps, BeatFailsKeeps, StopBeatsKeeps, ReleaseKeeps,
       ReleasedKeeps, ReleaseFailsKeeps DEF Client
  <1>3. ASSUME NEW s \in Sessions, RunnerStarts(s) \/ RunnerEnds(s) PROVE IInv'
    <2>1. UNCHANGED <<phase, call, owner, age, since>>
      BY <1>3 DEF RunnerStarts, RunnerEnds, fileVars
    <2>2. TypeOK'
      BY <1>3, <2>1 DEF RunnerStarts, RunnerEnds, IInv, TypeOK
    <2> QED
      BY <2>1, <2>2 DEF IInv, Ages, Owners, Acquires, Releases, Holding
  <1>4. CASE Tick
    BY <1>4, TickKeeps
  <1>5. CASE UNCHANGED vars
    BY <1>5 DEF vars, fileVars, IInv, TypeOK, Ages, Owners, Acquires, Releases, Holding
  <1> QED
    BY <1>1, <1>2, <1>3, <1>4, <1>5 DEF Next

-----------------------------------------------------------------------------
(* Whose jobs run on the host *)

\* The session is known to own the host no longer.
Superseded(s) == owner # s /\ since[s] > LockTtl

\* A refused heartbeat is no false alarm, also when it is read late.
Alarms ==
    \A s \in Sessions :
        phase[s] = "lost" \/ (phase[s] = "held" /\ call[s]["beat"] = "refused") =>
            Superseded(s)

\* Jobs are drained before the lock is given back.
Drained == \A s \in Sessions : runner[s] => phase[s] \in {"held", "lost", "crashed"}

\* No heartbeat is sent before the lock is held.
BeatsLater ==
    \A s \in Sessions : phase[s] \in {"idle", "acquiring"} => call[s]["beat"] = "none"

JobsInv == Alarms /\ Drained /\ BeatsLater

\* Only a session's own pending acquire, or a heartbeat of its owner, refreshes
\* the lock, so a superseded session that does not acquire again stays so.
LEMMA SupersededStays ==
  ASSUME IInv, [Next]_vars, NEW s \in Sessions, Superseded(s), phase[s] \in {"held", "lost"}
  PROVE  Superseded(s)'
  <1> USE DEF Superseded
  <1>0. TypeOK /\ call[s]["acquire"] = "none"
    BY DEF IInv, Acquires
  <1>1. ASSUME NEW t \in Sessions, ExecAcquire(t) PROVE Superseded(s)'
    <2>1. t # s
      BY <1>0, <1>1 DEF ExecAcquire, Pending
    <2> QED
      BY <1>0, <1>1, <2>1 DEF ExecAcquire, WriteOwner, fileVars, TypeOK
  <1>2. ASSUME NEW t \in Sessions, ExecBeat(t) PROVE Superseded(s)'
    BY <1>0, <1>2 DEF ExecBeat, WriteOwner, fileVars, TypeOK
  <1>3. ASSUME NEW t \in Sessions, ExecRelease(t) PROVE Superseded(s)'
    BY <1>0, <1>3, LockAssumption DEF ExecRelease
  <1>4. ASSUME NEW t \in Sessions, Client(t) \/ Crash(t) \/ RunnerStarts(t) \/ RunnerEnds(t)
        PROVE  Superseded(s)'
    BY <1>4 DEF Client, Acquire, Acquired, InUse, AcquireFails, Beat, BeatOk, BeatLost,
       BeatFails, StopBeats, Release, Released, ReleaseFails, Crash, RunnerStarts,
       RunnerEnds, Unchanged, fileVars
  <1>5. CASE Tick
    <2>1. since[s] \in Nat /\ LockTtl \in Nat /\ owner' = owner
      BY <1>0, <1>5, AgeFacts DEF Tick, TypeOK
    <2>2. since'[s] = IF since[s] = LockTtl + 1 THEN since[s] ELSE since[s] + 1
      BY <1>5 DEF Tick
    <2> QED
      BY <2>1, <2>2
  <1>6. CASE UNCHANGED vars
    BY <1>6 DEF vars, fileVars
  <1> QED
    BY <1>1, <1>2, <1>3, <1>4, <1>5, <1>6 DEF Next, Exec

\* Where an alarm can come from.
LEMMA AlarmRises ==
  ASSUME IInv, BeatsLater, [Next]_vars, NEW s \in Sessions,
         phase'[s] = "lost" \/ (phase'[s] = "held" /\ call'[s]["beat"] = "refused")
  PROVE  \/ phase[s] = "lost" \/ (phase[s] = "held" /\ call[s]["beat"] = "refused")
         \/ phase[s] = "held" /\ ExecBeat(s) /\ owner # s
  <1> USE DEF Enter, Receive, Send, GiveUp, Answer, TypeOK, Ops, IInv
  <1>1. ASSUME NEW t \in Sessions, ExecAcquire(t) \/ ExecRelease(t)
        PROVE  \/ phase[s] = "lost" \/ (phase[s] = "held" /\ call[s]["beat"] = "refused")
    BY <1>1 DEF ExecAcquire, ExecRelease
  <1>2. ASSUME NEW t \in Sessions, ExecBeat(t)
        PROVE  \/ phase[s] = "lost" \/ (phase[s] = "held" /\ call[s]["beat"] = "refused")
               \/ phase[s] = "held" /\ ExecBeat(s) /\ owner # s
    BY <1>2 DEF ExecBeat
  <1>3. ASSUME NEW t \in Sessions, Acquire(t) \/ Acquired(t) \/ InUse(t) \/ AcquireFails(t)
        PROVE  \/ phase[s] = "lost" \/ (phase[s] = "held" /\ call[s]["beat"] = "refused")
    BY <1>3 DEF BeatsLater, Acquire, Acquired, InUse, AcquireFails
  <1>4. ASSUME NEW t \in Sessions, Beat(t) \/ BeatOk(t) \/ BeatLost(t) \/ BeatFails(t)
        PROVE  \/ phase[s] = "lost" \/ (phase[s] = "held" /\ call[s]["beat"] = "refused")
    BY <1>4 DEF Beat, BeatOk, BeatLost, BeatFails
  <1>5. ASSUME NEW t \in Sessions, StopBeats(t) \/ Release(t) \/ Released(t) \/ ReleaseFails(t)
        PROVE  \/ phase[s] = "lost" \/ (phase[s] = "held" /\ call[s]["beat"] = "refused")
    BY <1>5 DEF StopBeats, Release, Released, ReleaseFails
  <1>6. ASSUME NEW t \in Sessions, Crash(t) \/ RunnerStarts(t) \/ RunnerEnds(t)
        PROVE  \/ phase[s] = "lost" \/ (phase[s] = "held" /\ call[s]["beat"] = "refused")
    BY <1>6 DEF Crash, RunnerStarts, RunnerEnds
  <1>7. CASE Tick \/ UNCHANGED vars
    BY <1>7 DEF Tick, vars
  <1> QED
    BY <1>1, <1>2, <1>3, <1>4, <1>5, <1>6, <1>7 DEF Next, Exec, Client

LEMMA AlarmsStep == IInv /\ JobsInv /\ [Next]_vars => Alarms'
  <1> SUFFICES ASSUME IInv, JobsInv, [Next]_vars, NEW s \in Sessions,
                      phase'[s] = "lost" \/ (phase'[s] = "held" /\ call'[s]["beat"] = "refused")
               PROVE  Superseded(s)'
    BY DEF Alarms, Superseded
  <1>1. CASE phase[s] = "lost" \/ (phase[s] = "held" /\ call[s]["beat"] = "refused")
    <2>1. Superseded(s)
      BY <1>1 DEF JobsInv, Alarms
    <2> QED
      BY <1>1, <2>1, SupersededStays
  <1>2. CASE phase[s] = "held" /\ ExecBeat(s) /\ owner # s
    <2>1. ~ (since[s] <= LockTtl)
      BY <1>2 DEF IInv, Owners, Holding
    <2>2. since[s] \in Nat /\ LockTtl \in Nat
      BY AgeFacts DEF IInv, TypeOK
    <2>3. since[s] > LockTtl
      BY <2>1, <2>2
    <2> QED
      BY <1>2, <2>3, SupersededStays DEF Superseded
  <1> QED
    BY <1>1, <1>2, AlarmRises DEF JobsInv

LEMMA DrainedStep == IInv /\ JobsInv /\ [Next]_vars => Drained' /\ BeatsLater'
  <1> SUFFICES ASSUME IInv, JobsInv, [Next]_vars PROVE Drained' /\ BeatsLater'
    OBVIOUS
  <1> USE DEF IInv, JobsInv, TypeOK, Ops, Drained, BeatsLater, Enter, Receive, Send, GiveUp,
              Answer, Unchanged
  <1>1. ASSUME NEW s \in Sessions, Exec(s) PROVE Drained' /\ BeatsLater'
    BY <1>1 DEF Exec, ExecAcquire, ExecBeat, ExecRelease, Pending
  <1>2. ASSUME NEW s \in Sessions, Acquire(s) \/ Acquired(s) \/ InUse(s) \/ AcquireFails(s)
        PROVE  Drained' /\ BeatsLater'
    BY <1>2 DEF Acquire, Acquired, InUse, AcquireFails
  <1>3. ASSUME NEW s \in Sessions, Beat(s) \/ BeatOk(s) \/ BeatLost(s) \/ BeatFails(s)
        PROVE  Drained' /\ BeatsLater'
    BY <1>3 DEF Beat, BeatOk, BeatLost, BeatFails
  <1>4. ASSUME NEW s \in Sessions, StopBeats(s) \/ Release(s) \/ Released(s) \/ ReleaseFails(s)
        PROVE  Drained' /\ BeatsLater'
    BY <1>4 DEF StopBeats, Release, Released, ReleaseFails
  <1>5. ASSUME NEW s \in Sessions, Crash(s) PROVE Drained' /\ BeatsLater'
    BY <1>5 DEF Crash
  <1>6. ASSUME NEW s \in Sessions, RunnerStarts(s) \/ RunnerEnds(s) PROVE Drained' /\ BeatsLater'
    BY <1>6 DEF RunnerStarts, RunnerEnds
  <1>7. CASE Tick \/ UNCHANGED vars
    BY <1>7 DEF Tick, vars
  <1> QED
    BY <1>1, <1>2, <1>3, <1>4, <1>5, <1>6, <1>7 DEF Next, Client

-----------------------------------------------------------------------------
(* The theorems *)

\* The inductive invariant holds in every reachable state, for any number of
\* sessions and any time to live, whatever requests are lost or late.
THEOREM LockInvariant == Spec => []IInv
  BY InitIInv, NextKeeps, PTL DEF Spec

\* Every variable keeps its type.
THEOREM LockTyped == Spec => []TypeOK
  <1>1. IInv => TypeOK
    BY DEF IInv
  <1> QED
    BY <1>1, LockInvariant, PTL

\* A session whose heartbeats are executed in time keeps the host, whatever the
\* other sessions send and however late it arrives.
THEOREM FreshHolderTheorem == Spec => []FreshHolderOwns
  <1>1. IInv => FreshHolderOwns
    BY DEF IInv, Owners, Holding, FreshHolderOwns
  <1> QED
    BY <1>1, LockInvariant, PTL

\* A lock that its session released is never brought back by a request of that
\* session that was still under way.
THEOREM ReleasedTheorem == Spec => []ReleasedStaysFree
  <1>1. IInv => ReleasedStaysFree
    BY DEF IInv, Releases, ReleasedStaysFree
  <1> QED
    BY <1>1, LockInvariant, PTL

\* The jobs of two sessions run on a host together only after a crash or after
\* heartbeats that were overdue by more than the time to live.
THEOREM JobsTheorem == Spec => []JobsOfOneSession
  <1>1. Init => JobsInv
    BY DEF Init, JobsInv, Alarms, Drained, BeatsLater, Ops
  <1>2. IInv /\ JobsInv /\ [Next]_vars => JobsInv'
    BY AlarmsStep, DrainedStep DEF JobsInv
  <1>3. Spec => []JobsInv
    BY <1>1, <1>2, LockInvariant, PTL DEF Spec
  <1>4. IInv /\ JobsInv => JobsOfOneSession
    <2> SUFFICES ASSUME IInv, JobsInv, NEW s \in Sessions, NEW t \in Sessions,
                        s # t, runner[s], runner[t],
                        \A x \in {s, t} : phase[x] # "crashed"
                 PROVE  \E x \in {s, t} : since[x] > LockTtl
      BY DEF JobsOfOneSession
    <2>1. \A x \in {s, t} : phase[x] \in {"held", "lost"}
      BY DEF JobsInv, Drained
    <2>2. ASSUME NEW x \in {s, t}, phase[x] = "lost"
          PROVE  \E y \in {s, t} : since[y] > LockTtl
      BY <2>2 DEF JobsInv, Alarms, Superseded
    <2>3. ASSUME phase[s] = "held", phase[t] = "held"
          PROVE  ~ (since[s] <= LockTtl) \/ ~ (since[t] <= LockTtl)
      BY <2>3 DEF IInv, Owners, Holding
    <2>4. since[s] \in Nat /\ since[t] \in Nat /\ LockTtl \in Nat
      BY AgeFacts DEF IInv, TypeOK
    <2> QED
      BY <2>1, <2>2, <2>3, <2>4
  <1> QED
    BY <1>3, <1>4, LockInvariant, PTL

=============================================================================
