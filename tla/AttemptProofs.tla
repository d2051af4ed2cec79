--------------------------- MODULE AttemptProofs ---------------------------
(***************************************************************************)
(* Proofs about AttemptSupervisor, whose behaviours are unbounded: an      *)
(* attempt that ends as settled left nothing running, a noticed loss is    *)
(* reported, success is genuine, and every step is one that                *)
(* AttemptContract allows or is invisible to it.                           *)
(*                                                                         *)
(* The remote side and the SSH thread only move forward (Remains), and the *)
(* supervisor's position tells how far they have got (Position): reading   *)
(* pid.json shows that there was a group, the last probe that it is gone,  *)
(* and a result without an error that the runner is, too.                  *)
(***************************************************************************)
EXTENDS AttemptSupervisor, TLAPS

\* What the remote side and the SSH thread show about each other.
Remains ==
    /\ worker.state = "unstarted" => runner = "absent"
    /\ runner \in {"absent", "starting"} => group = "none" /\ ~pidFile
    /\ runner \in {"spawned", "waiting"} => group # "none"
    /\ pidFile => group # "none" /\ runner \in {"waiting", "gone"}
    /\ resultFile => group = "dead" /\ runner = "gone"
    /\ worker = [state |-> "returned", error |-> "none"] => resultFile

\* What the supervisor's position shows about them.
Position ==
    /\ pc = "prepare" => worker.state = "unstarted"
    /\ pc = "joined" => worker.state = "returned"
    /\ pc = "collect" => worker = [state |-> "returned", error |-> "none"]
    /\ pc \in {"term", "probe", "sigkill", "verify", "join"} => pidFile
    /\ pc = "join" => group = "dead"
    /\ pc = "logs" /\ confirmed => RemoteQuiet /\ pidFile

\* Which exception is being handled, and that there is no outcome before the end.
Handling ==
    /\ pc \in {"prepare", "watch", "joined", "collect"} => exc = "none"
    /\ pc \in CleanupSteps => exc # "none"
    /\ pc = "logs" => exc = "timeout"
    /\ pc # "done" => outcome = NoOutcome

\* Who can have signalled the job by now.
Signallers ==
    /\ "supervisor" \in signalled => exc # "none"
    /\ "sweeper" \in signalled => dropped

AttemptInv ==
    /\ TypeOK /\ Remains /\ Position /\ Handling /\ Signallers
    /\ SettledIsQuiet /\ LossIsReported /\ SuccessIsGenuine

LEMMA AttemptInit == Init => AttemptInv
  <1> SUFFICES ASSUME Init PROVE AttemptInv
    OBVIOUS
  <1>1. {pidFile, resultFile, dropped, lost, cancelled} \subseteq BOOLEAN
    BY DEF Init
  <1>2. TypeOK
    BY <1>1 DEF Init, TypeOK, Steps, Exceptions, ExitCodes
  <1>3. Remains /\ Position /\ Handling /\ Signallers
    BY DEF Init, Remains, Position, Handling, Signallers, CleanupSteps
  <1>4. SettledIsQuiet /\ LossIsReported /\ SuccessIsGenuine
    BY DEF Init, SettledIsQuiet, LossIsReported, SuccessIsGenuine, NoOutcome
  <1> QED
    BY <1>2, <1>3, <1>4 DEF AttemptInv

-----------------------------------------------------------------------------
(* Everything but the supervisor *)

\* What is quiet stays quiet once the SSH thread was started or never will be.
LEMMA QuietStays ==
  ASSUME AttemptInv, UNCHANGED <<supVars, cancelled>>, pc # "prepare", RemoteQuiet,
         \/ Remote \/ WorkerReturns \/ WorkerDisconnects
         \/ LeaseDrops \/ LossNoticed \/ SweeperSignals
  PROVE  RemoteQuiet'
  BY DEF AttemptInv, Remains, RemoteQuiet, Remote, RunnerStarts, RunnerSpawns,
         RunnerRecordsPid, RunnerBreaks, RunnerLosesLog, RunnerReports, JobExits,
         WorkerReturns, WorkerDisconnects, LeaseDrops, LossNoticed, SweeperSignals,
         Signal, remoteVars, TypeOK

LEMMA RemoteStep ==
  ASSUME AttemptInv,
         \/ Remote \/ WorkerReturns \/ WorkerDisconnects
         \/ LeaseDrops \/ LossNoticed \/ SweeperSignals
  PROVE  AttemptInv'
  <1> USE DEF AttemptInv
  <1>0. UNCHANGED supVars
    BY DEF Remote, RunnerStarts, RunnerSpawns, RunnerRecordsPid, RunnerBreaks,
           RunnerLosesLog, RunnerReports, JobExits, WorkerReturns, WorkerDisconnects,
           LeaseDrops, LossNoticed, SweeperSignals, Signal
  <1>01. UNCHANGED cancelled
    BY DEF Remote, RunnerStarts, RunnerSpawns, RunnerRecordsPid, RunnerBreaks,
           RunnerLosesLog, RunnerReports, JobExits, WorkerReturns, WorkerDisconnects,
           LeaseDrops, LossNoticed, SweeperSignals, Signal
  <1>1. TypeOK'
    <2>1. {pidFile', resultFile', dropped', lost', cancelled'} \subseteq BOOLEAN
      BY <1>0, <1>01
      DEF TypeOK, Remote, RunnerStarts, RunnerSpawns, RunnerRecordsPid, RunnerBreaks,
          RunnerLosesLog, RunnerReports, JobExits, WorkerReturns, WorkerDisconnects,
          LeaseDrops, LossNoticed, SweeperSignals, Signal, remoteVars, leaseVars
    <2>2. /\ worker' \in [state : {"unstarted", "running", "returned"},
                          error : {"none", "ssh", "internal"}]
          /\ runner' \in {"absent", "starting", "spawned", "waiting", "gone"}
          /\ group' \in {"none", "alive", "dead"}
          /\ exitCode' \in ExitCodes \cup {"none"}
      BY DEF TypeOK, Remote, RunnerStarts, RunnerSpawns, RunnerRecordsPid, RunnerBreaks,
             RunnerLosesLog, RunnerReports, JobExits, WorkerReturns, WorkerDisconnects,
             LeaseDrops, LossNoticed, SweeperSignals, Signal, ExitCodes, remoteVars
    <2>3. signalled' \subseteq {"supervisor", "sweeper"}
      <3>1. signalled' \in {signalled, signalled \cup {"sweeper"}}
        BY DEF Remote, RunnerStarts, RunnerSpawns, RunnerRecordsPid, RunnerBreaks,
               RunnerLosesLog, RunnerReports, JobExits, WorkerReturns, WorkerDisconnects,
               LeaseDrops, LossNoticed, SweeperSignals, Signal, remoteVars
      <3> QED
        BY <3>1 DEF TypeOK
    <2> QED
      BY <1>0, <2>1, <2>2, <2>3 DEF TypeOK, supVars
  <1>2. Remains'
    BY DEF Remains, TypeOK, Remote, RunnerStarts, RunnerSpawns, RunnerRecordsPid,
           RunnerBreaks, RunnerLosesLog, RunnerReports, JobExits, WorkerReturns,
           WorkerDisconnects, LeaseDrops, LossNoticed, SweeperSignals, Signal,
           remoteVars, leaseVars
  <1>3. Position'
    <2>1. /\ pc = "prepare" => worker' = worker
          /\ worker.state = "returned" => worker' = worker
          /\ pidFile => pidFile'
          /\ group = "dead" => group' = "dead"
      BY DEF Position, Remains, TypeOK, Remote, RunnerStarts, RunnerSpawns,
             RunnerRecordsPid, RunnerBreaks, RunnerLosesLog, RunnerReports, JobExits,
             WorkerReturns, WorkerDisconnects, LeaseDrops, LossNoticed, SweeperSignals, Signal,
             remoteVars, leaseVars
    <2>2. pc = "logs" /\ confirmed => RemoteQuiet'
      BY <1>0, <1>01, QuietStays DEF Position
    <2> QED
      BY <1>0, <2>1, <2>2 DEF Position, supVars
  <1>4. Handling'
    BY <1>0 DEF Handling, supVars
  <1>5. SettledIsQuiet'
    <2>1. pc = "done" /\ outcome.ending \in {"settled", "lost"} => RemoteQuiet'
      BY <1>0, <1>01, QuietStays DEF SettledIsQuiet
    <2> QED
      BY <1>0, <2>1 DEF SettledIsQuiet, supVars
  <1>6. LossIsReported'
    BY <1>0 DEF LossIsReported, supVars
  <1>7. SuccessIsGenuine'
    <2>1. resultFile /\ worker.state = "returned" =>
            UNCHANGED <<exitCode, signalled, group, resultFile, worker>> /\ (dropped => dropped')
      BY DEF Remains, TypeOK, Remote, RunnerStarts, RunnerSpawns, RunnerRecordsPid,
             RunnerBreaks, RunnerLosesLog, RunnerReports, JobExits, WorkerReturns,
             WorkerDisconnects, LeaseDrops, LossNoticed, SweeperSignals, Signal, remoteVars,
             leaseVars
    <2> QED
      BY <1>0, <2>1 DEF SuccessIsGenuine, supVars
  <1>8. Signallers'
    BY <1>0
    DEF Signallers, TypeOK, Remote, RunnerStarts, RunnerSpawns, RunnerRecordsPid,
        RunnerBreaks, RunnerLosesLog, RunnerReports, JobExits, WorkerReturns,
        WorkerDisconnects, LeaseDrops, LossNoticed, SweeperSignals, Signal, supVars,
        remoteVars, leaseVars
  <1> QED
    BY <1>1, <1>2, <1>3, <1>4, <1>5, <1>6, <1>7, <1>8

-----------------------------------------------------------------------------
(* The supervisor *)

\* The end of a cleanup: what it claims about the remote side is true.
LEMMA CleanedUpEnds ==
  ASSUME AttemptInv, NEW clean \in BOOLEAN, CleanedUp(clean),
         pc \in CleanupSteps \ {"logs"}, clean => RemoteQuiet /\ pidFile,
         UNCHANGED <<exc, worker, remoteVars, leaseVars, cancelled>>
  PROVE  AttemptInv'
  <1> USE DEF AttemptInv
  <1>1. exc # "none" /\ outcome = NoOutcome /\ exc' = exc
    BY DEF Handling, CleanupSteps
  <1>2. Remains' /\ Signallers' /\ (RemoteQuiet' <=> RemoteQuiet)
    BY DEF Remains, Signallers, RemoteQuiet, remoteVars, leaseVars
  <1>3. CASE exc = "timeout"
    <2>1. pc' = "logs" /\ confirmed' = clean /\ outcome' = outcome
      BY <1>3 DEF CleanedUp
    <2>2. TypeOK'
      BY <1>1, <2>1 DEF TypeOK, Steps, CleanupSteps, remoteVars, leaseVars
    <2>3. Position' /\ Handling'
      BY <1>1, <1>2, <1>3, <2>1 DEF Position, Handling, CleanupSteps, remoteVars
    <2>4. SettledIsQuiet' /\ LossIsReported' /\ SuccessIsGenuine'
      BY <1>1, <2>1 DEF SettledIsQuiet, LossIsReported, SuccessIsGenuine, NoOutcome
    <2> QED
      BY <1>2, <2>2, <2>3, <2>4
  <1>4. CASE exc # "timeout"
    <2>1. /\ pc' = "done" /\ confirmed' = confirmed
          /\ outcome' = [verdict |-> VerdictOf(exc), ending |-> EndingOf(exc, clean),
                         published |-> FALSE]
      BY <1>4 DEF CleanedUp, Finish
    <2>2. VerdictOf(exc) \in Verdicts \ {"SUCCEEDED"} /\ EndingOf(exc, clean) \in Endings
      BY <1>1 DEF VerdictOf, EndingOf, Verdicts, Endings, TypeOK, Exceptions
    <2>3. TypeOK'
      BY <1>1, <2>1, <2>2 DEF TypeOK, Steps, remoteVars, leaseVars, Outcome
    <2>4. Position' /\ Handling'
      BY <2>1 DEF Position, Handling, CleanupSteps
    <2>5. SettledIsQuiet'
      BY <1>2, <2>1 DEF SettledIsQuiet, EndingOf
    <2>6. LossIsReported'
      BY <1>1, <2>1 DEF LossIsReported, EndingOf, VerdictOf
    <2>7. SuccessIsGenuine'
      BY <2>1, <2>2 DEF SuccessIsGenuine
    <2> QED
      BY <1>2, <2>3, <2>4, <2>5, <2>6, <2>7
  <1> QED
    BY <1>3, <1>4

\* A signal may kill the group, which hides nothing.
LEMMA SignalStep ==
  ASSUME AttemptInv, NEW codes \in SUBSET ExitCodes, Signal("supervisor", codes),
         pidFile, pc \in CleanupSteps, pc' \in {"probe", "verify"},
         UNCHANGED <<exc, confirmed, outcome, worker, runner, pidFile, resultFile,
                     leaseVars, cancelled>>
  PROVE  AttemptInv'
  <1> USE DEF AttemptInv
  <1>1. TypeOK'
    BY DEF TypeOK, Signal, Steps, CleanupSteps, ExitCodes, leaseVars
  <1>2. Remains' /\ Signallers'
    BY DEF Remains, Signallers, Signal, Handling, TypeOK, leaseVars
  <1>3. Position' /\ Handling'
    BY DEF Position, Handling, CleanupSteps
  <1>4. SettledIsQuiet' /\ LossIsReported'
    BY DEF SettledIsQuiet, LossIsReported
  <1>5. SuccessIsGenuine'
    BY DEF SuccessIsGenuine, Handling, CleanupSteps, NoOutcome
  <1> QED
    BY <1>1, <1>2, <1>3, <1>4, <1>5

\* A step that neither ends the attempt nor disturbs the remote side.
LEMMA OnwardStep ==
  ASSUME AttemptInv, UNCHANGED <<confirmed, outcome, worker, remoteVars, leaseVars>>,
         cancelled' \in BOOLEAN, pc' \in Steps \ {"done", "logs"}, exc' \in Exceptions,
         exc # "none" => exc' # "none", Position', Handling'
  PROVE  AttemptInv'
  <1> USE DEF AttemptInv
  <1>1. TypeOK' /\ Remains' /\ Signallers'
    BY DEF TypeOK, Remains, Signallers, remoteVars, leaseVars
  <1>2. outcome' = NoOutcome
    BY DEF Handling
  <1>3. SettledIsQuiet' /\ LossIsReported' /\ SuccessIsGenuine'
    BY <1>2 DEF SettledIsQuiet, LossIsReported, SuccessIsGenuine, NoOutcome
  <1> QED
    BY <1>1, <1>3

\* The attempt ends, and what it says of the remote side is true.
LEMMA FinishStep ==
  ASSUME AttemptInv, NEW v \in Verdicts, NEW e \in Endings, NEW p \in BOOLEAN,
         Finish(v, e, p), e \in {"settled", "lost"} => RemoteQuiet,
         exc = "lost" => e = "escaped",
         v = "SUCCEEDED" => /\ exitCode = "zero" /\ resultFile /\ exc = "none"
                            /\ worker = [state |-> "returned", error |-> "none"],
         UNCHANGED <<exc, confirmed, worker, remoteVars, leaseVars>>,
         cancelled' \in BOOLEAN
  PROVE  AttemptInv'
  <1> USE DEF AttemptInv
  <1>1. pc' = "done" /\ outcome' = [verdict |-> v, ending |-> e, published |-> p]
    BY DEF Finish
  <1>2. TypeOK'
    BY <1>1 DEF TypeOK, Steps, Outcome, remoteVars, leaseVars
  <1>3. Remains' /\ Signallers' /\ (RemoteQuiet' <=> RemoteQuiet)
    BY DEF Remains, Signallers, RemoteQuiet, remoteVars, leaseVars
  <1>4. Position' /\ Handling'
    BY <1>1 DEF Position, Handling, CleanupSteps
  <1>5. SettledIsQuiet' /\ LossIsReported'
    BY <1>1, <1>3 DEF SettledIsQuiet, LossIsReported
  <1>6. SuccessIsGenuine'
    BY <1>1 DEF SuccessIsGenuine, Remains, Signallers, TypeOK, remoteVars, leaseVars
  <1> QED
    BY <1>2, <1>3, <1>4, <1>5, <1>6

LEMMA AttemptStep == AttemptInv /\ [Next]_vars => AttemptInv'
  <1> SUFFICES ASSUME AttemptInv, [Next]_vars PROVE AttemptInv'
    OBVIOUS
  <1>0. TypeOK /\ Remains /\ Position /\ Handling /\ Signallers /\ cancelled \in BOOLEAN
    BY DEF AttemptInv, TypeOK
  <1>q. pc \in {"prepare", "collect"} => RemoteQuiet /\ exc = "none"
    BY <1>0 DEF Position, Remains, RemoteQuiet, Handling
  <1>1. CASE \/ Remote \/ WorkerReturns \/ WorkerDisconnects
             \/ LeaseDrops \/ LossNoticed \/ SweeperSignals
    BY <1>1, RemoteStep
  <1>2. CASE Prepare
    <2>1. TypeOK' /\ Remains' /\ Position' /\ Handling' /\ Signallers'
      BY <1>0, <1>2
      DEF Prepare, TypeOK, Remains, Position, Handling, Signallers, Steps, CleanupSteps, remoteVars,
          leaseVars
    <2>2. pc' = "watch" /\ outcome' = NoOutcome
      BY <1>0, <1>2 DEF Prepare, Handling
    <2>3. SettledIsQuiet' /\ LossIsReported' /\ SuccessIsGenuine'
      BY <2>2 DEF SettledIsQuiet, LossIsReported, SuccessIsGenuine, NoOutcome
    <2> QED
      BY <2>1, <2>3 DEF AttemptInv
  <1>3. ASSUME NEW v \in {"SSH", "INTERNAL", "CRASHED"}, PrepareFails(v)
        PROVE  AttemptInv'
    <2>1. v \in Verdicts \ {"SUCCEEDED"} /\ "settled" \in Endings /\ pc = "prepare"
      BY <1>3 DEF PrepareFails, Verdicts, Endings
    <2> QED
      BY <1>0, <1>3, <1>q, <2>1, FinishStep DEF PrepareFails
  <1>4. CASE Watch
    <2>1. /\ exc = "none" /\ exc' \in Exceptions /\ pc' \in Steps \ {"done", "logs"}
          /\ UNCHANGED <<confirmed, outcome, worker, remoteVars, leaseVars, cancelled>>
      BY <1>0, <1>4 DEF Watch, Raise, Exceptions, Steps, CleanupSteps, TypeOK, Handling
    <2>2. Position' /\ Handling'
      BY <1>0, <1>4 DEF Watch, Raise, Position, Handling, CleanupSteps
    <2> QED
      BY <1>0, <2>1, <2>2, OnwardStep
  <1>5. CASE Joined
    <2>1. /\ exc = "none" /\ exc' \in Exceptions /\ pc' \in Steps \ {"done", "logs"}
          /\ UNCHANGED <<confirmed, outcome, worker, remoteVars, leaseVars, cancelled>>
      BY <1>0, <1>5 DEF Joined, Raise, Exceptions, Steps, CleanupSteps, TypeOK, Handling
    <2>2. pc' = "collect" => worker = [state |-> "returned", error |-> "none"]
      BY <1>0, <1>5 DEF Joined, Raise, Position, TypeOK
    <2>3. Position' /\ Handling'
      BY <1>0, <1>5, <2>2 DEF Joined, Raise, Position, Handling, CleanupSteps
    <2> QED
      BY <1>0, <2>1, <2>3, OnwardStep
  <1>6. CASE Collect
    <2>1. PICK v \in CollectVerdicts, published \in BOOLEAN :
            Finish(v, "settled", published)
      BY <1>6 DEF Collect
    <2>2. v \in Verdicts /\ "settled" \in Endings /\ (v = "SUCCEEDED" => exitCode = "zero")
      BY DEF CollectVerdicts, JobSucceeded, Verdicts, Endings
    <2>3. /\ resultFile /\ worker = [state |-> "returned", error |-> "none"]
          /\ pc = "collect"
          /\ UNCHANGED <<exc, confirmed, worker, remoteVars, leaseVars, cancelled>>
      BY <1>0, <1>6 DEF Collect, Position
    <2> QED
      BY <1>0, <1>q, <2>1, <2>2, <2>3, FinishStep
  <1>7. CASE SeekPid
    <2>1. /\ pc = "kill" /\ pc \in CleanupSteps \ {"logs"}
          /\ UNCHANGED <<exc, worker, remoteVars, leaseVars, cancelled>>
      BY <1>7 DEF SeekPid, Cleanup, CleanupSteps, remoteVars
    <2>2. CASE pidFile
      <3>1. pc' = "term" /\ UNCHANGED <<confirmed, outcome>>
        BY <1>7, <2>2 DEF SeekPid
      <3>2. pc' \in Steps \ {"done", "logs"} /\ exc' \in Exceptions
        BY <1>0, <2>1, <3>1 DEF Steps, CleanupSteps, TypeOK
      <3>3. Position' /\ Handling'
        BY <1>0, <2>1, <2>2, <3>1 DEF Position, Handling, CleanupSteps, remoteVars
      <3> QED
        BY <1>0, <2>1, <3>1, <3>2, <3>3, OnwardStep
    <2>3. CASE ~pidFile
      BY <1>7, <2>1, <2>3, CleanedUpEnds DEF SeekPid
    <2> QED
      BY <2>2, <2>3
  <1>8. CASE SendTerm \/ SendKill
    <2>1. /\ pc \in {"term", "sigkill"} /\ pc' \in {"probe", "verify"}
          /\ \E codes \in SUBSET ExitCodes : Signal("supervisor", codes)
      BY <1>8 DEF SendTerm, SendKill, Cleanup, ExitCodes
    <2>2. pidFile /\ pc \in CleanupSteps
      BY <1>0, <2>1 DEF Position, CleanupSteps
    <2>3. UNCHANGED <<exc, confirmed, outcome, worker, runner, pidFile, resultFile,
                      leaseVars, cancelled>>
      BY <1>8 DEF SendTerm, SendKill, Cleanup
    <2> QED
      BY <2>1, <2>2, <2>3, SignalStep
  <1>9. CASE Probe
    <2>1. /\ pc = "probe" /\ pidFile
          /\ pc' = IF group = "alive" THEN "sigkill" ELSE "join"
          /\ UNCHANGED <<exc, confirmed, outcome, worker, remoteVars, leaseVars, cancelled>>
      BY <1>0, <1>9 DEF Probe, Cleanup, Position, remoteVars
    <2>2. pc' = "join" => group = "dead"
      BY <1>0, <2>1 DEF Remains, TypeOK
    <2>3. pc' \in Steps \ {"done", "logs"} /\ exc' \in Exceptions
      BY <1>0, <2>1 DEF Steps, CleanupSteps, TypeOK
    <2>4. Position' /\ Handling'
      BY <1>0, <2>1, <2>2 DEF Position, Handling, CleanupSteps, remoteVars
    <2> QED
      BY <1>0, <2>1, <2>3, <2>4, OnwardStep
  <1>10. CASE Verify
    <2>1. /\ pc = "verify" /\ pidFile /\ pc \in CleanupSteps \ {"logs"}
          /\ UNCHANGED <<exc, worker, remoteVars, leaseVars, cancelled>>
      BY <1>0, <1>10 DEF Verify, Cleanup, Position, CleanupSteps, remoteVars
    <2>2. CASE group = "alive"
      BY <1>10, <2>1, <2>2, CleanedUpEnds DEF Verify
    <2>3. CASE group # "alive"
      <3>1. pc' = "join" /\ group = "dead" /\ UNCHANGED <<confirmed, outcome>>
        BY <1>0, <1>10, <2>1, <2>3 DEF Verify, Remains, TypeOK
      <3>2. pc' \in Steps \ {"done", "logs"} /\ exc' \in Exceptions
        BY <1>0, <2>1, <3>1 DEF Steps, CleanupSteps, TypeOK
      <3>3. Position' /\ Handling'
        BY <1>0, <2>1, <3>1 DEF Position, Handling, CleanupSteps, remoteVars
      <3> QED
        BY <1>0, <2>1, <3>1, <3>2, <3>3, OnwardStep
    <2> QED
      BY <2>2, <2>3
  <1>11. CASE JoinWorker
    <2>1. /\ pc = "join" /\ pc \in CleanupSteps \ {"logs"}
          /\ UNCHANGED <<exc, worker, remoteVars, leaseVars, cancelled>>
      BY <1>11 DEF JoinWorker, Cleanup, CleanupSteps, remoteVars
    <2>2. group = "dead" /\ runner \notin {"starting", "spawned"} /\ pidFile
      BY <1>0, <2>1 DEF Position, Remains
    <2>3. CASE worker.state # "running" /\ CleanedUp(TRUE)
      <3>1. RemoteQuiet
        BY <2>2, <2>3 DEF RemoteQuiet
      <3> QED
        BY <2>1, <2>2, <2>3, <3>1, CleanedUpEnds
    <2>4. CASE CleanedUp(FALSE)
      BY <2>1, <2>4, CleanedUpEnds
    <2> QED
      BY <1>11, <2>3, <2>4 DEF JoinWorker
  <1>12. CASE CleanupDisconnects
    <2>1. /\ pc \in CleanupSteps \ {"logs"} /\ CleanedUp(FALSE)
          /\ UNCHANGED <<exc, worker, remoteVars, leaseVars, cancelled>>
      BY <1>12 DEF CleanupDisconnects, Cleanup, remoteVars
    <2> QED
      BY <2>1, CleanedUpEnds
  <1>13. CASE PullLogs
    <2>1. /\ pc = "logs" /\ Finish("TIMEOUT", EndingOf("timeout", confirmed), FALSE)
          /\ UNCHANGED <<exc, confirmed, worker, remoteVars, leaseVars, cancelled>>
      BY <1>13 DEF PullLogs, Cleanup, remoteVars
    <2>2. /\ "TIMEOUT" \in Verdicts /\ EndingOf("timeout", confirmed) \in Endings
          /\ exc = "timeout"
      BY <1>0, <2>1 DEF Verdicts, EndingOf, Endings, Handling
    <2>3. EndingOf("timeout", confirmed) \in {"settled", "lost"} => RemoteQuiet
      BY <1>0, <2>1 DEF EndingOf, Position
    <2> QED
      BY <1>0, <2>1, <2>2, <2>3, FinishStep
  <1>14. CASE RecordFails
    <2>1. /\ Finish("CRASHED", "escaped", FALSE)
          /\ UNCHANGED <<exc, confirmed, worker, remoteVars, leaseVars, cancelled>>
      BY <1>14 DEF RecordFails, Cleanup, remoteVars
    <2>2. "CRASHED" \in Verdicts /\ "escaped" \in Endings
      BY DEF Verdicts, Endings
    <2> QED
      BY <1>0, <2>1, <2>2, FinishStep
  <1>15. CASE Cancel
    <2>1. cancelled' = TRUE /\ UNCHANGED <<confirmed, worker, remoteVars, leaseVars>>
      BY <1>15 DEF Cancel
    <2>2. "CANCELLED" \in Verdicts /\ {"settled", "escaped"} \subseteq Endings
      BY DEF Verdicts, Endings
    <2>3. CASE /\ pc \in {"prepare", "watch", "joined"}
               /\ pc' = "kill" /\ exc' = "cancel" /\ UNCHANGED outcome
      <3>1. pc' \in Steps \ {"done", "logs"} /\ exc' \in Exceptions
        BY <2>3 DEF Steps, CleanupSteps, Exceptions
      <3>2. Position' /\ Handling'
        BY <1>0, <2>1, <2>3 DEF Position, Handling, CleanupSteps
      <3> QED
        BY <2>1, <2>3, <3>1, <3>2, OnwardStep
    <2>4. ASSUME NEW p \in BOOLEAN, pc \in {"prepare", "collect"}, UNCHANGED exc,
                 Finish("CANCELLED", "settled", p)
          PROVE  AttemptInv'
      BY <1>q, <2>1, <2>2, <2>4, FinishStep
    <2>5. CASE Finish("CANCELLED", "escaped", FALSE) /\ UNCHANGED exc
      BY <2>1, <2>2, <2>5, FinishStep
    <2>6. JobSucceeded \in BOOLEAN
      BY DEF JobSucceeded
    <2> QED
      BY <1>15, <2>3, <2>4, <2>5, <2>6
      DEF Cancel, CancelPrepare, CancelRunning, CancelCleanup, CancelCollect
  <1>16. CASE CancelAbsorbed \/ UNCHANGED vars
    <2>1. UNCHANGED <<supVars, worker, remoteVars, leaseVars>> /\ cancelled' \in BOOLEAN
      BY <1>0, <1>16 DEF CancelAbsorbed, vars
    <2> QED
      BY <2>1
      DEF AttemptInv, TypeOK, Remains, Position, Handling, Signallers, SettledIsQuiet,
          LossIsReported, SuccessIsGenuine, RemoteQuiet, supVars, remoteVars, leaseVars
  <1> QED
    BY <1>1, <1>2, <1>3, <1>4, <1>5, <1>6, <1>7, <1>8, <1>9, <1>10, <1>11, <1>12, <1>13,
       <1>14, <1>15, <1>16
    DEF Next, CleanupStep

LEMMA AttemptInvariant == Spec => []AttemptInv
  BY AttemptInit, AttemptStep, PTL DEF Spec

-----------------------------------------------------------------------------
(* The theorems *)

\* Every variable of an attempt keeps its type.
THEOREM AttemptTyped == Spec => []TypeOK
  <1>1. AttemptInv => TypeOK
    BY DEF AttemptInv
  <1> QED
    BY <1>1, AttemptInvariant, PTL

\* However timeouts, losses, broken connections and a cancellation interleave
\* with the runner, an attempt that ends as settled, or as lost and cleaned up,
\* has left nothing running on the host.
THEOREM QuietTheorem == Spec => []SettledIsQuiet
  <1>1. AttemptInv => SettledIsQuiet
    BY DEF AttemptInv
  <1> QED
    BY <1>1, AttemptInvariant, PTL

\* An attempt whose supervision ended with the loss of its lease is reported as
\* HOST_LOST, so that the host is quarantined and the job may be retried.
THEOREM LossTheorem == Spec => []LossIsReported
  <1>1. AttemptInv => LossIsReported
    BY DEF AttemptInv
  <1> QED
    BY <1>1, AttemptInvariant, PTL

\* A job recorded as SUCCEEDED exited with zero, its result arrived without an
\* error, and the supervisor never signalled it; if a sweeper did, the lease was
\* already dropped.
THEOREM SuccessTheorem == Spec => []SuccessIsGenuine
  <1>1. AttemptInv => SuccessIsGenuine
    BY DEF AttemptInv
  <1> QED
    BY <1>1, AttemptInvariant, PTL

\* Where an attempt is that noticed a loss: running, cleaning up, or at its end.
Doomed ==
    \/ lost /\ pc \in {"watch", "joined"}
    \/ pc \in CleanupSteps
    \/ pc = "done" /\ outcome.verdict \notin CommandVerdicts

LEMMA DoomedStays == AttemptInv /\ Doomed /\ [Next]_vars => Doomed'
  <1> SUFFICES ASSUME AttemptInv, Doomed, [Next]_vars PROVE Doomed'
    OBVIOUS
  <1>0. /\ Handling /\ pc \in {"watch", "joined", "done"} \cup CleanupSteps
        /\ lost \in BOOLEAN
    BY DEF AttemptInv, Doomed, TypeOK
  <1>1. ASSUME NEW v \in Verdicts \ CommandVerdicts, NEW e, NEW p, Finish(v, e, p)
        PROVE  Doomed'
    BY <1>1 DEF Finish, Doomed
  <1>2. ASSUME pc' \in CleanupSteps
        PROVE  Doomed'
    BY <1>2 DEF Doomed
  <1>3. ASSUME NEW clean, CleanedUp(clean), pc \in CleanupSteps
        PROVE  Doomed'
    <2>1. CASE exc = "timeout"
      BY <1>2, <1>3, <2>1 DEF CleanedUp, CleanupSteps
    <2>2. CASE exc # "timeout"
      <3>1. exc \in {"lost", "cancel", "ssh", "internal"}
        BY <1>0, <1>3, <2>2 DEF AttemptInv, TypeOK, Exceptions, Handling
      <3>2. VerdictOf(exc) \in Verdicts \ CommandVerdicts
        BY <3>1 DEF VerdictOf, Verdicts, CommandVerdicts
      <3> QED
        BY <1>1, <1>3, <2>2, <3>2 DEF CleanedUp
    <2> QED
      BY <2>1, <2>2
  <1>4. CASE UNCHANGED supVars /\ (lost => lost')
    BY <1>4 DEF Doomed, supVars
  <1>5. CASE \/ Remote \/ WorkerReturns \/ WorkerDisconnects
             \/ LeaseDrops \/ LossNoticed \/ SweeperSignals \/ CancelAbsorbed \/ UNCHANGED vars
    BY <1>4, <1>5
    DEF Remote, RunnerStarts, RunnerSpawns, RunnerRecordsPid, RunnerBreaks, RunnerLosesLog,
        RunnerReports, JobExits, WorkerReturns, WorkerDisconnects, LeaseDrops, LossNoticed,
        SweeperSignals, Signal, CancelAbsorbed, leaseVars, vars
  <1>6. CASE Watch \/ Joined
    BY <1>0, <1>6 DEF Watch, Joined, Raise, Doomed, CleanupSteps, leaseVars
  <1>7. CASE SeekPid \/ SendTerm \/ Probe \/ SendKill \/ Verify \/ JoinWorker \/ CleanupDisconnects
    BY <1>2, <1>3, <1>7
    DEF SeekPid, SendTerm, Probe, SendKill, Verify, JoinWorker, CleanupDisconnects, Cleanup,
        CleanupSteps
  <1>8. CASE PullLogs \/ RecordFails
    BY <1>1, <1>8 DEF PullLogs, RecordFails, Verdicts, CommandVerdicts
  <1>9. CASE Cancel
    BY <1>0, <1>1, <1>2, <1>9
    DEF Cancel, CancelPrepare, CancelRunning, CancelCleanup, CancelCollect, Verdicts,
        CommandVerdicts, CleanupSteps
  <1>10. ~(Prepare \/ Collect \/ \E v \in {"SSH", "INTERNAL", "CRASHED"} : PrepareFails(v))
    BY <1>0 DEF Prepare, Collect, PrepareFails, CleanupSteps
  <1> QED
    BY <1>5, <1>6, <1>7, <1>8, <1>9, <1>10 DEF Next, CleanupStep

\* A loss noticed while the attempt runs is never overtaken by a verdict on the
\* command.
THEOREM FinalLossTheorem == Spec => LossIsFinal
  <1>1. lost /\ pc \in {"watch", "joined"} => Doomed
    BY DEF Doomed
  <1>2. AttemptInv /\ Doomed => outcome.verdict \notin CommandVerdicts
    BY DEF AttemptInv, Handling, Doomed, CleanupSteps, NoOutcome, CommandVerdicts
  <1> QED
    BY <1>1, <1>2, DoomedStays, AttemptInvariant, PTL DEF Spec, LossIsFinal

-----------------------------------------------------------------------------
(* The contract *)

\* The supervisor's own steps leave the process alone.
LEMMA ContractProcKept ==
  ASSUME UNCHANGED <<worker, runner, group>>
  PROVE  ContractProc' = ContractProc
  BY DEF ContractProc

\* A step of the remote side, of the SSH thread or of the sweeper.
LEMMA ContractRemote ==
  ASSUME AttemptInv, UNCHANGED supVars,
         \/ Remote \/ WorkerReturns \/ WorkerDisconnects
         \/ LeaseDrops \/ LossNoticed \/ SweeperSignals
  PROVE  [Contract!Next]_(Contract!vars)
  <1>1. ContractEnding' = ContractEnding /\ exc' = exc
    BY DEF ContractEnding, supVars
  <1>2. \/ ContractProc' = ContractProc
        \/ ContractProc = "issued" /\ ContractProc' \in {"alive", "void"}
        \/ ContractProc = "alive" /\ ContractProc' = "dead"
    BY DEF AttemptInv, TypeOK, Remains, ContractProc, Remote, RunnerStarts, RunnerSpawns,
           RunnerRecordsPid, RunnerBreaks, RunnerLosesLog, RunnerReports, JobExits,
           WorkerReturns, WorkerDisconnects, LeaseDrops, LossNoticed, SweeperSignals, Signal,
           remoteVars
  <1> QED
    BY <1>1, <1>2 DEF Contract!Next, Contract!Remote, Contract!ProcStep, Contract!vars

\* A step of the supervisor that neither ends the attempt nor acts on a loss.
LEMMA ContractStutter ==
  ASSUME pc # "done", pc' # "done", exc # "lost", exc' # "lost",
         UNCHANGED <<worker, runner, group>>
  PROVE  [Contract!Next]_(Contract!vars)
  <1>1. ContractEnding' = ContractEnding
    BY DEF ContractEnding
  <1> QED
    BY <1>1, ContractProcKept DEF Contract!vars

\* A step of the cleanup, which may kill the group and may end the attempt.
LEMMA ContractEnds ==
  ASSUME AttemptInv, AttemptInv', pc # "done", pc' = "done", UNCHANGED <<exc, worker, runner, group>>,
         outcome'.ending = "settled" => exc # "lost" /\ (group # "none" \/ worker.state = "unstarted")
  PROVE  Contract!Next
  <1>1. ContractEnding = "open" /\ ContractProc' = ContractProc
    BY ContractProcKept DEF ContractEnding
  <1>2. CASE outcome'.ending = "settled"
    <2>1. ContractEnding' = "settled" /\ exc # "lost" /\ (group # "none" \/ worker.state = "unstarted")
      BY <1>2 DEF ContractEnding
    <2>2. group # "alive"
      BY <1>2 DEF AttemptInv, SettledIsQuiet, RemoteQuiet
    <2>3. ContractProc \in {"none", "dead"}
      BY <2>1, <2>2 DEF AttemptInv, Remains, TypeOK, ContractProc
    <2> QED
      BY <1>1, <2>1, <2>3 DEF Contract!Next, Contract!EndSettled, Contract!End
  <1>3. CASE outcome'.ending # "settled"
    <2>1. ContractEnding' \in {"escaped", "unsettled"}
      BY <1>3 DEF ContractEnding
    <2> QED
      BY <1>1, <2>1 DEF Contract!Next, Contract!EndUnsettled, Contract!EndEscaped, Contract!End
  <1> QED
    BY <1>2, <1>3

LEMMA ContractStep == AttemptInv /\ [Next]_vars => [Contract!Next]_(Contract!vars)
  <1> SUFFICES ASSUME AttemptInv, [Next]_vars PROVE [Contract!Next]_(Contract!vars)
    OBVIOUS
  <1>0. AttemptInv' /\ TypeOK /\ Remains /\ Position /\ Handling
    BY AttemptStep DEF AttemptInv
  <1>1. CASE \/ Remote \/ WorkerReturns \/ WorkerDisconnects
             \/ LeaseDrops \/ LossNoticed \/ SweeperSignals
    <2>1. UNCHANGED supVars
      BY <1>1
      DEF Remote, RunnerStarts, RunnerSpawns, RunnerRecordsPid, RunnerBreaks, RunnerLosesLog,
          RunnerReports, JobExits, WorkerReturns, WorkerDisconnects, LeaseDrops, LossNoticed,
          SweeperSignals, Signal
    <2> QED
      BY <1>1, <2>1, ContractRemote
  <1>2. CASE Prepare
    <2>1. ContractProc = "none" /\ ContractProc' = "issued"
      BY <1>0, <1>2 DEF Prepare, Position, Remains, TypeOK, ContractProc, remoteVars
    <2>2. ContractEnding = "open" /\ ContractEnding' = "open" /\ exc' = exc
      BY <1>2 DEF Prepare, ContractEnding
    <2> QED
      BY <2>1, <2>2 DEF Contract!Next, Contract!Issue
  <1>3. ASSUME NEW v \in {"SSH", "INTERNAL", "CRASHED"}, PrepareFails(v)
        PROVE  Contract!Next
    BY <1>0, <1>3, ContractEnds DEF PrepareFails, Finish, Position, Handling, remoteVars
  <1>4. CASE Watch \/ Joined
    <2>1. /\ pc \in {"watch", "joined"} /\ pc' # "done" /\ exc = "none"
          /\ UNCHANGED <<worker, runner, group>>
      BY <1>0, <1>4 DEF Watch, Joined, Raise, Handling, remoteVars
    <2>2. CASE exc' = "lost"
      <3>1. ContractEnding = "open" /\ ContractEnding' = "open"
        BY <2>1 DEF ContractEnding
      <3> QED
        BY <2>1, <2>2, <3>1, ContractProcKept DEF Contract!Next, Contract!Fence
    <2>3. CASE exc' # "lost"
      BY <2>1, <2>3, ContractStutter
    <2> QED
      BY <2>2, <2>3
  <1>5. CASE Collect
    BY <1>0, <1>5, ContractEnds DEF Collect, Finish, Remains, Handling, Position, remoteVars
  <1>6. ASSUME NEW clean \in BOOLEAN, CleanedUp(clean), pc \in CleanupSteps,
               clean => group # "none",
               UNCHANGED <<exc, worker, runner, group>>
        PROVE  [Contract!Next]_(Contract!vars)
    <2>1. CASE exc = "timeout"
      BY <1>6, <2>1, ContractStutter DEF CleanedUp, CleanupSteps
    <2>2. CASE exc # "timeout"
      <3>1. pc' = "done" /\ outcome'.ending = EndingOf(exc, clean)
        BY <1>6, <2>2 DEF CleanedUp, Finish
      <3>2. EndingOf(exc, clean) = "settled" => clean /\ exc # "lost"
        BY DEF EndingOf
      <3> QED
        BY <1>0, <1>6, <3>1, <3>2, ContractEnds DEF CleanupSteps
    <2> QED
      BY <2>1, <2>2
  <1>7. CASE SeekPid \/ Probe \/ Verify \/ JoinWorker \/ CleanupDisconnects
    <2>1. pc \in CleanupSteps /\ UNCHANGED <<exc, worker, runner, group>>
      BY <1>7 DEF SeekPid, Probe, Verify, JoinWorker, CleanupDisconnects, Cleanup, CleanupSteps
    <2>2. ASSUME pc' \in CleanupSteps PROVE [Contract!Next]_(Contract!vars)
      <3>1. ContractEnding' = ContractEnding
        BY <2>1, <2>2 DEF ContractEnding, CleanupSteps
      <3> QED
        BY <2>1, <3>1, ContractProcKept DEF Contract!vars
    <2>3. \/ pc' \in CleanupSteps
          \/ \E clean \in BOOLEAN : CleanedUp(clean) /\ (clean => group # "none")
      BY <1>0, <1>7
      DEF SeekPid, Probe, Verify, JoinWorker, CleanupDisconnects, Cleanup, CleanupSteps,
          Position, Remains
    <2> QED
      BY <1>6, <2>1, <2>2, <2>3
  <1>8. CASE SendTerm \/ SendKill
    <2>1. /\ ContractEnding = "open" /\ ContractEnding' = "open" /\ exc' = exc
          /\ UNCHANGED <<worker, runner>>
          /\ group' = group \/ (group = "alive" /\ group' = "dead")
      BY <1>8 DEF SendTerm, SendKill, Cleanup, Signal, ContractEnding
    <2>2. ContractProc' = ContractProc \/ (ContractProc = "alive" /\ ContractProc' = "dead")
      BY <1>0, <2>1 DEF ContractProc, Remains
    <2> QED
      BY <2>1, <2>2 DEF Contract!Next, Contract!Remote, Contract!ProcStep, Contract!vars
  <1>9. CASE PullLogs \/ RecordFails
    <2>1. /\ pc = "logs" /\ pc' = "done" /\ UNCHANGED <<exc, worker, runner, group>>
          /\ outcome'.ending \in {EndingOf("timeout", confirmed), "escaped"}
      BY <1>9 DEF PullLogs, RecordFails, Cleanup, Finish
    <2>2. outcome'.ending = "settled" => confirmed
      BY <2>1 DEF EndingOf
    <2> QED
      BY <1>0, <2>1, <2>2, ContractEnds DEF Position, Handling, Remains
  <1>10. CASE Cancel
    <2>1. UNCHANGED <<worker, runner, group>>
      BY <1>10 DEF Cancel, remoteVars
    <2>2. CASE pc \in {"prepare", "watch", "joined"} /\ pc' = "kill" /\ exc' = "cancel"
      BY <1>0, <2>1, <2>2, ContractStutter DEF Handling
    <2>3. CASE CancelCleanup
      BY <1>0, <2>1, <2>3, ContractEnds DEF CancelCleanup, Finish, CleanupSteps
    <2>4. CASE /\ pc \in {"prepare", "collect"} /\ exc' = exc
               /\ \E p \in BOOLEAN : Finish("CANCELLED", "settled", p)
      <3>1. group # "none" \/ worker.state = "unstarted"
        BY <1>0, <2>4 DEF Position, Remains
      <3> QED
        BY <1>0, <2>1, <2>4, <3>1, ContractEnds DEF Finish, Handling
    <2> QED
      BY <1>10, <2>2, <2>3, <2>4
      DEF Cancel, CancelPrepare, CancelRunning, CancelCollect, JobSucceeded
  <1>11. CASE CancelAbsorbed \/ UNCHANGED vars
    <2>1. UNCHANGED <<supVars, worker, runner, group>>
      BY <1>11 DEF CancelAbsorbed, vars, remoteVars
    <2>2. ContractEnding' = ContractEnding /\ exc' = exc
      BY <2>1 DEF supVars, ContractEnding
    <2> QED
      BY <2>1, <2>2, ContractProcKept DEF Contract!vars
  <1> QED
    BY <1>1, <1>2, <1>3, <1>4, <1>5, <1>7, <1>8, <1>9, <1>10, <1>11 DEF Next, CleanupStep

\* An attempt keeps the contract that Dispatch builds its workers on: its
\* process starts once, and the slot is handed back as settled only when the
\* process is gone or was never asked for and the lease was not seen to be lost.
THEOREM ContractTheorem == Spec => ImplementsContract
  <1>1. Init => Contract!Init
    BY DEF Init, Contract!Init, ContractProc, ContractEnding
  <1> QED
    BY <1>1, ContractStep, AttemptInvariant, PTL
    DEF Spec, ImplementsContract, Contract!Spec

=============================================================================
