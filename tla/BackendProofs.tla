--------------------------- MODULE BackendProofs ---------------------------
(***************************************************************************)
(* Proofs about Backend, for any hosts and jobs and any number of setups,  *)
(* batches, cancellations and teardowns: work is protected until it is     *)
(* over, a failed setup or teardown leaves nothing behind, and no task     *)
(* escapes a cancellation that it was meant to get.                        *)
(***************************************************************************)
EXTENDS Backend, FiniteSetTheorems, TLAPS

SetupSteps == {"install", "start-ray", "start-actor", "check", "roll-back", "unlock",
               "stop-ray"}
SubmitSteps == {"submit", "record", "recheck"}
DrainSteps == {"poll", "ask-leases", "ask-quarantined"}
\* An actor that could not be killed is left behind here, until ray.shutdown.
DisposalSteps == {"unlock", "stop-ray", "purge", "stop-beats", "release", "shut-down"}
ClosingSteps == {"drained", "purge", "stop-beats", "release", "shut-down"}

Draining == pc \in DrainSteps \/ (pc = "cancel" /\ call.then = "poll")

\* TypeOK, one variable at a time.
Types ==
    /\ pc \in Steps /\ call \in Calls /\ back \in Backends
    /\ setupDone \in BOOLEAN /\ callback \in BOOLEAN
    /\ outstanding \subseteq Jobs /\ requested \subseteq Jobs /\ cancelled \subseteq Jobs
    /\ missed \subseteq Jobs /\ returned \subseteq Jobs
    /\ todo \in [Threads -> SUBSET Jobs] /\ sending \in [Threads -> SUBSET Jobs]
    /\ lock \in [Hosts -> {"free", "ours", "stale", "other"}]
    /\ beat \in [Hosts -> {"off", "on", "reporting", "failed"}]
    /\ task \in [Jobs -> {"new", "queued", "leased", "done"}]
    /\ leases \subseteq Jobs \X Hosts /\ orphans \subseteq Jobs \X Hosts
    /\ proc \subseteq Jobs \X Hosts

OneAtATime == \A th \in Threads : Cardinality(sending[th]) <= 1

\* Where the main thread is, and what the flags say then.
Phases ==
    /\ todo["main"] # {} \/ sending["main"] # {} =>
         pc = "cancel" \/ (Checking /\ back.lossSeen)
    /\ pc \in SetupSteps => ~setupDone
    /\ pc \in SubmitSteps => setupDone
    /\ Draining \/ pc \in ClosingSteps => back.draining
    /\ setupDone /\ ~back.draining => back.actor /\ back.ray = "ours"
    /\ pc \in {"start-actor", "check"} => back.ray = "ours"
    /\ pc = "check" => back.actor
    /\ back.sessions # {} /\ pc \notin SetupSteps => setupDone

\* Everything the backend holds hangs on its sessions.
Holdings ==
    /\ \A h \in Hosts : lock[h] = "ours" => h \in back.sessions
    /\ \A h \in Hosts : beat[h] # "off" => h \in back.sessions /\ pc # "release"
    /\ \A h \in back.sessions : beat[h] # "off" \/ pc = "release"
    /\ pc \in {"stop-ray", "shut-down"} => back.sessions = {}
    /\ pc \in {"install", "start-ray", "start-actor", "check"} => back.sessions # {}
    /\ back.actor => /\ back.sessions # {}
                     /\ pc \notin {"unlock", "purge", "stop-beats", "release"}
    /\ back.actor => back.ray = "ours"
    /\ back.actorLeft => \/ back.ray = "left"
                         \/ back.ray = "ours" /\ pc \in DisposalSteps
    /\ back.ray = "ours" => back.sessions # {} \/ pc \in {"stop-ray", "shut-down"}
    /\ back.runtimes \subseteq back.sessions \/ pc \in {"stop-ray", "shut-down"}

Quiet == proc = {} /\ \A j \in Jobs : ~Unfinished(j)

\* Tasks, their remote processes, and what the drain has learnt about them.
Work ==
    /\ WorkIsProtected
    /\ proc \subseteq leases \cup orphans
    /\ pc \in SetupSteps \cup ClosingSteps => Quiet
    /\ Draining => \A j \in Jobs : Unfinished(j) => j \in call.pending
    /\ pc = "ask-quarantined" /\ call.pending = {} /\ ~call.sawLeases => leases = {}

\* Tasks are known to the backend, but for the one that is being submitted.
Known ==
    /\ \A j \in Jobs : Unfinished(j) =>
         j \in back.refs \/ (pc = "record" /\ j \in call.left)
    /\ pc = "submit" => \A j \in call.left : task[j] = "new"
    /\ pc \in {"record", "recheck"} =>
         \A i, j \in call.left : task[i] # "new" /\ task[j] # "new" => i = j

\* Tasks that were sent a cancellation, or to which one is on its way: what the
\* main thread has still to do counts unless it may give up.
Reached == cancelled \cup missed \cup sending["main"] \cup sending["loss"] \cup
           (IF pc = "cancel" /\ call.then = "poll" THEN {} ELSE todo["main"])

Cancels ==
    /\ MarksAreTrue
    /\ back.lossSeen =>
         \A j \in back.refs : Unfinished(j) =>
            j \in Reached \cup todo["loss"] \/ (pc = "recheck" /\ j \in call.left)
    /\ \A j \in Jobs : Unfinished(j) =>
         \/ j \in returned \cup Reached
         \/ pc \in SubmitSteps /\ j \in call.left \cup call.handles

BackInv == Types /\ OneAtATime /\ Phases /\ Holdings /\ Work /\ Known /\ Cancels

\* What submit does with a job it is through with: it was the last, or it was not.
LEMMA Rechecked ==
  ASSUME Types, NEW j \in Jobs, RecheckTask(j)
  PROVE  /\ call' \in Calls
         /\ \/ /\ call.left = {j} /\ pc' = "idle"
               /\ returned' = returned \cup call.handles \cup {j}
               /\ call'.left = {} /\ call'.handles = {}
            \/ /\ call.left # {j} /\ pc' = "submit" /\ returned' = returned
               /\ call'.left = call.left \ {j} /\ call'.handles = call.handles \cup {j}
         /\ call'.then = call.then /\ call'.pending = call.pending
         /\ call'.sawLeases = call.sawLeases
  <1>1. call \in Calls
    BY DEF Types
  <1>2. CASE call.left = {j}
    <2>1. pc' = "idle" /\ returned' = returned \cup call.handles \cup {j}
      BY <1>2 DEF RecheckTask, Returned
    <2>2. call' = [call EXCEPT !.left = {}, !.handles = {}]
      BY <1>2 DEF RecheckTask, Returned
    <2> QED
      BY <1>1, <1>2, <2>1, <2>2 DEF Calls
  <1>3. CASE call.left # {j}
    <2>1. pc' = "submit" /\ returned' = returned
      BY <1>3 DEF RecheckTask, Returned
    <2>2. call' = [call EXCEPT !.left = @ \ {j}, !.handles = @ \cup {j}]
      BY <1>3 DEF RecheckTask, Returned
    <2> QED
      BY <1>1, <1>3, <2>1, <2>2 DEF Calls
  <1> QED
    BY <1>2, <1>3

\* Other code never touches a runtime that the backend calls its own.
LEMMA RayMoves ==
  ASSUME back \in Backends, ForeignRay
  PROVE  /\ back' \in Backends
         /\ back'.sessions = back.sessions /\ back'.actor = back.actor
         /\ back'.runtimes = back.runtimes /\ back'.refs = back.refs
         /\ back'.lossSeen = back.lossSeen /\ back'.draining = back.draining
         /\ back.ray # "ours" /\ back'.ray # "ours"
         /\ back'.actorLeft => back.actorLeft /\ back.ray = "none"
  <1>1. CASE back.ray = "none" /\ back' = [back EXCEPT !.ray = "foreign"]
    BY <1>1 DEF Backends
  <1>2. CASE /\ back.ray \in {"foreign", "left"}
             /\ back' = [back EXCEPT !.ray = "none", !.actorLeft = FALSE]
    BY <1>2 DEF Backends
  <1> QED
    BY <1>1, <1>2 DEF ForeignRay

-----------------------------------------------------------------------------
(* The invariant is inductive *)

\* The types.  Most actions change a field or two of a record.
LEMMA TypesStep ==
  ASSUME BackInv, [Next]_vars
  PROVE  Types'
  <1>0. Types
    BY DEF BackInv
  <1> USE <1>0 DEF Goto, disp, canc, site, jobs, Types, Threads, Calls,
         Backends, Steps
  <1>1. ASSUME ProvisionFails PROVE Types'
    <2>1. PICK T \in SUBSET Hosts :
             lock' = [h \in Hosts |-> IF h \in T THEN "stale" ELSE lock[h]]
      BY <1>1 DEF ProvisionFails
    <2>2. lock' \in [Hosts -> {"free", "ours", "stale", "other"}]
      BY <2>1
    <2>3. back' \in Backends
      BY <1>1 DEF ProvisionFails
    <2> QED
      BY <1>1, <2>2, <2>3 DEF ProvisionFails
  <1>2. ASSUME Provision PROVE Types'
    <2>1. PICK H \in SUBSET Hosts, T \in SUBSET Hosts :
             /\ lock' = [h \in Hosts |-> IF h \in H THEN "ours"
                                         ELSE IF h \in T THEN "stale" ELSE lock[h]]
             /\ beat' = [h \in Hosts |-> IF h \in H THEN "on" ELSE beat[h]]
             /\ back' = [back EXCEPT !.draining = FALSE, !.lossSeen = FALSE,
                                     !.sessions = H]
      BY <1>2 DEF Provision
    <2>2. lock' \in [Hosts -> {"free", "ours", "stale", "other"}]
      BY <2>1
    <2>3. beat' \in [Hosts -> {"off", "on", "reporting", "failed"}]
      BY <2>1
    <2>4. back' \in Backends
      BY <2>1
    <2> QED
      BY <1>2, <2>2, <2>3, <2>4 DEF Provision, Steps
  <1>3. ASSUME Install PROVE Types'
    BY <1>3 DEF Install, SetupStep
  <1>4. ASSUME StartRay PROVE Types'
    BY <1>4 DEF StartRay, SetupStep
  <1>5. ASSUME StartActor PROVE Types'
    BY <1>5 DEF StartActor, SetupStep
  <1>6. ASSUME SetupReturns PROVE Types'
    BY <1>6 DEF SetupReturns
  <1>7. ASSUME SetupRefused PROVE Types'
    BY <1>7 DEF SetupRefused
  <1>8. ASSUME RollBack PROVE Types'
    BY <1>8 DEF RollBack
  <1>9. ASSUME UnlockAfterRollback PROVE Types'
    BY <1>9 DEF UnlockAfterRollback, ReleaseLocks
  <1>10. ASSUME StopRayAfterRollback PROVE Types'
    <2>1. back' \in Backends
      <3>1. PICK error \in BOOLEAN : back' = AfterShutdown(error)
        BY <1>10 DEF StopRayAfterRollback
      <3>2. CASE ~error
        BY <3>1, <3>2 DEF AfterShutdown
      <3>3. CASE error
        <4>1. back' = [back EXCEPT !.runtimes = {},
                                   !.ray = IF @ = "ours" THEN "left" ELSE @]
          BY <3>1, <3>3 DEF AfterShutdown
        <4> QED
          BY <4>1
      <3> QED
        BY <3>2, <3>3
    <2> QED
      BY <1>10, <2>1 DEF StopRayAfterRollback
  <1>11. ASSUME NEW S \in SUBSET {j \in Jobs : task[j] = "new"}, Submit(S)
         PROVE  Types'
    BY <1>11 DEF Submit
  <1>12. ASSUME NEW j \in Jobs, CreateTask(j) PROVE Types'
    BY <1>12 DEF CreateTask
  <1>13. ASSUME NEW j \in Jobs, RecordTask(j) PROVE Types'
    BY <1>13 DEF RecordTask
  <1>14. ASSUME NEW j \in Jobs, RecheckTask(j) PROVE Types'
    <2>1. call' \in Calls /\ pc' \in Steps /\ returned' \subseteq Jobs
      BY <1>14, Rechecked
    <2> QED
      BY <1>14, <2>1 DEF RecheckTask, Returned
  <1>15. ASSUME AbortSubmit PROVE Types'
    BY <1>15 DEF AbortSubmit, CancelAll
  <1>16. ASSUME NEW p \in BOOLEAN, Teardown(p) PROVE Types'
    BY <1>16 DEF Teardown, CancelAll
  <1>17. ASSUME BeginDrain PROVE Types'
    BY <1>17 DEF BeginDrain, CancelAll
  <1>18. ASSUME Poll PROVE Types'
    BY <1>18 DEF Poll
  <1>19. ASSUME AskLeases PROVE Types'
    BY <1>19 DEF AskLeases
  <1>20. ASSUME AskQuarantined PROVE Types'
    BY <1>20 DEF AskQuarantined
  <1>21. ASSUME DrainFails PROVE Types'
    BY <1>21 DEF DrainFails
  <1>22. ASSUME PurgeRefused PROVE Types'
    BY <1>22 DEF PurgeRefused
  <1>23. ASSUME KillActor PROVE Types'
    BY <1>23 DEF KillActor
  <1>24. ASSUME Purge PROVE Types'
    BY <1>24 DEF Purge
  <1>25. ASSUME StopSessions PROVE Types'
    BY <1>25 DEF StopSessions, StopBeats
  <1>26. ASSUME Release PROVE Types'
    <2>1. PICK T \in SUBSET back.sessions :
             /\ lock' = [h \in Hosts |->
                          IF h \notin back.sessions \/ lock[h] # "ours" THEN lock[h]
                          ELSE IF h \in T THEN "stale" ELSE "free"]
             /\ call' = [call EXCEPT !.failed = @ \/ T # {}]
      BY <1>26 DEF Release, ReleaseLocks
    <2>2. lock' \in [Hosts -> {"free", "ours", "stale", "other"}]
      BY <2>1
    <2>3. call' \in Calls
      BY <2>1
    <2>4. back' \in Backends
      BY <1>26 DEF Release
    <2> QED
      BY <1>26, <2>2, <2>3, <2>4 DEF Release, Steps
  <1>27. ASSUME ShutDown PROVE Types'
    <2>1. PICK error \in {FALSE, back.ray = "ours"} :
             /\ call' = [call EXCEPT !.failed = @ \/ error]
             /\ back' = [(IF back.ray = "ours" THEN AfterShutdown(error) ELSE back)
                           EXCEPT !.runtimes = {}, !.refs = {}]
      BY <1>27 DEF ShutDown
    <2>2. error \in BOOLEAN
      OBVIOUS
    <2>3. call' \in Calls
      BY <2>1, <2>2
    <2>4. AfterShutdown(error) \in Backends
      BY <2>2 DEF AfterShutdown
    <2>5. back' \in Backends
      BY <2>1, <2>4
    <2>6. outstanding' \subseteq Jobs /\ setupDone' \in BOOLEAN
      BY <1>27 DEF ShutDown
    <2> QED
      BY <1>27, <2>3, <2>5, <2>6 DEF ShutDown, Steps
  <1>28. ASSUME Cancelling PROVE Types'
    BY <1>28 DEF Cancelling, MarkCancel, SendCancel, CancelRaises, CancelsDone,
           Cancel, CancelAll
  <1>29. ASSUME MainFindsLoss PROVE Types'
    BY <1>29 DEF MainFindsLoss, OnSessionLost
  <1>30. ASSUME AskStatus PROVE Types'
    BY <1>30 DEF AskStatus
  <1>31. ASSUME StatusOver PROVE Types'
    BY <1>31 DEF StatusOver
  <1>32. ASSUME NEW h \in Hosts, BeatRefused(h) PROVE Types'
    BY <1>32 DEF BeatRefused
  <1>33. ASSUME NEW h \in Hosts, BeatReports(h) PROVE Types'
    <2>1. back' \in Backends /\ todo' \in [Threads -> SUBSET Jobs]
      BY <1>33 DEF BeatReports, OnSessionLost
    <2>2. beat' \in [Hosts -> {"off", "on", "reporting", "failed"}]
      BY <1>33 DEF BeatReports
    <2> QED
      BY <1>33, <2>1, <2>2 DEF BeatReports
  <1>34. ASSUME NEW j \in Jobs, TaskRuns(j) PROVE Types'
    BY <1>34 DEF TaskRuns, JobStep, At, Of, Quarantine
  <1>35. ASSUME NEW j \in Jobs, TaskSettles(j) PROVE Types'
    BY <1>35 DEF TaskSettles, JobStep, At, Of, Quarantine
  <1>36. ASSUME NEW j \in Jobs, TaskEvicts(j) PROVE Types'
    <2>1. task' \in [Jobs -> {"new", "queued", "leased", "done"}]
      BY <1>36 DEF TaskEvicts
    <2>2. leases' \subseteq leases /\ orphans' \subseteq orphans \cup leases
      BY <1>36 DEF TaskEvicts, Quarantine, At
    <2> QED
      BY <1>36, <2>1, <2>2 DEF TaskEvicts, JobStep
  <1>37. ASSUME NEW j \in Jobs, TaskEnds(j) PROVE Types'
    BY <1>37 DEF TaskEnds, JobStep, At, Of, Quarantine
  <1>38. ASSUME ForeignRay
                  \/ \E h \in Hosts : SweepExpires(h) \/ SweepReconciles(h) \/ LockMoves(h)
         PROVE  Types'
    <2>1. CASE ForeignRay
      BY <2>1, RayMoves DEF ForeignRay
    <2>2. ASSUME NEW h \in Hosts,
                 SweepExpires(h) \/ SweepReconciles(h) \/ LockMoves(h)
          PROVE  Types'
      BY <2>2 DEF SweepExpires, JobStep, At, Quarantine, SweepReconciles,
             LockMoves
    <2> QED
      BY <1>38, <2>1, <2>2
  <1>39. ASSUME UNCHANGED vars PROVE Types'
    BY <1>39 DEF vars
  <1> QED
    BY <1>1, <1>2, <1>3, <1>4, <1>5, <1>6, <1>7, <1>8, <1>9, <1>10, <1>11,
           <1>12, <1>13, <1>14, <1>15, <1>16, <1>17, <1>18, <1>19, <1>20,
           <1>21, <1>22, <1>23, <1>24, <1>25, <1>26, <1>27, <1>28, <1>29,
           <1>30, <1>31, <1>32, <1>33, <1>34, <1>35, <1>36, <1>37, <1>38, <1>39
           DEF Next, Setup, SubmitBatch, TearDown

\* Phases: the flags are set and cleared where setup and teardown pass by.
LEMMA PhasesStep ==
  ASSUME BackInv, [Next]_vars
  PROVE  Phases'
  <1>0. Types /\ Phases /\ Holdings
    BY DEF BackInv
  <1> USE <1>0 DEF Goto, disp, canc, site, jobs, Types, Threads, Calls,
         Backends, Phases, Holdings, Checking, Lost, NotLost, SetupSteps, SubmitSteps,
         DrainSteps, ClosingSteps, Draining
  <1>1. ASSUME ProvisionFails PROVE Phases'
    BY <1>1 DEF ProvisionFails
  <1>2. ASSUME Provision PROVE Phases'
    BY <1>2 DEF Provision
  <1>3. ASSUME Install PROVE Phases'
    BY <1>3 DEF Install, SetupStep
  <1>4. ASSUME StartRay PROVE Phases'
    BY <1>4 DEF StartRay, SetupStep
  <1>5. ASSUME StartActor PROVE Phases'
    BY <1>5 DEF StartActor, SetupStep
  <1>6. ASSUME SetupReturns PROVE Phases'
    BY <1>6 DEF SetupReturns
  <1>7. ASSUME SetupRefused PROVE Phases'
    BY <1>7 DEF SetupRefused
  <1>8. ASSUME RollBack PROVE Phases'
    BY <1>8 DEF RollBack
  <1>9. ASSUME UnlockAfterRollback PROVE Phases'
    BY <1>9 DEF UnlockAfterRollback, ReleaseLocks
  <1>10. ASSUME StopRayAfterRollback PROVE Phases'
    BY <1>10 DEF StopRayAfterRollback, AfterShutdown
  <1>11. ASSUME SubmitBatch PROVE Phases'
    BY <1>11 DEF SubmitBatch, Submit, CreateTask, RecordTask, RecheckTask,
           Returned, AbortSubmit, CancelAll
  <1>12. ASSUME NEW p \in BOOLEAN, Teardown(p) PROVE Phases'
    BY <1>12 DEF Teardown, CancelAll
  <1>13. ASSUME BeginDrain PROVE Phases'
    BY <1>13 DEF BeginDrain, CancelAll
  <1>14. ASSUME Poll PROVE Phases'
    BY <1>14 DEF Poll
  <1>15. ASSUME AskLeases PROVE Phases'
    BY <1>15 DEF AskLeases
  <1>16. ASSUME AskQuarantined PROVE Phases'
    BY <1>16 DEF AskQuarantined
  <1>17. ASSUME DrainFails PROVE Phases'
    BY <1>17 DEF DrainFails
  <1>18. ASSUME PurgeRefused PROVE Phases'
    BY <1>18 DEF PurgeRefused
  <1>19. ASSUME KillActor PROVE Phases'
    BY <1>19 DEF KillActor
  <1>20. ASSUME Purge PROVE Phases'
    BY <1>20 DEF Purge
  <1>21. ASSUME StopSessions PROVE Phases'
    BY <1>21 DEF StopSessions, StopBeats
  <1>22. ASSUME Release PROVE Phases'
    BY <1>22 DEF Release, ReleaseLocks
  <1>23. ASSUME ShutDown PROVE Phases'
    BY <1>23 DEF ShutDown, AfterShutdown
  <1>24. ASSUME Cancelling PROVE Phases'
    BY <1>24 DEF Cancelling, MarkCancel, SendCancel, CancelRaises, CancelsDone,
           Cancel, CancelAll
  <1>25. ASSUME MainFindsLoss \/ AskStatus \/ StatusOver \/ \E h \in Hosts :
                  BeatRefused(h) \/ BeatReports(h)
         PROVE  Phases'
    BY <1>25 DEF MainFindsLoss, OnSessionLost, AskStatus, StatusOver,
           BeatRefused, BeatReports
  <1>26. ASSUME \E j \in Jobs :
                  TaskRuns(j) \/ TaskSettles(j) \/ TaskEvicts(j) \/ TaskEnds(j)
         PROVE  Phases'
    BY <1>26 DEF TaskRuns, JobStep, At, Of, Quarantine, TaskSettles,
           TaskEvicts, TaskEnds
  <1>27. ASSUME ForeignRay
                  \/ \E h \in Hosts : SweepExpires(h) \/ SweepReconciles(h) \/ LockMoves(h)
         PROVE  Phases'
    <2>1. CASE ForeignRay
      BY <2>1, RayMoves DEF ForeignRay
    <2>2. ASSUME NEW h \in Hosts,
                 SweepExpires(h) \/ SweepReconciles(h) \/ LockMoves(h)
          PROVE  Phases'
      BY <2>2 DEF SweepExpires, JobStep, At, Quarantine, SweepReconciles,
             LockMoves
    <2> QED
      BY <1>27, <2>1, <2>2
  <1>28. ASSUME UNCHANGED vars PROVE Phases'
    BY <1>28 DEF vars
  <1> QED
    BY <1>1, <1>2, <1>3, <1>4, <1>5, <1>6, <1>7, <1>8, <1>9, <1>10, <1>11,
           <1>12, <1>13, <1>14, <1>15, <1>16, <1>17, <1>18, <1>19, <1>20,
           <1>21, <1>22, <1>23, <1>24, <1>25, <1>26, <1>27, <1>28 DEF Next,
           Setup, TearDown

\* Holdings: what setup takes it takes with the sessions, and what is given back
\* is given back before them.
LEMMA HoldingsStep ==
  ASSUME BackInv, [Next]_vars
  PROVE  Holdings'
  <1>0. Types /\ Phases /\ Holdings
    BY DEF BackInv
  <1> USE <1>0 DEF Goto, disp, canc, site, jobs, Types, Threads, Calls,
         Backends, Phases, Holdings, SetupSteps, SubmitSteps, DrainSteps,
         DisposalSteps, ClosingSteps, Draining
  <1>1. ASSUME ProvisionFails PROVE Holdings'
    BY <1>1 DEF ProvisionFails
  <1>2. ASSUME Provision PROVE Holdings'
    BY <1>2 DEF Provision
  <1>3. ASSUME Install PROVE Holdings'
    BY <1>3 DEF Install, SetupStep
  <1>4. ASSUME StartRay PROVE Holdings'
    BY <1>4 DEF StartRay, SetupStep
  <1>5. ASSUME StartActor PROVE Holdings'
    BY <1>5 DEF StartActor, SetupStep
  <1>6. ASSUME SetupReturns PROVE Holdings'
    BY <1>6 DEF SetupReturns
  <1>7. ASSUME SetupRefused PROVE Holdings'
    BY <1>7 DEF SetupRefused
  <1>8. ASSUME RollBack PROVE Holdings'
    BY <1>8 DEF RollBack
  <1>9. ASSUME UnlockAfterRollback PROVE Holdings'
    BY <1>9 DEF UnlockAfterRollback, ReleaseLocks
  <1>10. ASSUME StopRayAfterRollback PROVE Holdings'
    BY <1>10 DEF StopRayAfterRollback, AfterShutdown
  <1>11. ASSUME SubmitBatch PROVE Holdings'
    <2>1. ASSUME NEW S \in SUBSET Jobs, Submit(S) PROVE Holdings'
      BY <2>1 DEF Submit
    <2>2. ASSUME NEW j \in Jobs, CreateTask(j) \/ RecordTask(j) PROVE Holdings'
      BY <2>2 DEF CreateTask, RecordTask
    <2>3. ASSUME NEW j \in Jobs, RecheckTask(j) PROVE Holdings'
      BY <2>3 DEF RecheckTask, Returned
    <2>4. CASE AbortSubmit
      BY <2>4 DEF AbortSubmit, CancelAll
    <2> QED
      BY <1>11, <2>1, <2>2, <2>3, <2>4 DEF SubmitBatch
  <1>12. ASSUME NEW p \in BOOLEAN, Teardown(p) PROVE Holdings'
    BY <1>12 DEF Teardown, CancelAll
  <1>13. ASSUME BeginDrain PROVE Holdings'
    BY <1>13 DEF BeginDrain, CancelAll
  <1>14. ASSUME Poll PROVE Holdings'
    BY <1>14 DEF Poll
  <1>15. ASSUME AskLeases PROVE Holdings'
    BY <1>15 DEF AskLeases
  <1>16. ASSUME AskQuarantined PROVE Holdings'
    BY <1>16 DEF AskQuarantined
  <1>17. ASSUME DrainFails PROVE Holdings'
    BY <1>17 DEF DrainFails
  <1>18. ASSUME PurgeRefused PROVE Holdings'
    BY <1>18 DEF PurgeRefused
  <1>19. ASSUME KillActor PROVE Holdings'
    BY <1>19 DEF KillActor
  <1>20. ASSUME Purge PROVE Holdings'
    BY <1>20 DEF Purge
  <1>21. ASSUME StopSessions PROVE Holdings'
    BY <1>21 DEF StopSessions, StopBeats
  <1>22. ASSUME Release PROVE Holdings'
    BY <1>22 DEF Release, ReleaseLocks
  <1>23. ASSUME ShutDown PROVE Holdings'
    BY <1>23 DEF ShutDown, AfterShutdown
  <1>24. ASSUME Cancelling PROVE Holdings'
    BY <1>24 DEF Cancelling, MarkCancel, SendCancel, CancelRaises, CancelsDone,
           Cancel, CancelAll
  <1>25. ASSUME MainFindsLoss \/ AskStatus \/ StatusOver \/ \E h \in Hosts :
                  BeatRefused(h) \/ BeatReports(h)
         PROVE  Holdings'
    BY <1>25 DEF MainFindsLoss, OnSessionLost, AskStatus, StatusOver,
           BeatRefused, BeatReports
  <1>26. ASSUME \E j \in Jobs :
                  TaskRuns(j) \/ TaskSettles(j) \/ TaskEvicts(j) \/ TaskEnds(j)
         PROVE  Holdings'
    BY <1>26 DEF TaskRuns, JobStep, At, Of, Quarantine, TaskSettles,
           TaskEvicts, TaskEnds
  <1>27. ASSUME ForeignRay
                  \/ \E h \in Hosts : SweepExpires(h) \/ SweepReconciles(h) \/ LockMoves(h)
         PROVE  Holdings'
    <2>1. CASE ForeignRay
      BY <2>1, RayMoves DEF ForeignRay
    <2>2. ASSUME NEW h \in Hosts,
                 SweepExpires(h) \/ SweepReconciles(h) \/ LockMoves(h)
          PROVE  Holdings'
      BY <2>2 DEF SweepExpires, JobStep, At, Quarantine, SweepReconciles,
             LockMoves
    <2> QED
      BY <1>27, <2>1, <2>2
  <1>28. ASSUME UNCHANGED vars PROVE Holdings'
    BY <1>28 DEF vars
  <1> QED
    BY <1>1, <1>2, <1>3, <1>4, <1>5, <1>6, <1>7, <1>8, <1>9, <1>10, <1>11,
           <1>12, <1>13, <1>14, <1>15, <1>16, <1>17, <1>18, <1>19, <1>20,
           <1>21, <1>22, <1>23, <1>24, <1>25, <1>26, <1>27, <1>28 DEF Next,
           Setup, TearDown

\* Work: the drain sees every task done, every lease ended and every orphan
\* reconciled, in this order, before anything is taken down.
LEMMA WorkStep ==
  ASSUME BackInv, [Next]_vars
  PROVE  Work'
  <1>0. Types /\ Phases /\ Holdings /\ Work /\ Known
    BY DEF BackInv
  <1> USE <1>0 DEF Goto, disp, canc, site, jobs, Types, Threads, Calls,
         Backends, Phases, Holdings, Work, Known, Quiet, Unfinished,
         WorkIsProtected, SetupSteps, SubmitSteps, DrainSteps, ClosingSteps,
         Draining
  <1>1. ASSUME Setup PROVE Work'
    BY <1>1 DEF Setup, ProvisionFails, Provision, Install, SetupStep, StartRay,
           StartActor, SetupReturns, SetupRefused, RollBack,
           UnlockAfterRollback, ReleaseLocks, StopRayAfterRollback,
           AfterShutdown
  <1>2. ASSUME NEW S \in SUBSET {j \in Jobs : task[j] = "new"}, Submit(S)
        PROVE  Work'
    BY <1>2 DEF Submit
  <1>3. ASSUME NEW j \in Jobs, CreateTask(j) PROVE Work'
    BY <1>3 DEF CreateTask
  <1>4. ASSUME NEW j \in Jobs, RecordTask(j) PROVE Work'
    BY <1>4 DEF RecordTask
  <1>5. ASSUME NEW j \in Jobs, RecheckTask(j) PROVE Work'
    BY <1>5 DEF RecheckTask, Returned
  <1>6. ASSUME AbortSubmit PROVE Work'
    BY <1>6 DEF AbortSubmit, CancelAll
  <1>7. ASSUME NEW p \in BOOLEAN, Teardown(p) PROVE Work'
    BY <1>7 DEF Teardown, CancelAll
  <1>8. ASSUME BeginDrain PROVE Work'
    BY <1>8 DEF BeginDrain, CancelAll
  <1>9. ASSUME Poll PROVE Work'
    BY <1>9 DEF Poll
  <1>10. ASSUME AskLeases PROVE Work'
    BY <1>10 DEF AskLeases
  <1>11. ASSUME AskQuarantined PROVE Work'
    BY <1>11 DEF AskQuarantined
  <1>12. ASSUME DrainFails PROVE Work'
    BY <1>12 DEF DrainFails
  <1>13. ASSUME PurgeRefused PROVE Work'
    BY <1>13 DEF PurgeRefused
  <1>14. ASSUME KillActor PROVE Work'
    BY <1>14 DEF KillActor
  <1>15. ASSUME Purge PROVE Work'
    BY <1>15 DEF Purge
  <1>16. ASSUME StopSessions PROVE Work'
    BY <1>16 DEF StopSessions, StopBeats
  <1>17. ASSUME Release PROVE Work'
    BY <1>17 DEF Release, ReleaseLocks
  <1>18. ASSUME ShutDown PROVE Work'
    BY <1>18 DEF ShutDown, AfterShutdown
  <1>19. ASSUME Cancelling PROVE Work'
    BY <1>19 DEF Cancelling, MarkCancel, SendCancel, CancelRaises, CancelsDone,
           Cancel, CancelAll
  <1>20. ASSUME MainFindsLoss \/ AskStatus \/ StatusOver \/ \E h \in Hosts :
                  BeatRefused(h) \/ BeatReports(h)
         PROVE  Work'
    BY <1>20 DEF MainFindsLoss, OnSessionLost, AskStatus, StatusOver,
           BeatRefused, BeatReports
  <1>21. ASSUME NEW j \in Jobs, TaskRuns(j) PROVE Work'
    BY <1>21 DEF TaskRuns, JobStep, At, Of, Quarantine
  <1>22. ASSUME NEW j \in Jobs, TaskSettles(j) PROVE Work'
    BY <1>22 DEF TaskSettles, JobStep, At, Of, Quarantine
  <1>23. ASSUME NEW j \in Jobs, TaskEvicts(j) PROVE Work'
    <2>1. task' \in [Jobs -> {"new", "queued", "leased", "done"}]
          /\ \A i \in Jobs : Unfinished(i)' => Unfinished(i)
      BY <1>23 DEF TaskEvicts
    <2>2. leases' \subseteq leases /\ leases \cup orphans \subseteq leases'
           \cup orphans'
      <3>1. PICK h \in Hosts : Quarantine(h)
        BY <1>23 DEF TaskEvicts
      <3> QED
        BY <3>1 DEF Quarantine
    <2> QED
      BY <1>23, <2>1, <2>2 DEF TaskEvicts, JobStep
  <1>24. ASSUME NEW j \in Jobs, TaskEnds(j) PROVE Work'
    BY <1>24 DEF TaskEnds, JobStep, At, Of, Quarantine
  <1>25. ASSUME ForeignRay
                  \/ \E h \in Hosts : SweepExpires(h) \/ SweepReconciles(h) \/ LockMoves(h)
         PROVE  Work'
    <2>1. CASE ForeignRay
      BY <2>1, RayMoves DEF ForeignRay
    <2>2. ASSUME NEW h \in Hosts,
                 SweepExpires(h) \/ SweepReconciles(h) \/ LockMoves(h)
          PROVE  Work'
      BY <2>2 DEF SweepExpires, JobStep, At, Quarantine, SweepReconciles,
             LockMoves
    <2> QED
      BY <1>25, <2>1, <2>2
  <1>26. ASSUME UNCHANGED vars PROVE Work'
    BY <1>26 DEF vars
  <1> QED
    BY <1>1, <1>2, <1>3, <1>4, <1>5, <1>6, <1>7, <1>8, <1>9, <1>10, <1>11,
           <1>12, <1>13, <1>14, <1>15, <1>16, <1>17, <1>18, <1>19, <1>20,
           <1>21, <1>22, <1>23, <1>24, <1>25, <1>26 DEF Next, SubmitBatch,
           TearDown

\* Known: submit has one task in its hands at a time.
LEMMA KnownStep ==
  ASSUME BackInv, [Next]_vars
  PROVE  Known'
  <1>0. Types /\ Phases /\ Work /\ Known
    BY DEF BackInv
  <1> USE <1>0 DEF Goto, disp, canc, site, jobs, Types, Threads, Calls,
         Backends, Phases, Work, Known, Quiet, Unfinished, SetupSteps,
         SubmitSteps, DrainSteps, ClosingSteps, Draining
  <1>1. ASSUME ProvisionFails PROVE Known'
    BY <1>1 DEF ProvisionFails
  <1>2. ASSUME Provision PROVE Known'
    BY <1>2 DEF Provision
  <1>3. ASSUME Install PROVE Known'
    BY <1>3 DEF Install, SetupStep
  <1>4. ASSUME StartRay PROVE Known'
    BY <1>4 DEF StartRay, SetupStep
  <1>5. ASSUME StartActor PROVE Known'
    BY <1>5 DEF StartActor, SetupStep
  <1>6. ASSUME SetupReturns PROVE Known'
    BY <1>6 DEF SetupReturns
  <1>7. ASSUME SetupRefused PROVE Known'
    BY <1>7 DEF SetupRefused
  <1>8. ASSUME RollBack PROVE Known'
    BY <1>8 DEF RollBack
  <1>9. ASSUME UnlockAfterRollback PROVE Known'
    BY <1>9 DEF UnlockAfterRollback, ReleaseLocks
  <1>10. ASSUME StopRayAfterRollback PROVE Known'
    BY <1>10 DEF StopRayAfterRollback, AfterShutdown
  <1>11. ASSUME NEW S \in SUBSET {j \in Jobs : task[j] = "new"}, Submit(S)
         PROVE  Known'
    BY <1>11 DEF Submit
  <1>12. ASSUME NEW j \in Jobs, CreateTask(j) PROVE Known'
    BY <1>12 DEF CreateTask
  <1>13. ASSUME NEW j \in Jobs, RecordTask(j) PROVE Known'
    BY <1>13 DEF RecordTask
  <1>14. ASSUME NEW j \in Jobs, RecheckTask(j) PROVE Known'
    <2>1. CASE call.left = {j}
      BY <2>1, <1>14, Rechecked DEF RecheckTask
    <2>2. CASE call.left # {j}
      BY <2>2, <1>14, Rechecked DEF RecheckTask
    <2> QED
      BY <2>1, <2>2
  <1>15. ASSUME AbortSubmit PROVE Known'
    BY <1>15 DEF AbortSubmit, CancelAll
  <1>16. ASSUME TearDown PROVE Known'
    BY <1>16 DEF TearDown, Teardown, CancelAll, BeginDrain, Poll, AskLeases,
           AskQuarantined, DrainFails, PurgeRefused, KillActor, Purge,
           StopSessions, StopBeats, Release, ReleaseLocks, ShutDown,
           AfterShutdown
  <1>17. ASSUME Cancelling PROVE Known'
    BY <1>17 DEF Cancelling, MarkCancel, SendCancel, CancelRaises, CancelsDone,
           Cancel, CancelAll
  <1>18. ASSUME MainFindsLoss \/ AskStatus \/ StatusOver \/ \E h \in Hosts :
                  BeatRefused(h) \/ BeatReports(h)
         PROVE  Known'
    BY <1>18 DEF MainFindsLoss, OnSessionLost, AskStatus, StatusOver,
           BeatRefused, BeatReports
  <1>19. ASSUME \E j \in Jobs :
                  TaskRuns(j) \/ TaskSettles(j) \/ TaskEvicts(j) \/ TaskEnds(j)
         PROVE  Known'
    BY <1>19 DEF TaskRuns, JobStep, At, Of, Quarantine, TaskSettles,
           TaskEvicts, TaskEnds
  <1>20. ASSUME ForeignRay
                  \/ \E h \in Hosts : SweepExpires(h) \/ SweepReconciles(h) \/ LockMoves(h)
         PROVE  Known'
    <2>1. CASE ForeignRay
      BY <2>1, RayMoves DEF ForeignRay
    <2>2. ASSUME NEW h \in Hosts,
                 SweepExpires(h) \/ SweepReconciles(h) \/ LockMoves(h)
          PROVE  Known'
      BY <2>2 DEF SweepExpires, JobStep, At, Quarantine, SweepReconciles,
             LockMoves
    <2> QED
      BY <1>20, <2>1, <2>2
  <1>21. ASSUME UNCHANGED vars PROVE Known'
    BY <1>21 DEF vars
  <1> QED
    BY <1>1, <1>2, <1>3, <1>4, <1>5, <1>6, <1>7, <1>8, <1>9, <1>10, <1>11,
           <1>12, <1>13, <1>14, <1>15, <1>16, <1>17, <1>18, <1>19, <1>20, <1>21
           DEF Next, Setup, SubmitBatch

\* Cancels: a task is snapshotted by _on_session_lost or seen by the recheck.
LEMMA CancelsStep ==
  ASSUME BackInv, [Next]_vars
  PROVE  Cancels'
  <1>0. Types /\ Phases /\ Work /\ Known /\ Cancels
    BY DEF BackInv
  <1> USE <1>0 DEF Goto, disp, canc, site, jobs, Types, Threads, Calls,
         Backends, Phases, Work, Known, Quiet, Unfinished, Cancels, Reached,
         MarksAreTrue, Lost, NotLost, Checking, SetupSteps, SubmitSteps, DrainSteps,
         ClosingSteps, Draining
  <1>1. ASSUME ProvisionFails PROVE Cancels'
    BY <1>1 DEF ProvisionFails
  <1>2. ASSUME Provision PROVE Cancels'
    BY <1>2 DEF Provision
  <1>3. ASSUME Install PROVE Cancels'
    BY <1>3 DEF Install, SetupStep
  <1>4. ASSUME StartRay PROVE Cancels'
    BY <1>4 DEF StartRay, SetupStep
  <1>5. ASSUME StartActor PROVE Cancels'
    BY <1>5 DEF StartActor, SetupStep
  <1>6. ASSUME SetupReturns PROVE Cancels'
    BY <1>6 DEF SetupReturns
  <1>7. ASSUME SetupRefused PROVE Cancels'
    BY <1>7 DEF SetupRefused
  <1>8. ASSUME RollBack PROVE Cancels'
    BY <1>8 DEF RollBack
  <1>9. ASSUME UnlockAfterRollback PROVE Cancels'
    BY <1>9 DEF UnlockAfterRollback, ReleaseLocks
  <1>10. ASSUME StopRayAfterRollback PROVE Cancels'
    BY <1>10 DEF StopRayAfterRollback, AfterShutdown
  <1>11. ASSUME NEW S \in SUBSET {j \in Jobs : task[j] = "new"}, Submit(S)
         PROVE  Cancels'
    BY <1>11 DEF Submit
  <1>12. ASSUME NEW j \in Jobs, CreateTask(j) PROVE Cancels'
    BY <1>12 DEF CreateTask
  <1>13. ASSUME NEW j \in Jobs, RecordTask(j) PROVE Cancels'
    BY <1>13 DEF RecordTask
  <1>14. ASSUME NEW j \in Jobs, RecheckTask(j) PROVE Cancels'
    <2>1. CASE call.left = {j}
      BY <2>1, <1>14, Rechecked DEF RecheckTask
    <2>2. CASE call.left # {j}
      BY <2>2, <1>14, Rechecked DEF RecheckTask
    <2> QED
      BY <2>1, <2>2
  <1>15. ASSUME AbortSubmit PROVE Cancels'
    BY <1>15 DEF AbortSubmit, CancelAll
  <1>16. ASSUME NEW p \in BOOLEAN, Teardown(p) PROVE Cancels'
    BY <1>16 DEF Teardown, CancelAll
  <1>17. ASSUME BeginDrain PROVE Cancels'
    BY <1>17 DEF BeginDrain, CancelAll
  <1>18. ASSUME Poll PROVE Cancels'
    BY <1>18 DEF Poll
  <1>19. ASSUME AskLeases PROVE Cancels'
    BY <1>19 DEF AskLeases
  <1>20. ASSUME AskQuarantined PROVE Cancels'
    BY <1>20 DEF AskQuarantined
  <1>21. ASSUME DrainFails PROVE Cancels'
    BY <1>21 DEF DrainFails
  <1>22. ASSUME PurgeRefused PROVE Cancels'
    BY <1>22 DEF PurgeRefused
  <1>23. ASSUME KillActor PROVE Cancels'
    BY <1>23 DEF KillActor
  <1>24. ASSUME Purge PROVE Cancels'
    BY <1>24 DEF Purge
  <1>25. ASSUME StopSessions PROVE Cancels'
    BY <1>25 DEF StopSessions, StopBeats
  <1>26. ASSUME Release PROVE Cancels'
    BY <1>26 DEF Release, ReleaseLocks
  <1>27. ASSUME ShutDown PROVE Cancels'
    BY <1>27 DEF ShutDown, AfterShutdown
  <1>28. ASSUME Cancelling PROVE Cancels'
    BY <1>28 DEF Cancelling, MarkCancel, SendCancel, CancelRaises, CancelsDone,
           Cancel, CancelAll
  <1>29. ASSUME MainFindsLoss \/ AskStatus \/ StatusOver \/ \E h \in Hosts :
                  BeatRefused(h) \/ BeatReports(h)
         PROVE  Cancels'
    BY <1>29 DEF MainFindsLoss, OnSessionLost, AskStatus, StatusOver,
           BeatRefused, BeatReports
  <1>30. ASSUME \E j \in Jobs :
                  TaskRuns(j) \/ TaskSettles(j) \/ TaskEvicts(j) \/ TaskEnds(j)
         PROVE  Cancels'
    BY <1>30 DEF TaskRuns, JobStep, At, Of, Quarantine, TaskSettles,
           TaskEvicts, TaskEnds
  <1>31. ASSUME ForeignRay
                  \/ \E h \in Hosts : SweepExpires(h) \/ SweepReconciles(h) \/ LockMoves(h)
         PROVE  Cancels'
    <2>1. CASE ForeignRay
      BY <2>1, RayMoves DEF ForeignRay
    <2>2. ASSUME NEW h \in Hosts,
                 SweepExpires(h) \/ SweepReconciles(h) \/ LockMoves(h)
          PROVE  Cancels'
      BY <2>2 DEF SweepExpires, JobStep, At, Quarantine, SweepReconciles,
             LockMoves
    <2> QED
      BY <1>31, <2>1, <2>2
  <1>32. ASSUME UNCHANGED vars PROVE Cancels'
    BY <1>32 DEF vars
  <1> QED
    BY <1>1, <1>2, <1>3, <1>4, <1>5, <1>6, <1>7, <1>8, <1>9, <1>10, <1>11,
           <1>12, <1>13, <1>14, <1>15, <1>16, <1>17, <1>18, <1>19, <1>20,
           <1>21, <1>22, <1>23, <1>24, <1>25, <1>26, <1>27, <1>28, <1>29,
           <1>30, <1>31, <1>32 DEF Next, Setup, SubmitBatch, TearDown

\* Only MarkCancel starts to send a cancellation, and only when the thread has
\* no other under way.
LEMMA OneAtATimeStep ==
  ASSUME BackInv, [Next]_vars
  PROVE  OneAtATime'
  <1>0. Types /\ OneAtATime
    BY DEF BackInv
  <1>1. Cardinality({}) <= 1 /\ \A j \in Jobs : Cardinality({j}) <= 1
    <2>1. Cardinality({}) = 0
      BY FS_EmptySet
    <2>2. \A j \in Jobs : Cardinality({j}) = 1
      BY FS_Singleton
    <2> QED
      BY <2>1, <2>2
  <1>2. sending' = sending \/ \E th \in Threads :
          /\ \A u \in Threads \ {th} : sending'[u] = sending[u]
          /\ sending'[th] = {} \/ \E j \in Jobs : sending'[th] = {j}
    <2> USE <1>0 DEF canc
    <2>1. ASSUME NEW th \in Threads, MarkCancel(th) PROVE <1>2!2
      BY <2>1 DEF MarkCancel, Types
    <2>2. ASSUME NEW th \in Threads, SendCancel(th) \/ CancelRaises(th)
          PROVE  <1>2!2
      BY <2>2 DEF SendCancel, CancelRaises, Types
    <2>3. ASSUME CancelsDone \/ \E j \in Jobs : Cancel(j)
          PROVE  sending' = sending
      BY <2>3 DEF CancelsDone, Cancel, CancelAll
    <2>4. ASSUME Setup PROVE sending' = sending
      BY <2>4 DEF Setup, ProvisionFails, Provision, Install, SetupStep,
             StartRay, StartActor, SetupReturns, SetupRefused, RollBack,
             UnlockAfterRollback, ReleaseLocks, StopRayAfterRollback,
           AfterShutdown
    <2>5. ASSUME SubmitBatch PROVE sending' = sending
      BY <2>5 DEF SubmitBatch, Submit, CreateTask, RecordTask, RecheckTask,
             Returned, AbortSubmit, CancelAll
    <2>6. ASSUME TearDown PROVE sending' = sending
      BY <2>6 DEF TearDown, Teardown, CancelAll, BeginDrain, Poll, AskLeases,
             AskQuarantined, DrainFails, PurgeRefused, KillActor, Purge,
             StopSessions, StopBeats, Release, ReleaseLocks, ShutDown,
           AfterShutdown
    <2>7. ASSUME MainFindsLoss \/ AskStatus \/ StatusOver \/ \E h \in Hosts :
                   BeatRefused(h) \/ BeatReports(h)
          PROVE  sending' = sending
      BY <2>7 DEF MainFindsLoss, OnSessionLost, AskStatus, StatusOver,
             BeatRefused, BeatReports
    <2>8. ASSUME \E j \in Jobs :
                   TaskRuns(j) \/ TaskSettles(j) \/ TaskEvicts(j) \/ TaskEnds(j)
          PROVE  sending' = sending
      BY <2>8 DEF TaskRuns, JobStep, At, Of, Quarantine, TaskSettles,
             TaskEvicts, TaskEnds
    <2>9. ASSUME ForeignRay
                   \/ \E h \in Hosts : SweepExpires(h) \/ SweepReconciles(h) \/ LockMoves(h)
          PROVE  sending' = sending
      BY <2>9 DEF SweepExpires, JobStep, At, Quarantine, SweepReconciles,
             LockMoves, ForeignRay
    <2>10. ASSUME UNCHANGED vars PROVE sending' = sending
      BY <2>10 DEF vars
    <2> QED
      BY <2>1, <2>2, <2>3, <2>4, <2>5, <2>6, <2>7, <2>8, <2>9, <2>10 DEF Next,
             Cancelling
  <1> QED
    BY <1>0, <1>1, <1>2 DEF OneAtATime

LEMMA BackInit == Init => BackInv
  <1> SUFFICES ASSUME Init PROVE BackInv
    OBVIOUS
  <1> USE DEF Init
  <1>1. Types
    BY DEF Types, Steps, Calls, Backends, Threads
  <1>2. OneAtATime
    BY FS_EmptySet DEF OneAtATime
  <1>3. Phases
    BY DEF Phases, Checking, Draining, DrainSteps, SetupSteps, SubmitSteps, ClosingSteps, Threads
  <1>4. Holdings
    BY DEF Holdings
  <1>5. Work
    BY DEF Work, WorkIsProtected, Quiet, Unfinished, Draining, DrainSteps, SetupSteps,
           ClosingSteps
  <1>6. Known
    BY DEF Known, Unfinished
  <1>7. Cancels
    BY DEF Cancels, MarksAreTrue, Unfinished
  <1> QED
    BY <1>1, <1>2, <1>3, <1>4, <1>5, <1>6, <1>7 DEF BackInv

LEMMA BackStep == BackInv /\ [Next]_vars => BackInv'
  BY TypesStep, OneAtATimeStep, PhasesStep, HoldingsStep, WorkStep, KnownStep, CancelsStep
     DEF BackInv

THEOREM BackInvariant == Spec => []BackInv
  BY BackInit, BackStep, PTL DEF Spec

-----------------------------------------------------------------------------
(* Theorems *)

\* Every variable keeps its type, and no thread sends two cancellations at once.
THEOREM BackendTyped == Spec => []TypeOK
  <1>1. BackInv => TypeOK
    BY DEF BackInv, Types, OneAtATime, TypeOK
  <1> QED
    BY <1>1, BackInvariant, PTL

\* While a task is unfinished or its remote process may be running, the lease
\* actor, the Ray runtime and the heartbeat of the process's host are there.
THEOREM ProtectionTheorem == Spec => []WorkIsProtected
  <1>1. BackInv => WorkIsProtected
    BY DEF BackInv, Work
  <1> QED
    BY <1>1, BackInvariant, PTL

\* A backend without sessions, between calls, holds nothing: no heartbeat, no
\* lock, no actor and no runtime of its own; an actor that ray.kill did not stop
\* is there only if ray.shutdown did not stop the runtime either.
THEOREM LeakTheorem == Spec => []NothingLeaks
  <1>1. BackInv => NothingLeaks
    BY DEF BackInv, Holdings, DisposalSteps, Types, Backends, NothingLeaks
  <1> QED
    BY <1>1, BackInvariant, PTL

\* Once a known loss has been dealt with, every task that is not over was sent a
\* cancellation, or sending it failed.
THEOREM LossTheorem == Spec => []LossReachesTasks
  <1>1. BackInv => LossReachesTasks
    <2> SUFFICES ASSUME BackInv, back.lossSeen, pc = "idle", LossOver,
                        NEW j \in back.refs, Unfinished(j)
                 PROVE  j \in cancelled \cup missed
      BY DEF LossReachesTasks
    <2>1. todo["main"] = {} /\ sending["main"] = {}
      BY DEF BackInv, Phases, Checking
    <2>2. j \in Reached \cup todo["loss"]
      BY DEF BackInv, Cancels
    <2> QED
      BY <2>1, <2>2 DEF Reached, LossOver
  <1> QED
    BY <1>1, BackInvariant, PTL

\* Between calls, every unfinished task is one whose handle the caller got, or
\* was sent a cancellation, or sending it failed.
THEOREM StrayTheorem == Spec => []NoStrayTasks
  <1>1. BackInv => NoStrayTasks
    <2> SUFFICES ASSUME BackInv, pc = "idle", LossOver, NEW j \in Jobs, Unfinished(j)
                 PROVE  j \in returned \cup cancelled \cup missed
      BY DEF NoStrayTasks
    <2>1. todo["main"] = {} /\ sending["main"] = {}
      BY DEF BackInv, Phases, Checking
    <2>2. j \in returned \cup Reached
      BY DEF BackInv, Cancels, SubmitSteps
    <2> QED
      BY <2>1, <2>2 DEF Reached, LossOver
  <1> QED
    BY <1>1, BackInvariant, PTL

\* A task is marked as cancelled only if a cancellation was or is being sent.
THEOREM MarksTheorem == Spec => []MarksAreTrue
  <1>1. BackInv => MarksAreTrue
    BY DEF BackInv, Cancels
  <1> QED
    BY <1>1, BackInvariant, PTL
=============================================================================
