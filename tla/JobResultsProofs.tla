-------------------------- MODULE JobResultsProofs --------------------------
(***************************************************************************)
(* Proofs about JobResults, for every number of attempts and every retry   *)
(* policy.  The inductive invariant IInv says where in run_job the task    *)
(* can be (Position), where outputs/ came from (Publication), what the     *)
(* files of the finished attempts say (Records), and that whatever result  *)
(* is pending, written or answered fits the history (Reports).  Each       *)
(* action keeps it, whatever fails and whenever the cancellation arrives.  *)
(* EarnedInv adds that every retry was asked for by the policy.            *)
(***************************************************************************)
EXTENDS JobResults, TLAPS

\* From register_pid to the finally clause: an attempt is in progress.
InAttempt == Body \cup Handlers \cup {"release"}
Disturbed == cancel = "delivered" \/ verdict = "escaped"

\* The step the task is at, with the verdict and the outputs it goes with.
Position ==
    /\ pc \in InAttempt \cup {"queued", "acquire"} => Len(attempts) < MaxAttempts
    /\ pc = "queued" => attempts = <<>> /\ verdict = "none"
    /\ pc \in {"queued", "acquire", "prepare", "invoke", "collect"} =>
         published = 0 /\ verdict \notin {"escaped", "CANCELLED", "SUCCEEDED"}
    /\ pc \in {"publish", "record"} \cup Handlers => verdict \in Verdicts
    /\ pc = "publish" =>
         /\ verdict = "SUCCEEDED"
         /\ code[Current] = "zero" /\ staged[Current] = "complete"
    /\ pc = "collect" => code[Current] # "none"
    /\ pc = "handle again" => verdict = "CANCELLED"
    /\ pc \in {"record", "release"} /\ verdict = "SUCCEEDED" => published = Current
    /\ pc = "handle" => verdict # "SUCCEEDED"
    /\ verdict \in {"CANCELLED", "interrupted"} => cancel = "delivered"
    /\ verdict = "none" => pc # "release"

\* outputs/ belongs to the attempt in progress or to the last one of the history.
Publication ==
    published # 0 =>
        /\ code[published] = "zero" /\ staged[published] = "complete"
        /\ \/ /\ published = Len(attempts) /\ pc \in {"write", "over"}
              /\ \/ attempts[published] = "SUCCEEDED"
                 \/ attempts[published] = "CANCELLED" /\ cancel = "delivered"
           \/ /\ published = Current
              /\ verdict \in {"SUCCEEDED", "CANCELLED", "escaped", "interrupted"}
        /\ pc # "publish"

\* The finished attempts are on disk, and at most the last one succeeded.
Records ==
    /\ \A n \in 1 .. Len(attempts) :
         /\ attemptJson[n] = attempts[n]
         /\ attempts[n] = "SUCCEEDED" => published = n
    /\ pc = "release" /\ verdict \in Verdicts => attemptJson[Current] = verdict

\* A result that may be written and answered.
Fits(r) ==
    /\ r \in JobResult
    /\ r.attempts \in {attempts, <<>>}
    /\ r.outputDir <=> r.status = "SUCCEEDED"
    /\ r.status = "SUCCEEDED" => published = Len(r.attempts)
    /\ ~Disturbed => r.attempts = attempts /\ (published # 0 <=> r.outputDir)

\* result.json is written last, and nothing else is ever answered.
Reports ==
    /\ pc = "write" \/ outcome = "returned" => Fits(pending)
    /\ resultJson # NoResult => pc = "over" /\ Fits(resultJson)
    /\ outcome = "returned" => resultJson = pending
    /\ outcome # "none" <=> pc = "over"
    /\ outcome = "cancelled" => cancel = "delivered"
    /\ answers \subseteq {resultJson}

IInv == TypeOK /\ Position /\ Publication /\ Records /\ Reports

-----------------------------------------------------------------------------
(* Facts about results and sequences *)

\* The attempt in progress is one the policy allows.
LEMMA CurrentInRange ==
  ASSUME TypeOK
  PROVE  /\ Len(attempts) \in Nat
         /\ Position /\ pc \in InAttempt => Current \in Attempts
  <1>1. Len(attempts) \in Nat
    BY DEF TypeOK
  <1>2. ASSUME Len(attempts) < MaxAttempts PROVE Current \in Attempts
    BY <1>1, <1>2, ResultsAssumption DEF Current, Attempts
  <1> QED
    BY <1>1, <1>2 DEF Position

\* The job's status is the last attempt's, with outputs only after a success.
LEMMA AssembleFits ==
  ASSUME NEW s \in Seq(Verdicts), s # <<>>
  PROVE  /\ Assemble(s) \in JobResult
         /\ Assemble(s).attempts = s
         /\ Assemble(s).outputDir <=> s[Len(s)] = "SUCCEEDED"
         /\ Assemble(s).status = "SUCCEEDED" <=> s[Len(s)] = "SUCCEEDED"
  <1>1. s[Len(s)] \in Verdicts
    OBVIOUS
  <1>2. StatusOf(s[Len(s)]) \in {"SUCCEEDED", "FAILED", "CANCELLED", "TIMED_OUT"}
        /\ (StatusOf(s[Len(s)]) = "SUCCEEDED" <=> s[Len(s)] = "SUCCEEDED")
    BY <1>1 DEF StatusOf
  <1> QED
    BY <1>1, <1>2 DEF Assemble, JobResult

\* What run_job reports when no host is left for another attempt.
LEMMA DeniedFits ==
  ASSUME NEW s \in Seq(Verdicts),
         NEW r, r = [Assemble(s) EXCEPT !.status = "FAILED", !.outputDir = FALSE]
  PROVE  /\ r \in JobResult /\ r.attempts = s
         /\ r.status = "FAILED" /\ ~r.outputDir
  <1>1. r = [status |-> "FAILED", attempts |-> s, outputDir |-> FALSE]
    BY DEF Assemble
  <1>2. [status |-> "FAILED", attempts |-> s, outputDir |-> FALSE] \in JobResult
    BY DEF JobResult
  <1>3. r.attempts = s /\ r.status = "FAILED" /\ ~r.outputDir
    BY ONLY <1>1
  <1> QED
    BY <1>1, <1>2, <1>3

\* A result without history neither succeeds nor claims outputs.
LEMMA BareFits ==
  ASSUME NEW s \in {"FAILED", "CANCELLED"}
  PROVE  /\ Bare(s) \in JobResult /\ Bare(s).attempts = <<>>
         /\ Bare(s).outputDir = FALSE /\ Bare(s).status = s
  BY DEF Bare, JobResult

LEMMA NoResultIsNone == NoResult \notin JobResult
  BY DEF NoResult, JobResult

\* A new attempt changes nothing that is recorded of the earlier ones.
LEMMA AppendFacts ==
  ASSUME NEW s \in Seq(Verdicts), NEW v \in Verdicts
  PROVE  /\ Append(s, v) \in Seq(Verdicts)
         /\ Len(Append(s, v)) = Len(s) + 1 /\ Append(s, v) # <<>>
         /\ Append(s, v)[Len(s) + 1] = v
         /\ \A n \in 1 .. Len(s) : Append(s, v)[n] = s[n]
  OBVIOUS

\* What is written for the attempt in progress leaves the records of the
\* finished ones alone.
LEMMA EarlierRecordsStay ==
  ASSUME TypeOK, Records, Len(attempts) < MaxAttempts, UNCHANGED <<attempts, published>>,
         attemptJson' = attemptJson
           \/ \E v : attemptJson' = [attemptJson EXCEPT ![Current] = v]
  PROVE  \A n \in 1 .. Len(attempts)' :
           /\ attemptJson'[n] = attempts'[n]
           /\ attempts'[n] = "SUCCEEDED" => published' = n
  <1> SUFFICES ASSUME NEW n \in 1 .. Len(attempts)
               PROVE  attemptJson'[n] = attempts[n]
    BY DEF Records
  <1>1. n \in Attempts /\ n # Current /\ attemptJson[n] = attempts[n]
    BY ResultsAssumption DEF TypeOK, Attempts, Current, Records
  <1> QED
    BY <1>1 DEF TypeOK


-----------------------------------------------------------------------------
(* Every step keeps the invariant *)

LEMMA InitIInv == Init => IInv
  BY ResultsAssumption
  DEF Init, IInv, TypeOK, Position, Publication, Records, Reports, Fits,
    Attempts, JobResult, NoResult, Body, Handlers, InAttempt, Verdicts

LEMMA StartKeeps == IInv /\ Start => IInv'
  <1> SUFFICES ASSUME IInv, Start PROVE IInv'
    OBVIOUS
  <1> USE ResultsAssumption
      DEF IInv, Start, Goto, files, run, Current, Body, Handlers, InAttempt
  <1> QED
    BY DEF TypeOK, Position, Publication, Records, Reports, Fits, Disturbed,
      Attempts, Verdicts, FailureKinds

LEMMA AcquireKeeps == IInv /\ Acquire => IInv'
  <1> SUFFICES ASSUME IInv, Acquire PROVE IInv'
    OBVIOUS
  <1> USE ResultsAssumption
      DEF IInv, Acquire, Goto, files, run, Current, Body, Handlers, InAttempt
  <1> QED
    BY DEF TypeOK, Position, Publication, Records, Reports, Fits, Disturbed,
      Attempts, Verdicts, FailureKinds

LEMMA NoHostsKeeps == IInv /\ NoHosts => IInv'
  <1> SUFFICES ASSUME IInv, NoHosts PROVE IInv'
    OBVIOUS
  <1> USE ResultsAssumption
      DEF IInv, NoHosts, Goto, files, run, Current, Body, Handlers, InAttempt
  <1>1. TypeOK'
    <2>1. CASE attempts = <<>>
      BY <2>1, BareFits DEF TypeOK
    <2>2. CASE attempts # <<>>
      BY <2>2, DeniedFits DEF TypeOK
    <2> QED
      BY <2>1, <2>2
  <1>2. Position'
    BY DEF Position, TypeOK, Verdicts, FailureKinds
  <1>3. Publication'
    BY DEF Publication, TypeOK, Position
  <1>4. Records'
    BY DEF Records, TypeOK, Position
  <1>5. Reports'
    <2>1. pending' \in JobResult /\ pending'.attempts = attempts
          /\ pending'.status = "FAILED" /\ ~pending'.outputDir
      <3>1. CASE attempts = <<>>
        BY <3>1, BareFits
      <3>2. CASE attempts # <<>>
        BY <3>2, DeniedFits DEF TypeOK
      <3> QED
        BY <3>1, <3>2
    <2>2. Fits(pending)'
      BY <2>1 DEF Fits, Disturbed, Position
    <2> QED
      BY <2>2 DEF Reports, TypeOK, Fits, Disturbed
  <1> QED
    BY <1>1, <1>2, <1>3, <1>4, <1>5

LEMMA PrepareKeeps == IInv /\ Prepare => IInv'
  <1> SUFFICES ASSUME IInv, Prepare PROVE IInv'
    OBVIOUS
  <1> USE ResultsAssumption
      DEF IInv, Prepare, Goto, files, run, Current, Body, Handlers, InAttempt
  <1> QED
    BY DEF TypeOK, Position, Publication, Records, Reports, Fits, Disturbed,
      Attempts, Verdicts, FailureKinds

LEMMA PrepareRaisesKeeps == IInv /\ PrepareRaises => IInv'
  <1> SUFFICES ASSUME IInv, PrepareRaises PROVE IInv'
    OBVIOUS
  <1> USE ResultsAssumption
      DEF IInv, PrepareRaises, Raises, Goto, files, run, Current, Body, Handlers, InAttempt
  <1> QED
    BY DEF TypeOK, Position, Publication, Records, Reports, Fits, Disturbed,
      Attempts, Verdicts, FailureKinds

LEMMA InvokeRaisesKeeps == IInv /\ InvokeRaises => IInv'
  <1> SUFFICES ASSUME IInv, InvokeRaises PROVE IInv'
    OBVIOUS
  <1> USE ResultsAssumption
      DEF IInv, InvokeRaises, Raises, Goto, files, run, Current, Body, Handlers, InAttempt
  <1> QED
    BY DEF TypeOK, Position, Publication, Records, Reports, Fits, Disturbed,
      Attempts, Verdicts, FailureKinds

LEMMA TimesOutKeeps == IInv /\ TimesOut => IInv'
  <1> SUFFICES ASSUME IInv, TimesOut PROVE IInv'
    OBVIOUS
  <1> USE ResultsAssumption
      DEF IInv, TimesOut, Goto, files, run, Current, Body, Handlers, InAttempt
  <1> QED
    BY DEF TypeOK, Position, Publication, Records, Reports, Fits, Disturbed,
      Attempts, Verdicts, FailureKinds

LEMMA CommandEndsKeeps == IInv /\ CommandEnds => IInv'
  <1> SUFFICES ASSUME IInv, CommandEnds PROVE IInv'
    OBVIOUS
  <1> USE ResultsAssumption
      DEF IInv, CommandEnds, Goto, files, run, Current, Body, Handlers, InAttempt
  <1> QED
    BY DEF TypeOK, Position, Publication, Records, Reports, Fits, Disturbed,
      Attempts, Verdicts, FailureKinds

LEMMA CollectKeeps == IInv /\ Collect => IInv'
  <1> SUFFICES ASSUME IInv, Collect PROVE IInv'
    OBVIOUS
  <1> USE ResultsAssumption
      DEF IInv, Collect, Goto, files, run, Current, Body, Handlers, InAttempt
  <1>0. PICK o \in {"partial", "complete"} :
          /\ verdict' \in {"COMMAND", "COLLECTION", "OUTPUT_MISSING", "SUCCEEDED"}
          /\ verdict' = "SUCCEEDED" => code[Current] = "zero" /\ o = "complete"
          /\ pc' = IF verdict' = "SUCCEEDED" THEN "publish" ELSE "record"
          /\ staged' = [staged EXCEPT ![Current] = o]
    <2>1. Current \in Attempts /\ code[Current] \in {"zero", "nonzero"}
      BY DEF TypeOK, Position, Attempts
    <2> QED
      BY <2>1 DEF Classify
  <1>1. TypeOK'
    BY <1>0 DEF TypeOK, Verdicts, FailureKinds
  <1>2. Position'
    BY <1>0 DEF Position, TypeOK, Verdicts, FailureKinds, Attempts
  <1>3. Publication'
    BY DEF Publication, TypeOK, Position
  <1>4. Records'
    BY DEF Records, TypeOK, Position
  <1>5. Reports'
    BY DEF Reports, TypeOK, Fits, Disturbed
  <1> QED
    BY <1>1, <1>2, <1>3, <1>4, <1>5

LEMMA PublishKeeps == IInv /\ Publish => IInv'
  <1> SUFFICES ASSUME IInv, Publish PROVE IInv'
    OBVIOUS
  <1> USE ResultsAssumption
      DEF IInv, Publish, Goto, files, run, Current, Body, Handlers, InAttempt
  <1> QED
    BY DEF TypeOK, Position, Publication, Records, Reports, Fits, Disturbed,
      Attempts, Verdicts, FailureKinds

LEMMA RecordKeeps == IInv /\ Record => IInv'
  <1> SUFFICES ASSUME IInv, Record PROVE IInv'
    OBVIOUS
  <1> USE ResultsAssumption
      DEF IInv, Record, Goto, WriteAttempt, files, run, Current, Body, Handlers, InAttempt
  <1>1. TypeOK'
    BY DEF TypeOK, Position, Verdicts, FailureKinds
  <1>2. Position'
    BY DEF Position, TypeOK, Verdicts, FailureKinds
  <1>3. Publication'
    BY DEF Publication, TypeOK, Position
  <1>4. Records'
    BY EarlierRecordsStay DEF Records, Position, TypeOK, Attempts, Verdicts, FailureKinds
  <1>5. Reports'
    BY DEF Reports, TypeOK, Fits, Disturbed
  <1> QED
    BY <1>1, <1>2, <1>3, <1>4, <1>5

LEMMA HandleKeeps == IInv /\ Handle => IInv'
  <1> SUFFICES ASSUME IInv, Handle PROVE IInv'
    OBVIOUS
  <1> USE ResultsAssumption
      DEF IInv, Handle, Goto, WriteAttempt, files, run, Current, Body, Handlers, InAttempt
  <1>1. TypeOK'
    BY DEF TypeOK, Position, Verdicts, FailureKinds
  <1>2. Position'
    BY DEF Position, TypeOK, Verdicts, FailureKinds
  <1>3. Publication'
    BY DEF Publication, TypeOK, Position
  <1>4. Records'
    <2>1. \E v : attemptJson' = [attemptJson EXCEPT ![Current] = v]
      OBVIOUS
    <2>2. \A n \in 1 .. Len(attempts)' :
            /\ attemptJson'[n] = attempts'[n]
            /\ attempts'[n] = "SUCCEEDED" => published' = n
      BY <2>1, EarlierRecordsStay DEF Position
    <2>3. Current \in Attempts
      BY CurrentInRange
    <2> QED
      BY <2>2, <2>3 DEF Records, TypeOK, Position
  <1>5. Reports'
    BY DEF Reports, TypeOK, Fits, Disturbed
  <1> QED
    BY <1>1, <1>2, <1>3, <1>4, <1>5

LEMMA HandleAgainKeeps == IInv /\ HandleAgain => IInv'
  <1> SUFFICES ASSUME IInv, HandleAgain PROVE IInv'
    OBVIOUS
  <1> USE ResultsAssumption
      DEF IInv, HandleAgain, Goto, WriteAttempt, files, run, Current, Body, Handlers, InAttempt
  <1>1. TypeOK'
    BY DEF TypeOK, Verdicts, FailureKinds
  <1>2. Position'
    BY DEF Position, TypeOK, Verdicts, FailureKinds
  <1>3. Publication'
    BY DEF Publication, TypeOK, Position
  <1>4. Records'
    <2>1. \E v : attemptJson' = [attemptJson EXCEPT ![Current] = v]
      OBVIOUS
    <2>2. \A n \in 1 .. Len(attempts)' :
            /\ attemptJson'[n] = attempts'[n]
            /\ attempts'[n] = "SUCCEEDED" => published' = n
      BY <2>1, EarlierRecordsStay DEF Position
    <2>3. Current \in Attempts
      BY CurrentInRange
    <2> QED
      BY <2>2, <2>3 DEF Records, TypeOK, Position
  <1>5. Reports'
    BY DEF Reports, TypeOK, Fits, Disturbed
  <1> QED
    BY <1>1, <1>2, <1>3, <1>4, <1>5

LEMMA ReleaseKeeps == IInv /\ Release => IInv'
  <1> SUFFICES ASSUME IInv, Release PROVE IInv'
    OBVIOUS
  <1> USE ResultsAssumption
      DEF IInv, Release, Goto, files, run, Current, Body, Handlers, InAttempt
  <1>0. /\ attempts' \in Seq(Verdicts) /\ attempts' # <<>>
        /\ Len(attempts') = Current
        /\ attempts'[Current] = verdict
        /\ \A n \in 1 .. Len(attempts) : attempts'[n] = attempts[n]
    BY AppendFacts DEF TypeOK
  <1>a. pc = "release" /\ Len(attempts) \in Nat
    BY CurrentInRange DEF ShouldRetry
  <1>b. Current \in Attempts
    BY <1>a, CurrentInRange
  <1>c. /\ Assemble(attempts') \in JobResult
        /\ Assemble(attempts').attempts = attempts'
        /\ Assemble(attempts').outputDir <=> verdict = "SUCCEEDED"
        /\ Assemble(attempts').status = "SUCCEEDED" <=> verdict = "SUCCEEDED"
    BY <1>0, AssembleFits
  <1>d. \/ pc' = "acquire" /\ verdict \in FailureKinds /\ Current < MaxAttempts
           /\ UNCHANGED pending
        \/ pc' = "write" /\ pending' = Assemble(attempts')
    BY DEF ShouldRetry
  <1>1. TypeOK'
    <2>1. pending' \in JobResult \cup {NoResult}
      BY <1>c, <1>d DEF TypeOK
    <2>2. attempts' \in Seq(Verdicts) /\ Len(attempts') <= MaxAttempts
      BY <1>0, <1>b, <1>a DEF Attempts
    <2> QED
      BY <2>1, <2>2, <1>d DEF TypeOK
  <1>2. Position'
    BY <1>0, <1>b, <1>d DEF Position, TypeOK, Publication, FailureKinds, Attempts
  <1>3. Publication'
    <2>1. CASE published = 0
      BY <2>1 DEF Publication
    <2>2. CASE published # 0
      <3>1. /\ code[published] = "zero" /\ staged[published] = "complete"
            /\ published = Current /\ verdict \in {"SUCCEEDED", "CANCELLED"}
        BY <1>a, <2>2 DEF Publication, Verdicts, FailureKinds
      <3>2. pc' = "write"
        BY <1>d, <3>1 DEF FailureKinds
      <3>3. \/ attempts'[published] = "SUCCEEDED"
            \/ attempts'[published] = "CANCELLED" /\ cancel' = "delivered"
        BY <1>0, <1>d, <3>1 DEF Position
      <3>4. UNCHANGED <<code, staged, published>> /\ published = Len(attempts')
        BY <1>0, <3>1
      <3> QED
        BY <3>1, <3>2, <3>3, <3>4 DEF Publication
    <2> QED
      BY <2>1, <2>2
  <1>4. Records'
    <2> SUFFICES ASSUME NEW n \in 1 .. Len(attempts')
                 PROVE  /\ attemptJson[n] = attempts'[n]
                        /\ attempts'[n] = "SUCCEEDED" => published = n
      BY <1>d DEF Records
    <2>1. CASE n = Current
      BY <2>1, <1>0 DEF Records, Position
    <2>2. CASE n # Current
      <3>1. n \in 1 .. Len(attempts)
        BY <1>0, <1>a, <2>2
      <3> QED
        BY <3>1, <1>0 DEF Records
    <2> QED
      BY <2>1, <2>2
  <1>5. Reports'
    <2>1. pc' = "write" => Fits(pending)'
      <3>1. published # 0 => published = Current /\ (verdict = "SUCCEEDED" \/ Disturbed)
        BY <1>b DEF Publication, Position, TypeOK, Attempts, Disturbed
      <3>2. verdict = "SUCCEEDED" => published = Current
        BY DEF Position
      <3> QED
        BY <3>1, <3>2, <1>0, <1>b, <1>c, <1>d DEF Fits, Disturbed, Attempts
    <2> QED
      BY <2>1, <1>d DEF Reports
  <1> QED
    BY <1>1, <1>2, <1>3, <1>4, <1>5

LEMMA LeaveRunJobKeeps == IInv /\ LeaveRunJob => IInv'
  <1> SUFFICES ASSUME IInv, LeaveRunJob PROVE IInv'
    OBVIOUS
  <1> USE ResultsAssumption
      DEF IInv, LeaveRunJob, Goto, files, run, Current, Body, Handlers, InAttempt
  <1>1. TypeOK'
    BY BareFits DEF TypeOK
  <1>2. Position'
    BY DEF Position, TypeOK, Verdicts, FailureKinds
  <1>3. Publication'
    BY DEF Publication, TypeOK, Position
  <1>4. Records'
    BY DEF Records, TypeOK, Position
  <1>5. Reports'
    <2>1. Fits(pending)'
      BY BareFits DEF Fits, Disturbed, Position, Reports
    <2> QED
      BY <2>1 DEF Reports
  <1> QED
    BY <1>1, <1>2, <1>3, <1>4, <1>5

LEMMA WriteKeeps == IInv /\ Write => IInv'
  <1> SUFFICES ASSUME IInv, Write PROVE IInv'
    OBVIOUS
  <1> USE ResultsAssumption
      DEF IInv, Write, files, run, Current, Body, Handlers, InAttempt
  <1>1. TypeOK'
    BY DEF TypeOK, Verdicts, FailureKinds
  <1>2. Position'
    BY DEF Position, TypeOK, Verdicts, FailureKinds
  <1>3. Publication'
    BY DEF Publication, TypeOK, Position
  <1>4. Records'
    BY DEF Records, TypeOK, Position
  <1>5. Reports'
    <2>1. Fits(pending)' /\ Fits(resultJson)'
      BY DEF Reports, Fits, Disturbed
    <2>2. answers = {}
      BY NoResultIsNone DEF Reports, TypeOK
    <2> QED
      BY <2>1, <2>2 DEF Reports
  <1> QED
    BY <1>1, <1>2, <1>3, <1>4, <1>5

LEMMA EscapesKeeps == IInv /\ Escapes => IInv'
  <1> SUFFICES ASSUME IInv, Escapes PROVE IInv'
    OBVIOUS
  <1> USE ResultsAssumption
      DEF IInv, Escapes, CutWrite, files, run, Current, Body, Handlers, InAttempt
  <1>1. TypeOK'
    BY DEF TypeOK, Verdicts, FailureKinds
  <1>2. Position'
    BY DEF Position, TypeOK, Verdicts, FailureKinds
  <1>3. Publication'
    BY DEF Publication, TypeOK, Position
  <1>4. Records'
    BY EarlierRecordsStay DEF Records, Position, TypeOK, Attempts, Verdicts, FailureKinds
  <1>5. Reports'
    BY DEF Reports, TypeOK, Fits, Disturbed
  <1> QED
    BY <1>1, <1>2, <1>3, <1>4, <1>5

LEMMA InterruptBodyKeeps == IInv /\ InterruptBody => IInv'
  <1> SUFFICES ASSUME IInv, InterruptBody PROVE IInv'
    OBVIOUS
  <1> USE ResultsAssumption
      DEF IInv, InterruptBody, Deliver, CutWrite, files, run, Current, Body, Handlers, InAttempt
  <1>1. TypeOK'
    BY DEF TypeOK, Verdicts, FailureKinds
  <1>2. Position'
    BY DEF Position, TypeOK, Verdicts, FailureKinds
  <1>3. Publication'
    BY DEF Publication, TypeOK, Position
  <1>4. Records'
    BY EarlierRecordsStay DEF Records, Position, TypeOK, Attempts, Verdicts, FailureKinds
  <1>5. Reports'
    BY DEF Reports, TypeOK, Fits, Disturbed
  <1> QED
    BY <1>1, <1>2, <1>3, <1>4, <1>5

LEMMA InterruptHandlerKeeps == IInv /\ InterruptHandler => IInv'
  <1> SUFFICES ASSUME IInv, InterruptHandler PROVE IInv'
    OBVIOUS
  <1> USE ResultsAssumption
      DEF IInv, InterruptHandler, Deliver, CutWrite, files, run, Current, Body, Handlers, InAttempt
  <1>1. TypeOK'
    BY DEF TypeOK, Verdicts, FailureKinds
  <1>2. Position'
    BY DEF Position, TypeOK, Verdicts, FailureKinds
  <1>3. Publication'
    BY DEF Publication, TypeOK, Position
  <1>4. Records'
    BY EarlierRecordsStay DEF Records, Position, TypeOK, Attempts, Verdicts, FailureKinds
  <1>5. Reports'
    BY DEF Reports, TypeOK, Fits, Disturbed
  <1> QED
    BY <1>1, <1>2, <1>3, <1>4, <1>5

LEMMA InterruptRunJobKeeps == IInv /\ InterruptRunJob => IInv'
  <1> SUFFICES ASSUME IInv, InterruptRunJob PROVE IInv'
    OBVIOUS
  <1> USE ResultsAssumption
      DEF IInv, InterruptRunJob, Deliver, files, run, Current, Body, Handlers, InAttempt
  <1>1. TypeOK'
    BY BareFits DEF TypeOK
  <1>2. Position'
    BY DEF Position, TypeOK, Verdicts, FailureKinds
  <1>3. Publication'
    BY DEF Publication, TypeOK, Position
  <1>4. Records'
    BY DEF Records, TypeOK, Position
  <1>5. Reports'
    <2>1. Fits(pending)'
      BY BareFits DEF Fits, Disturbed
    <2> QED
      BY <2>1 DEF Reports
  <1> QED
    BY <1>1, <1>2, <1>3, <1>4, <1>5

LEMMA InterruptWriteKeeps == IInv /\ InterruptWrite => IInv'
  <1> SUFFICES ASSUME IInv, InterruptWrite PROVE IInv'
    OBVIOUS
  <1> USE ResultsAssumption
      DEF IInv, InterruptWrite, Deliver, files, run, Current, Body, Handlers, InAttempt
  <1>1. TypeOK'
    BY DEF TypeOK, Verdicts, FailureKinds
  <1>2. Position'
    BY DEF Position, TypeOK, Verdicts, FailureKinds
  <1>3. Publication'
    BY DEF Publication, TypeOK, Position
  <1>4. Records'
    BY DEF Records, TypeOK, Position
  <1>5. Reports'
    <2>1. resultJson' # NoResult => Fits(resultJson)'
      BY DEF Reports, Fits, Disturbed
    <2>2. answers = {}
      BY NoResultIsNone DEF Reports, TypeOK
    <2> QED
      BY <2>1, <2>2 DEF Reports
  <1> QED
    BY <1>1, <1>2, <1>3, <1>4, <1>5

LEMMA CancelInQueueKeeps == IInv /\ CancelInQueue => IInv'
  <1> SUFFICES ASSUME IInv, CancelInQueue PROVE IInv'
    OBVIOUS
  <1> USE ResultsAssumption
      DEF IInv, CancelInQueue, Deliver, files, run, Current, Body, Handlers, InAttempt
  <1> QED
    BY DEF TypeOK, Position, Publication, Records, Reports, Fits, Disturbed,
      Attempts, Verdicts, FailureKinds

LEMMA DieKeeps == IInv /\ Die => IInv'
  <1> SUFFICES ASSUME IInv, Die PROVE IInv'
    OBVIOUS
  <1> USE ResultsAssumption
      DEF IInv, Die, CutWrite, files, run, Current, Body, Handlers, InAttempt
  <1>1. TypeOK'
    BY DEF TypeOK, Verdicts, FailureKinds
  <1>2. Position'
    BY DEF Position, TypeOK, Verdicts, FailureKinds
  <1>3. Publication'
    BY DEF Publication, TypeOK, Position
  <1>4. Records'
    BY EarlierRecordsStay DEF Records, Position, TypeOK, Attempts, Verdicts, FailureKinds
  <1>5. Reports'
    <2>1. pc = "write" => Fits(pending) /\ Fits(pending)'
      BY DEF Reports, Fits, Disturbed
    <2>2. resultJson' # NoResult => Fits(resultJson)'
      BY <2>1 DEF Reports, Fits, Disturbed
    <2> QED
      BY <2>2, NoResultIsNone DEF Reports, TypeOK
  <1> QED
    BY <1>1, <1>2, <1>3, <1>4, <1>5

LEMMA CancelKeeps == IInv /\ Cancel => IInv'
  <1> SUFFICES ASSUME IInv, Cancel PROVE IInv'
    OBVIOUS
  <1> USE ResultsAssumption
      DEF IInv, Cancel, files, run, Current, Body, Handlers, InAttempt
  <1>1. TypeOK'
    BY DEF TypeOK, Verdicts, FailureKinds
  <1>2. Position'
    BY DEF Position, TypeOK, Verdicts, FailureKinds
  <1>3. Publication'
    BY DEF Publication, TypeOK, Position
  <1>4. Records'
    BY DEF Records, TypeOK, Position
  <1>5. Reports'
    BY DEF Reports, TypeOK, Fits, Disturbed
  <1> QED
    BY <1>1, <1>2, <1>3, <1>4, <1>5

LEMMA AskKeeps == IInv /\ Ask => IInv'
  <1> SUFFICES ASSUME IInv, Ask PROVE IInv'
    OBVIOUS
  <1> USE ResultsAssumption
      DEF IInv, Ask, files, run, Current, Body, Handlers, InAttempt
  <1>1. TypeOK'
    BY BareFits DEF TypeOK, CancelledResult, Reports, Fits
  <1>2. Position'
    BY DEF Position, TypeOK, Verdicts, FailureKinds
  <1>3. Publication'
    BY DEF Publication, TypeOK, Position
  <1>4. Records'
    BY DEF Records, TypeOK, Position
  <1>5. Reports'
    <2>1. Fits(pending) => Fits(pending)'
      BY DEF Fits, Disturbed
    <2>2. resultJson' # NoResult => Fits(resultJson)'
      BY BareFits DEF Reports, Fits, Disturbed, CancelledResult
    <2>3. answers' \subseteq {resultJson'}
      BY NoResultIsNone DEF Reports, CancelledResult, TypeOK
    <2> QED
      BY <2>1, <2>2, <2>3 DEF Reports, CancelledResult
  <1> QED
    BY <1>1, <1>2, <1>3, <1>4, <1>5

LEMMA NextKeeps == IInv /\ [Next]_vars => IInv'
  <1> SUFFICES ASSUME IInv, [Next]_vars PROVE IInv'
    OBVIOUS
  <1>1. CASE Next
    BY <1>1, StartKeeps, AcquireKeeps, NoHostsKeeps, PrepareKeeps,
       PrepareRaisesKeeps, InvokeRaisesKeeps, TimesOutKeeps,
       CommandEndsKeeps, CollectKeeps, PublishKeeps, RecordKeeps,
       HandleKeeps, HandleAgainKeeps, ReleaseKeeps, LeaveRunJobKeeps,
       WriteKeeps, EscapesKeeps, InterruptBodyKeeps, InterruptHandlerKeeps,
       InterruptRunJobKeeps, InterruptWriteKeeps, CancelInQueueKeeps,
       DieKeeps, CancelKeeps, AskKeeps DEF Next
  <1>2. CASE UNCHANGED vars
    <2> USE <1>2 DEF vars, files, run, IInv, Current
    <2>1. TypeOK' /\ Records'
      BY DEF TypeOK, Records
    <2>2. Position' /\ Publication'
      BY DEF Position, Publication
    <2>3. Reports'
      BY DEF Reports, Fits, Disturbed
    <2> QED
      BY <2>1, <2>2, <2>3
  <1> QED
    BY <1>1, <1>2

-----------------------------------------------------------------------------
(* The theorems *)

\* The inductive invariant holds in every reachable state, for any number of
\* attempts and any retry policy.
THEOREM ResultsInvariant == Spec => []IInv
  BY InitIInv, NextKeeps, PTL DEF Spec

\* Every variable keeps its type: in particular run_job never makes more
\* attempts than the policy allows.
THEOREM ResultsTyped == Spec => []TypeOK
  <1>1. IInv => TypeOK
    BY DEF IInv
  <1> QED
    BY <1>1, ResultsInvariant, PTL

\* outputs/ comes from one attempt, the last one, whose command exited with 0;
\* unless the job was interrupted, or failed to write a record, or died after the
\* rename, that attempt and the job succeeded; and whatever is recorded as a
\* success has its outputs there (design 9.1).
THEOREM OutputsTheorem == Spec => []OutputsOfOneSuccess
  <1>1. IInv => OutputsOfOneSuccess
    <2> SUFFICES ASSUME IInv PROVE OutputsOfOneSuccess
      OBVIOUS
    <2> USE DEF IInv
    <2>1. published # 0 =>
            /\ code[published] = "zero" /\ staged[published] = "complete"
            /\ Len(attempts) <= published
            /\ published = Len(attempts) =>
                 \/ attempts[published] = "SUCCEEDED"
                 \/ attempts[published] = "CANCELLED" /\ cancel = "delivered"
      BY CurrentInRange DEF Publication, Current
    <2>2. \A n \in 1 .. Len(attempts) : attempts[n] = "SUCCEEDED" => published = n
      BY DEF Records
    <2>3. resultJson.status = "SUCCEEDED" => published = Len(resultJson.attempts)
      BY DEF Reports, Fits, NoResult
    <2>4. ASSUME published # 0, pc = "over", outcome # "failed", ~Disturbed
          PROVE  resultJson.status = "SUCCEEDED"
      <3>1. outcome = "returned" /\ Fits(pending) /\ resultJson = pending
        BY <2>4 DEF Reports, TypeOK, Disturbed
      <3> QED
        BY <2>4, <3>1 DEF Fits
    <2> QED
      BY <2>1, <2>2, <2>3, <2>4 DEF OutputsOfOneSuccess, Disturbed
  <1> QED
    BY <1>1, ResultsInvariant, PTL

\* The history in memory, the attempt.json files and result.json agree, unless a
\* cancellation or an exception that no clause names cut the history short.
THEOREM HistoryTheorem == Spec => []HistoryAgrees
  <1>1. IInv => HistoryAgrees
    BY DEF IInv, HistoryAgrees, Records, Reports, Fits, Disturbed
  <1> QED
    BY <1>1, ResultsInvariant, PTL

\* result.json, once written, never changes, and every answer to status and
\* resolve is what it says: both hold across a late cancellation because a task
\* whose result is written is over, and only its submitter can still act.
THEOREM VerdictTheorem == Spec => VerdictIsFinal
  <1> DEFINE Final == /\ resultJson # NoResult => resultJson' = resultJson
                      /\ answers' \subseteq {resultJson'}
  <1>1. ASSUME IInv, IInv', [Next]_vars PROVE [Final]_vars
    <2>1. answers' \subseteq {resultJson'}
      BY <1>1 DEF IInv, Reports
    <2>2. CASE UNCHANGED vars
      BY <2>2
    <2>3. ASSUME Next, resultJson # NoResult PROVE resultJson' = resultJson
      <3>1. pc = "over"
        BY <1>1, <2>3 DEF IInv, Reports
      <3>2. Cancel \/ Ask
        BY <2>3, <3>1
        DEF Next, Start, Acquire, NoHosts, Prepare, PrepareRaises, InvokeRaises, TimesOut,
            CommandEnds, Collect, Publish, Record, Handle, HandleAgain, Release,
            LeaveRunJob, Write, Escapes, InterruptBody, InterruptHandler, InterruptRunJob,
            InterruptWrite, CancelInQueue, Die, Goto, Raises, Body, Handlers, ShouldRetry
      <3> QED
        BY <2>3, <3>2 DEF Cancel, Ask, CancelledResult, files
    <2> QED
      BY <1>1, <2>1, <2>2, <2>3
  <1>2. Spec => [][Final]_vars
    BY <1>1, ResultsInvariant, PTL DEF Spec
  <1> QED
    BY <1>2 DEF VerdictIsFinal

-----------------------------------------------------------------------------
(* The attempts of a job, one after the other *)

\* run_job has not decided yet what it will report.
Undecided == pc \notin {"write", "over"}

\* Attempt n has left something on disk, or its command an exit code.
Trace(n) ==
    code[n] # "none" \/ staged[n] # "none" \/ attemptJson[n] # "none" \/ published = n

\* No attempt is made, not even begun, that the policy does not ask for: where
\* attempt n has left any trace, the attempts before it are finished, and each
\* of them failed in a way that is retried (the loop of run_job).
AttemptsAreEarned ==
    \A n \in Attempts : Trace(n) =>
        /\ n <= Current
        /\ \A k \in 1 .. (n - 1) : attempts[k] \in RetryOn

\* What is known of a finished attempt is final: a later attempt, a late
\* cancellation or an exception changes neither its place in the history nor
\* its attempt.json nor its outputs, and outputs/ is never replaced.
FinishedIsFinal ==
    [][/\ Len(attempts) <= Len(attempts')
       /\ \A n \in 1 .. Len(attempts) :
            /\ attempts'[n] = attempts[n] /\ attemptJson'[n] = attemptJson[n]
            /\ code'[n] = code[n] /\ staged'[n] = staged[n]
       /\ published # 0 => published' = published]_vars

\* Every retry was asked for, and while run_job is undecided so was the
\* attempt it makes next.
RetriesAsked ==
    /\ \A k \in 1 .. (Len(attempts) - 1) : attempts[k] \in RetryOn
    /\ Undecided => \A k \in 1 .. Len(attempts) : attempts[k] \in RetryOn

EarnedInv == RetriesAsked /\ AttemptsAreEarned

\* A step touches no attempt but the one in progress.
TouchesCurrent ==
    \A n \in Attempts : n # Current \/ ~Undecided =>
        /\ code'[n] = code[n] /\ staged'[n] = staged[n]
        /\ attemptJson'[n] = attemptJson[n]
        /\ published' = n <=> published = n

\* Only the end of an attempt adds to the history; no step resumes a job whose
\* result is decided.
LEMMA StepTouches ==
  ASSUME TypeOK, Next
  PROVE  /\ TouchesCurrent
         /\ Undecided' => Undecided
         /\ attempts' = attempts \/ Release
         /\ published # 0 => published' = published
  <1> USE DEF TypeOK, TouchesCurrent, Undecided, run, files, Goto
  <1>1. CASE Start \/ Acquire \/ NoHosts \/ Prepare
    BY <1>1 DEF Start, Acquire, NoHosts, Prepare
  <1>2. CASE PrepareRaises \/ InvokeRaises \/ TimesOut
    BY <1>2 DEF PrepareRaises, InvokeRaises, TimesOut, Raises
  <1>3. CASE CommandEnds
    BY <1>3 DEF CommandEnds
  <1>4. CASE Collect
    BY <1>4 DEF Collect
  <1>5. CASE Publish
    <2>1. 0 \notin Attempts
      BY DEF Attempts
    <2> QED
      BY <1>5, <2>1 DEF Publish
  <1>6. CASE Record \/ Handle \/ HandleAgain
    BY <1>6 DEF Record, Handle, HandleAgain, WriteAttempt
  <1>7. CASE Release
    BY <1>7 DEF Release
  <1>8. CASE LeaveRunJob \/ Write
    BY <1>8 DEF LeaveRunJob, Write
  <1>9. CASE Escapes \/ InterruptBody \/ InterruptHandler
    BY <1>9 DEF Escapes, InterruptBody, InterruptHandler, Deliver, CutWrite, Body, Handlers
  <1>10. CASE InterruptRunJob \/ InterruptWrite \/ CancelInQueue
    BY <1>10 DEF InterruptRunJob, InterruptWrite, CancelInQueue, Deliver
  <1>11. CASE Die
    BY <1>11 DEF Die, CutWrite, Handlers
  <1>12. CASE Cancel \/ Ask
    BY <1>12 DEF Cancel, Ask, CancelledResult
  <1> QED
    BY <1>1, <1>2, <1>3, <1>4, <1>5, <1>6, <1>7, <1>8, <1>9, <1>10, <1>11, <1>12 DEF Next

LEMMA InitEarned == Init => EarnedInv
  <1> SUFFICES ASSUME Init PROVE EarnedInv
    OBVIOUS
  <1>1. \A n \in Attempts : ~Trace(n)
    BY DEF Init, Trace, Attempts
  <1>2. RetriesAsked
    BY DEF Init, RetriesAsked
  <1> QED
    BY <1>1, <1>2 DEF EarnedInv, AttemptsAreEarned

\* A step that adds nothing to the history.
LEMMA SameHistoryEarned ==
  ASSUME TypeOK, EarnedInv, TouchesCurrent, Undecided' => Undecided, attempts' = attempts
  PROVE  EarnedInv'
  <1>1. RetriesAsked'
    BY DEF EarnedInv, RetriesAsked
  <1>2. ASSUME NEW n \in Attempts, Trace(n)'
        PROVE  n <= Current' /\ \A k \in 1 .. (n - 1) : attempts'[k] \in RetryOn
    <2>1. CASE Trace(n)
      BY <2>1 DEF EarnedInv, AttemptsAreEarned, Current
    <2>2. CASE ~Trace(n)
      <3>1. n = Current /\ Undecided
        BY <1>2, <2>2 DEF Trace, TouchesCurrent
      <3>2. n - 1 = Len(attempts) /\ Current' = Current /\ n <= Current
        BY <3>1, CurrentInRange DEF Current
      <3> QED
        BY <3>1, <3>2 DEF EarnedInv, RetriesAsked
    <2> QED
      BY <2>1, <2>2
  <1> QED
    BY <1>1, <1>2 DEF EarnedInv, AttemptsAreEarned

\* The end of an attempt: the loop goes on only after a failure to be retried.
LEMMA ReleaseEarned ==
  ASSUME TypeOK, Position, EarnedInv, Release
  PROVE  EarnedInv'
  <1>1. /\ attempts \in Seq(Verdicts) /\ verdict \in Verdicts
        /\ attempts' = Append(attempts, verdict)
    BY DEF TypeOK, Release
  <1>2. /\ Len(attempts) \in Nat /\ Len(attempts') = Len(attempts) + 1
        /\ attempts'[Len(attempts) + 1] = verdict
        /\ \A k \in 1 .. Len(attempts) : attempts'[k] = attempts[k]
    BY <1>1, AppendFacts
  <1>3. Undecided /\ (Undecided' => verdict \in RetryOn)
    BY DEF Release, Goto, Undecided, ShouldRetry
  <1>4. \A k \in 1 .. Len(attempts) : attempts'[k] \in RetryOn
    BY <1>2, <1>3 DEF EarnedInv, RetriesAsked
  <1>5. RetriesAsked'
    <2>1. \A k \in 1 .. (Len(attempts') - 1) : k \in 1 .. Len(attempts)
      BY <1>2
    <2>2. \A k \in 1 .. Len(attempts') : k \in 1 .. Len(attempts) \/ k = Len(attempts) + 1
      BY <1>2
    <2> QED
      BY <1>2, <1>3, <1>4, <2>1, <2>2 DEF RetriesAsked
  <1>6. ASSUME NEW n \in Attempts, Trace(n)'
        PROVE  n <= Current' /\ \A k \in 1 .. (n - 1) : attempts'[k] \in RetryOn
    <2>1. Trace(n)
      BY <1>6 DEF Trace, Release, files
    <2>2. n <= Len(attempts) + 1 /\ n \in Nat
      BY <2>1 DEF EarnedInv, AttemptsAreEarned, Current, Attempts
    <2>3. \A k \in 1 .. (n - 1) : k \in 1 .. Len(attempts)
      BY <1>2, <2>2
    <2> QED
      BY <1>2, <1>4, <2>2, <2>3 DEF Current
  <1> QED
    BY <1>5, <1>6 DEF EarnedInv, AttemptsAreEarned

LEMMA EarnedStep == TypeOK /\ Position /\ EarnedInv /\ [Next]_vars => EarnedInv'
  <1> SUFFICES ASSUME TypeOK, Position, EarnedInv, [Next]_vars PROVE EarnedInv'
    OBVIOUS
  <1>1. CASE UNCHANGED vars
    BY <1>1 DEF vars, run, files, EarnedInv, RetriesAsked, AttemptsAreEarned,
                Trace, Undecided, Current
  <1>2. CASE Next /\ Release
    BY <1>2, ReleaseEarned
  <1>3. CASE Next /\ ~Release
    BY <1>3, StepTouches, SameHistoryEarned
  <1> QED
    BY <1>1, <1>2, <1>3

\* A job makes attempt n only if the policy asked for it n - 1 times, for any
\* policy and wherever a cancellation, an exception or the worker's death ends it.
THEOREM EarnedTheorem == Spec => []AttemptsAreEarned
  <1>1. IInv => TypeOK /\ Position
    BY DEF IInv
  <1>2. Spec => []EarnedInv
    BY <1>1, InitEarned, EarnedStep, ResultsInvariant, PTL DEF Spec
  <1>3. EarnedInv => AttemptsAreEarned
    BY DEF EarnedInv
  <1> QED
    BY <1>2, <1>3, PTL

\* The record of a finished attempt, and the final outputs, never change.
THEOREM FinishedTheorem == Spec => FinishedIsFinal
  <1> DEFINE Final ==
        /\ Len(attempts) <= Len(attempts')
        /\ \A n \in 1 .. Len(attempts) :
             /\ attempts'[n] = attempts[n] /\ attemptJson'[n] = attemptJson[n]
             /\ code'[n] = code[n] /\ staged'[n] = staged[n]
        /\ published # 0 => published' = published
  <1>1. ASSUME TypeOK, [Next]_vars PROVE [Final]_vars
    <2> SUFFICES ASSUME Next PROVE Final
      BY <1>1
    <2>1. Len(attempts) \in Nat /\ Len(attempts) <= MaxAttempts /\ attempts \in Seq(Verdicts)
      BY <1>1 DEF TypeOK
    <2>2. Len(attempts) <= Len(attempts') /\ \A n \in 1 .. Len(attempts) : attempts'[n] = attempts[n]
      <3>1. CASE attempts' = attempts
        BY <2>1, <3>1
      <3>2. CASE Release
        <4>1. verdict \in Verdicts /\ attempts' = Append(attempts, verdict)
          BY <3>2 DEF Release
        <4> QED
          BY <2>1, <4>1, AppendFacts
      <3> QED
        BY <1>1, <3>1, <3>2, StepTouches
    <2>3. ASSUME NEW n \in 1 .. Len(attempts)
          PROVE  attemptJson'[n] = attemptJson[n] /\ code'[n] = code[n] /\ staged'[n] = staged[n]
      <3>1. n \in Attempts /\ n # Current
        BY <2>1, ResultsAssumption DEF Attempts, Current
      <3> QED
        BY <1>1, <3>1, StepTouches DEF TouchesCurrent
    <2>4. published # 0 => published' = published
      BY <1>1, StepTouches
    <2> QED
      BY <2>2, <2>3, <2>4
  <1>2. Spec => [][Final]_vars
    BY <1>1, ResultsTyped, PTL DEF Spec
  <1> QED
    BY <1>2 DEF FinishedIsFinal

=============================================================================
