----------------------------- MODULE JobResults -----------------------------
(***************************************************************************)
(* What one job leaves in its result directory, and what its submitter is  *)
(* told: run_job and execute_attempt (scheduling.py) seen through the      *)
(* files they write (results.py), the task around them (_attempt_task,     *)
(* ssh_ray.py), and status and resolve of the backend.                     *)
(*                                                                         *)
(*   attempts/<n>/outputs       collected outputs of attempt n (staged[n]) *)
(*   attempts/<n>/attempt.json  its verdict (attemptJson[n])               *)
(*   outputs/                   renamed from one attempt's outputs         *)
(*   result.json                the JobResult                              *)
(*                                                                         *)
(* Ray interrupts a running task at most once, between any two steps, by a *)
(* KeyboardInterrupt; a file operation may fail (OSError); the worker may  *)
(* die.  An AttemptResult is reduced to its verdict: its failure kind, or  *)
(* its status when there is none.                                          *)
(***************************************************************************)
EXTENDS Naturals, Sequences

CONSTANTS
    MaxAttempts,  \* RetryPolicy.max_attempts
    RetryOn       \* RetryPolicy.retry_on

FailureKinds == {"COMMAND", "OUTPUT_MISSING", "COLLECTION", "SSH",
                 "HOST_LOST", "INTERNAL", "TIMEOUT"}

ASSUME ResultsAssumption ==
    /\ MaxAttempts \in Nat \ {0}
    /\ RetryOn \subseteq FailureKinds

VARIABLES
    pc,           \* where the task is
    cancel,       \* "no", "requested", or "delivered" to the task
    verdict,      \* of the attempt in progress, or how an exception escaped
    attempts,     \* run_job's list of finished attempts
    code,         \* code[n]: exit code of attempt n's command
    staged,       \* staged[n]: attempts/<n>/outputs
    attemptJson,  \* attemptJson[n]: attempts/<n>/attempt.json
    published,    \* the attempt whose outputs became outputs/, or 0
    pending,      \* the task's local result
    resultJson,   \* result.json
    outcome,      \* what ray.get reports of the task
    answers       \* what status and resolve have answered

files == <<attemptJson, published, resultJson>>
run == <<attempts, code, staged>>
vars == <<pc, cancel, verdict, run, files, pending, outcome, answers>>

Attempts == 1 .. MaxAttempts
Verdicts == FailureKinds \cup {"SUCCEEDED", "CANCELLED"}
JobResult == [status : {"SUCCEEDED", "FAILED", "CANCELLED", "TIMED_OUT"},
              attempts : Seq(Verdicts), outputDir : BOOLEAN]
NoResult == [status |-> "none", attempts |-> <<>>, outputDir |-> FALSE]

\* The steps inside the try block of run_job, and inside its except clauses.
Body == {"prepare", "invoke", "collect", "publish", "record"}
Handlers == {"handle", "handle again"}

TypeOK ==
    /\ pc \in Body \cup Handlers \cup {"queued", "acquire", "release", "write", "over"}
    /\ cancel \in {"no", "requested", "delivered"}
    /\ verdict \in Verdicts \cup {"none", "escaped", "interrupted"}
    /\ attempts \in Seq(Verdicts) /\ Len(attempts) <= MaxAttempts
    /\ code \in [Attempts -> {"none", "zero", "nonzero"}]
    /\ staged \in [Attempts -> {"none", "partial", "complete"}]
    /\ attemptJson \in [Attempts -> Verdicts \cup {"none", "torn"}]
    /\ published \in Attempts \cup {0}
    /\ pending \in JobResult \cup {NoResult}
    /\ resultJson \in JobResult \cup {NoResult}
    /\ outcome \in {"none", "returned", "cancelled", "failed"}
    /\ answers \subseteq JobResult

Init ==
    /\ pc = "queued" /\ cancel = "no" /\ verdict = "none"
    /\ attempts = <<>>
    /\ code = [n \in Attempts |-> "none"]
    /\ staged = [n \in Attempts |-> "none"]
    /\ attemptJson = [n \in Attempts |-> "none"]
    /\ published = 0
    /\ pending = NoResult /\ resultJson = NoResult
    /\ outcome = "none" /\ answers = {}

\* The number of the attempt in progress.
Current == Len(attempts) + 1

-----------------------------------------------------------------------------
(* Results *)

StatusOf(v) == CASE v \in {"SUCCEEDED", "CANCELLED"} -> v
                 [] v = "TIMEOUT" -> "TIMED_OUT"
                 [] OTHER -> "FAILED"

\* A result without history, for whatever escaped from run_job.
Bare(status) == [status |-> status, attempts |-> <<>>, outputDir |-> FALSE]

Assemble(s) ==
    [status |-> StatusOf(s[Len(s)]), attempts |-> s,
     outputDir |-> s[Len(s)] = "SUCCEEDED"]

ShouldRetry_OneMore(v, completed) == v \in RetryOn /\ completed <= MaxAttempts

\* A success and a cancelled attempt have no failure kind.
ShouldRetry(v, completed) == v \in RetryOn /\ completed < MaxAttempts

Classify_CodeOnly(c, lost, outputs) ==
    IF c = "nonzero" THEN "COMMAND" ELSE IF lost THEN "COLLECTION" ELSE "SUCCEEDED"

Classify(c, lost, outputs) ==
    CASE c = "nonzero" -> "COMMAND"
      [] c = "zero" /\ lost -> "COLLECTION"
      [] c = "zero" /\ ~lost /\ outputs = "partial" -> "OUTPUT_MISSING"
      [] OTHER -> "SUCCEEDED"

-----------------------------------------------------------------------------
(* The task *)

Goto(from, to) == pc = from /\ pc' = to /\ UNCHANGED <<cancel, outcome, answers>>

Start == Goto("queued", "acquire") /\ UNCHANGED <<verdict, run, files, pending>>

Acquire == Goto("acquire", "prepare") /\ UNCHANGED <<verdict, run, files, pending>>

\* NoHealthyHostsError: what was tried before is reported.
NoHosts ==
    /\ Goto("acquire", "write")
    /\ pending' = IF attempts = <<>> THEN Bare("FAILED")
                  ELSE [Assemble(attempts) EXCEPT !.status = "FAILED", !.outputDir = FALSE]
    /\ UNCHANGED <<verdict, run, files>>

\* register_pid, the attempt directory, the run directory, inputs, manifest.
Prepare == Goto("prepare", "invoke") /\ UNCHANGED <<verdict, run, files, pending>>

\* TransportError, DispatcherError or a lost lease, cleaned up or not.
Raises(from, kinds) ==
    /\ Goto(from, "handle") /\ verdict' \in kinds
    /\ UNCHANGED <<run, files, pending>>

PrepareRaises == Raises("prepare", {"SSH", "INTERNAL"})
InvokeRaises == Raises("invoke", {"SSH", "INTERNAL", "HOST_LOST"})

TimesOut ==
    /\ Goto("invoke", "record") /\ verdict' = "TIMEOUT"
    /\ UNCHANGED <<run, files, pending>>

CommandEnds ==
    /\ Goto("invoke", "collect")
    /\ \E c \in {"zero", "nonzero"} : code' = [code EXCEPT ![Current] = c]
    /\ UNCHANGED <<verdict, attempts, staged, files, pending>>

\* A pull that failed leaves a part of the outputs.
Collect ==
    /\ pc = "collect"
    /\ \E lost \in BOOLEAN, outputs \in {"partial", "complete"} :
        /\ lost => outputs = "partial"
        /\ verdict' = Classify(code[Current], lost, outputs)
        /\ Goto("collect", IF verdict' = "SUCCEEDED" THEN "publish" ELSE "record")
        /\ staged' = [staged EXCEPT ![Current] = outputs]
        /\ UNCHANGED <<attempts, code, files, pending>>

\* A rename onto outputs/ of an earlier attempt would raise.
Publish ==
    /\ Goto("publish", "record")
    /\ published = 0 /\ published' = Current
    /\ UNCHANGED <<verdict, run, attemptJson, resultJson, pending>>

WriteAttempt(v) == attemptJson' = [attemptJson EXCEPT ![Current] = v]

Record ==
    /\ Goto("record", "release") /\ WriteAttempt(verdict)
    /\ UNCHANGED <<verdict, run, published, resultJson, pending>>

Handle_Once ==
    /\ Goto("handle", "release")
    /\ WriteAttempt(IF verdict = "CANCELLED" THEN "INTERNAL" ELSE verdict)
    /\ UNCHANGED <<verdict, run, published, resultJson, pending>>

\* _failed_attempt; a cancelled attempt is first recorded as INTERNAL.
Handle ==
    /\ IF verdict = "CANCELLED"
       THEN Goto("handle", "handle again") /\ WriteAttempt("INTERNAL")
       ELSE Goto("handle", "release") /\ WriteAttempt(verdict)
    /\ UNCHANGED <<verdict, run, published, resultJson, pending>>

HandleAgain ==
    /\ Goto("handle again", "release") /\ WriteAttempt("CANCELLED")
    /\ UNCHANGED <<verdict, run, published, resultJson, pending>>

Release_RetryAnything ==
    /\ verdict \in Verdicts
    /\ attempts' = Append(attempts, verdict)
    /\ IF verdict # "COMMAND" /\ Current < MaxAttempts
       THEN Goto("release", "acquire") /\ UNCHANGED pending
       ELSE Goto("release", "write") /\ pending' = Assemble(attempts')
    /\ UNCHANGED <<verdict, code, staged, files>>

\* The finally clause and the end of the loop.
Release ==
    /\ verdict \in Verdicts
    /\ attempts' = Append(attempts, verdict)
    /\ IF ShouldRetry(verdict, Current)
       THEN Goto("release", "acquire") /\ UNCHANGED pending
       ELSE Goto("release", "write") /\ pending' = Assemble(attempts')
    /\ UNCHANGED <<verdict, code, staged, files>>

\* The finally clause on the way out of run_job, and _attempt_task's except.
LeaveRunJob ==
    /\ verdict \in {"escaped", "interrupted"}
    /\ Goto("release", "write")
    /\ pending' = Bare(IF verdict = "escaped" THEN "FAILED" ELSE "CANCELLED")
    /\ UNCHANGED <<verdict, run, files>>

\* write_result_json: a temporary file, then one rename.
Write ==
    /\ pc = "write" /\ pc' = "over"
    /\ resultJson' = pending /\ outcome' = "returned"
    /\ UNCHANGED <<cancel, verdict, run, attemptJson, published, pending, answers>>

-----------------------------------------------------------------------------
(* Faults *)

\* attempt.json is written in place: a write cut short leaves a torn file.
CutWrite ==
    IF pc \in {"record"} \cup Handlers
    THEN attemptJson' \in {attemptJson, [attemptJson EXCEPT ![Current] = "torn"]}
    ELSE UNCHANGED attemptJson

\* An exception that no clause of run_job names: OSError, ValueError, RayError.
Escapes ==
    /\ pc \in Body \cup Handlers /\ pc' = "release"
    /\ verdict' = "escaped" /\ CutWrite
    /\ UNCHANGED <<cancel, run, published, resultJson, pending, outcome, answers>>

Deliver == cancel = "requested" /\ cancel' = "delivered"

InterruptBody ==
    /\ Deliver /\ pc \in Body /\ pc' = "handle"
    /\ verdict' = "CANCELLED" /\ CutWrite
    /\ UNCHANGED <<run, published, resultJson, pending, outcome, answers>>

InterruptHandler ==
    /\ Deliver /\ pc \in Handlers /\ pc' = "release"
    /\ verdict' = "interrupted" /\ CutWrite
    /\ UNCHANGED <<run, published, resultJson, pending, outcome, answers>>

\* While waiting for a host, or in the finally clause: outside every handler.
InterruptRunJob ==
    /\ Deliver /\ pc \in {"acquire", "release"} /\ pc' = "write"
    /\ pending' = Bare("CANCELLED")
    /\ UNCHANGED <<verdict, run, files, outcome, answers>>

\* The task's last write is not protected: Ray reports TaskCancelledError.
InterruptWrite ==
    /\ Deliver /\ pc = "write" /\ pc' = "over" /\ outcome' = "cancelled"
    /\ resultJson' \in {resultJson, pending}
    /\ UNCHANGED <<verdict, run, attemptJson, published, pending, answers>>

CancelInQueue ==
    /\ Deliver /\ pc = "queued" /\ pc' = "over" /\ outcome' = "cancelled"
    /\ UNCHANGED <<verdict, run, files, pending, answers>>

\* The worker dies, or its last write raises: ray.get raises, max_retries is 0.
Die ==
    /\ pc \notin {"queued", "over"} /\ pc' = "over" /\ outcome' = "failed"
    /\ CutWrite
    /\ resultJson' \in {resultJson} \cup (IF pc = "write" THEN {pending} ELSE {})
    /\ UNCHANGED <<cancel, verdict, run, published, pending, answers>>

-----------------------------------------------------------------------------
(* The submitter *)

Cancel ==
    /\ cancel = "no" /\ cancel' = "requested"
    /\ UNCHANGED <<pc, verdict, run, files, pending, outcome, answers>>

CancelledResult_Blind ==
    /\ resultJson' = Bare("CANCELLED")
    /\ answers' = answers \cup {resultJson'}

\* The history in result.json is fuller than what is known here.
CancelledResult ==
    /\ resultJson' = IF resultJson = NoResult THEN Bare("CANCELLED") ELSE resultJson
    /\ answers' = answers \cup {resultJson'}

\* status or resolve, once the task is over; after "failed" both raise.
Ask ==
    /\ \/ outcome = "returned" /\ answers' = answers \cup {pending} /\ UNCHANGED resultJson
       \/ outcome = "cancelled" /\ CancelledResult
    /\ UNCHANGED <<pc, cancel, verdict, run, attemptJson, published, pending, outcome>>

Next ==
    \/ Start \/ Acquire \/ NoHosts
    \/ Prepare \/ PrepareRaises \/ InvokeRaises \/ TimesOut \/ CommandEnds
    \/ Collect \/ Publish \/ Record \/ Handle \/ HandleAgain
    \/ Release \/ LeaveRunJob \/ Write
    \/ Escapes \/ InterruptBody \/ InterruptHandler \/ InterruptRunJob
    \/ InterruptWrite \/ CancelInQueue \/ Die
    \/ Cancel \/ Ask

Spec == Init /\ [][Next]_vars

-----------------------------------------------------------------------------
(* Properties *)

\* "Final outputs come from exactly one successful attempt" (design 9.1).  The
\* outputs in outputs/ are complete, of a command that exited with 0 and of the
\* last attempt; that attempt and the job are recorded as SUCCEEDED.  The code
\* departs from the design where something happens between the rename and the
\* end of the job (scheduling.py:508-520, 673-679), which undoes nothing:
\*  - an interrupt: the attempt may be recorded as CANCELLED or not at all, and
\*    the job as CANCELLED;
\*  - a record that cannot be written: the job is FAILED, without its history;
\*  - the worker's death: there may be no record at all.
\* Conversely, an attempt or a job that is recorded as SUCCEEDED has its outputs
\* in outputs/.
OutputsOfOneSuccess ==
    LET cutShort == cancel = "delivered" \/ verdict = "escaped" \/ outcome = "failed"
    IN  /\ published # 0 =>
             /\ code[published] = "zero" /\ staged[published] = "complete"
             /\ Len(attempts) <= published
             /\ published = Len(attempts) =>
                  \/ attempts[published] = "SUCCEEDED"
                  \/ attempts[published] = "CANCELLED" /\ cancel = "delivered"
             /\ pc = "over" /\ ~cutShort =>
                  /\ resultJson.status = "SUCCEEDED"
                  /\ published = Len(resultJson.attempts)
        /\ \A n \in 1 .. Len(attempts) : attempts[n] = "SUCCEEDED" => published = n
        /\ resultJson.status = "SUCCEEDED" => published = Len(resultJson.attempts)

\* The in-memory history, the attempt.json files and result.json agree: every
\* finished attempt has its verdict on disk, untorn; result.json has the whole
\* history or none of it, and it has none, or denies outputs that were
\* published, only after a cancellation or an exception that left run_job.
HistoryAgrees ==
    LET disturbed == cancel = "delivered" \/ verdict = "escaped"
    IN  /\ \A n \in 1 .. Len(attempts) : attemptJson[n] = attempts[n]
        /\ resultJson # NoResult =>
             /\ resultJson.attempts \in {attempts, <<>>}
             /\ resultJson.outputDir <=> resultJson.status = "SUCCEEDED"
             /\ ~disturbed => /\ resultJson.attempts = attempts
                              /\ published # 0 <=> resultJson.outputDir

\* However the task ended and however late its cancellation was, result.json is
\* never rewritten, and status and resolve answer what it says: a cancelled task
\* does not replace the history it left by an empty one.
VerdictIsFinal ==
    [][/\ resultJson # NoResult => resultJson' = resultJson
       /\ answers' \subseteq {resultJson'}]_vars

=============================================================================
