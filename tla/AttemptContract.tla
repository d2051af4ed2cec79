-------------------------- MODULE AttemptContract --------------------------
(***************************************************************************)
(* What an attempt promises to run_job and to the sweeper, without its     *)
(* threads, signals, files and time limits: the life of the job's process  *)
(* on the host, and what the supervisor says when it hands the slot back.  *)
(*                                                                         *)
(*  - the process is started once, while the attempt is open, and may live *)
(*    on after its supervisor has ended;                                   *)
(*  - "settled" is said only if the process was never asked for or was     *)
(*    seen to be gone; from then on nothing runs, so the slot can be       *)
(*    lent again;                                                          *)
(*  - once the supervisor has acted on the loss of its lease it never says *)
(*    so, however clean the host is;                                       *)
(*  - "unsettled" may be said at any time: the host is then quarantined;   *)
(*  - "escaped" is an exception that got out of the cleanup: run_job gives *)
(*    the slot back without knowing.                                       *)
(*                                                                         *)
(* AttemptSupervisor implements this specification; Dispatch builds its    *)
(* workers from the same steps.                                            *)
(***************************************************************************)

VARIABLES
    proc,   \* the remote process of the attempt
    fenced, \* the supervisor acted on the loss of its lease
    ending  \* what the supervisor has said about the attempt

vars == <<proc, fenced, ending>>

Init == proc = "none" /\ fenced = FALSE /\ ending = "open"

\* The supervisor asks the host to run the job.
Issue ==
    /\ ending = "open" /\ proc = "none"
    /\ proc' = "issued"
    /\ UNCHANGED <<fenced, ending>>

ProcStep(from, to) ==
    /\ proc = from
    /\ proc' = to
    /\ UNCHANGED <<fenced, ending>>

\* The job starts, will never start, or is gone (by itself or by a signal of
\* the supervisor, the runner or a sweeper).
Remote ==
    \/ ProcStep("issued", "alive")
    \/ ProcStep("issued", "void")
    \/ ProcStep("alive", "dead")

Fence ==
    /\ ending = "open" /\ ~fenced
    /\ fenced' = TRUE
    /\ UNCHANGED <<proc, ending>>

End(how) ==
    /\ ending = "open"
    /\ ending' = how
    /\ UNCHANGED <<proc, fenced>>

EndSettled == proc \in {"none", "dead"} /\ ~fenced /\ End("settled")

EndUnsettled == End("unsettled")

EndEscaped == End("escaped")

Next == Issue \/ Remote \/ Fence \/ EndSettled \/ EndUnsettled \/ EndEscaped

Spec == Init /\ [][Next]_vars
=============================================================================
