----------------------------- MODULE Provision -----------------------------
(***************************************************************************)
(* What provisioning leaves on one host's disk (provisioning.py), and the  *)
(* purge that removes it again (_purge_remote_state, ssh_ray.py).          *)
(*                                                                         *)
(* Two directories are published the same way, the project's source and    *)
(* its environment: built in <dir>.staging, then moved to <dir> by a shell *)
(* script that keeps the previous one in <dir>.old until it is replaced.   *)
(* The script runs on the host, command by command, while the session      *)
(* waits for its exit code.  Any command may fail; the link may break or a *)
(* time limit pass while the script goes on; the host may die and cut it   *)
(* short.  A session that fails releases the host, and a later one starts  *)
(* from whatever is on the disk.                                           *)
(*                                                                         *)
(* Sessions come one after the other, as the session lock has it           *)
(* (SessionLock); what an earlier one started on the host is over or dead  *)
(* when the next begins.  All sessions need the same environment; their    *)
(* sources differ.  uv, the interpreter, the runner, secrets and the       *)
(* post-setup command are steps that may fail and touch nothing else.      *)
(***************************************************************************)
EXTENDS Naturals

CONSTANTS
    Versions,   \* states of the local project tree
    NoVersion,  \* no source-manifest.json
    MaxFaults   \* bound on the number of faults

ASSUME ProvisionAssumption == NoVersion \notin Versions /\ MaxFaults \in Nat

VARIABLES
    pc,        \* the step of the session, or "idle" when there is none
    version,   \* the local tree that the session provisions
    force,     \* setup(force=True)
    waiting,   \* the session still waits for the script's exit code
    at,        \* the publishing script's next command, Done when there is none
    disk,      \* disk[d][place]: the directory d at that place
    manifest,  \* source-manifest.json
    purgeCut,  \* a purge was cut short
    faults     \* the number of faults so far

host == <<disk, manifest>>
vars == <<pc, version, force, waiting, at, host, purgeCut, faults>>

Dirs == {"source", "env"}
Places == {"live", "old", "staging"}
Script == <<"recover", "drop old", "retire", "promote", "drop old">>
Done == 6
Publishing == {"publish source", "publish env"}
Steps == {"prepare", "push", "stamp source", "probe", "sync", "stamp env", "finish"}

\* The version of an environment plays no part.  A ready environment is whole
\* and has its manifest and bin/python; a ruin has these, but not the rest.
States == {"absent", "partial", "whole", "ready", "ruin"}
Tree == [version : Versions \cup {NoVersion}, state : States]
EnvIn(s) == [version |-> NoVersion, state |-> s]
NoTree == EnvIn("absent")

TypeOK ==
    /\ pc \in {"idle", "held", "purge"} \cup Steps \cup Publishing
    /\ version \in Versions \cup {NoVersion}
    /\ force \in BOOLEAN /\ waiting \in BOOLEAN
    /\ at \in 1 .. Done
    /\ at # Done => pc \in Publishing
    /\ disk \in [Dirs -> [Places -> Tree]]
    /\ manifest \in Versions \cup {NoVersion}
    /\ purgeCut \in BOOLEAN
    /\ faults \in 0 .. MaxFaults

Init ==
    /\ pc = "idle" /\ version = NoVersion /\ force = FALSE /\ waiting = FALSE
    /\ at = Done
    /\ disk = [d \in Dirs |-> [p \in Places |-> NoTree]]
    /\ manifest = NoVersion /\ purgeCut = FALSE /\ faults = 0

-----------------------------------------------------------------------------
(* The publishing script *)

Effect_NoRecover(t, command) ==
    CASE command = "recover" -> t
      [] command = "drop old" -> [t EXCEPT !["old"] = NoTree]
      [] command = "retire" /\ t["live"] # NoTree ->
            [t EXCEPT !["old"] = t["live"], !["live"] = NoTree]
      [] command = "promote" /\ t["live"] = NoTree ->
            [t EXCEPT !["live"] = t["staging"], !["staging"] = NoTree]
      [] command = "promote" /\ t["live"] # NoTree -> [t EXCEPT !["staging"] = NoTree]
      [] OTHER -> t

\* What a command makes of a directory's three places.  A mv onto a directory
\* that exists moves into it, and leaves what was there as it was.
Effect(t, command) ==
    CASE command = "recover" /\ t["live"] = NoTree ->
            [t EXCEPT !["live"] = t["old"], !["old"] = NoTree]
      [] command = "drop old" -> [t EXCEPT !["old"] = NoTree]
      [] command = "retire" /\ t["live"] # NoTree ->
            [t EXCEPT !["old"] = t["live"], !["live"] = NoTree]
      [] command = "promote" /\ t["live"] = NoTree ->
            [t EXCEPT !["live"] = t["staging"], !["staging"] = NoTree]
      [] command = "promote" /\ t["live"] # NoTree -> [t EXCEPT !["staging"] = NoTree]
      [] OTHER -> t

\* What rm -rf may have made of a tree when it is cut short.
Torn(t) ==
    {t} \cup {[t EXCEPT !.state = s] : s \in
        CASE t.state = "absent" -> {}
          [] t.state \in {"ready", "ruin"} -> {"partial", "ruin"}
          [] OTHER -> {"partial"}}

Target == IF pc = "publish source" THEN "source" ELSE "env"

RunCommand_BlindRetire ==
    /\ at # Done
    /\ IF Script[at] = "retire" /\ disk[Target]["live"] = NoTree
       THEN pc' = "idle" /\ at' = Done /\ UNCHANGED disk
       ELSE /\ disk' = [disk EXCEPT ![Target] = Effect(@, Script[at])]
            /\ at' = at + 1 /\ UNCHANGED pc
    /\ UNCHANGED <<version, force, waiting, manifest, purgeCut, faults>>

RunCommand ==
    /\ at # Done
    /\ disk' = [disk EXCEPT ![Target] = Effect(@, Script[at])]
    /\ at' = at + 1
    /\ UNCHANGED <<pc, version, force, waiting, manifest, purgeCut, faults>>

\* The session goes on if it still waits; otherwise it is over since long.
ScriptEnds ==
    /\ pc \in Publishing /\ at = Done
    /\ pc' = CASE ~waiting -> "idle"
               [] waiting /\ pc = "publish source" -> "stamp source"
               [] waiting /\ pc = "publish env" -> "finish"
    /\ UNCHANGED <<version, force, waiting, at, host, purgeCut, faults>>

-----------------------------------------------------------------------------
(* Faults *)

Fault == faults < MaxFaults /\ faults' = faults + 1

\* A step fails before it has changed anything, or the session dies, or its
\* heartbeat has failed: the driver releases the lock.
StepFails ==
    /\ Fault /\ pc \in Steps /\ pc' = "idle"
    /\ UNCHANGED <<version, force, waiting, at, host, purgeCut>>

GiveUp_NextMayBegin ==
    /\ Fault /\ waiting /\ pc \in Publishing /\ waiting' = FALSE /\ pc' = "idle"
    /\ UNCHANGED <<version, force, at, host, purgeCut>>

\* The session gives up while the script goes on.
GiveUp ==
    /\ Fault /\ waiting /\ pc \in Publishing /\ waiting' = FALSE
    /\ UNCHANGED <<pc, version, force, at, host, purgeCut>>

ScriptDies_Unchecked ==
    /\ Fault /\ at # Done /\ at' = Done
    /\ pc' = IF pc = "publish source" THEN "stamp source" ELSE "finish"
    /\ UNCHANGED <<version, force, waiting, host, purgeCut>>

\* The script stops at a command that fails (set -e), or dies with the host.
ScriptDies ==
    /\ Fault /\ at # Done /\ at' = Done /\ pc' = "idle"
    /\ IF Script[at] = "drop old"
       THEN \E t \in Torn(disk[Target]["old"]) : disk' = [disk EXCEPT ![Target]["old"] = t]
       ELSE UNCHANGED disk
    /\ UNCHANGED <<version, force, waiting, manifest, purgeCut>>

\* A step is done, and the session goes on, or never learns of it and fails.
Then(next) ==
    \/ pc' = next /\ at' = (IF next \in Publishing THEN 1 ELSE Done) /\ UNCHANGED faults
    \/ Fault /\ pc' = "idle" /\ UNCHANGED at

-----------------------------------------------------------------------------
(* provision() *)

\* The lock is acquired (SessionLock).
Begin ==
    /\ pc = "idle" /\ pc' = "prepare"
    /\ version' \in Versions /\ force' \in BOOLEAN /\ waiting' = TRUE
    /\ UNCHANGED <<at, host, purgeCut, faults>>

Step(from, next) ==
    /\ pc = from /\ Then(next)
    /\ UNCHANGED <<version, force, waiting, purgeCut>>

\* Layout, disk space, uv, interpreter.
Prepare == Step("prepare", "push") /\ UNCHANGED host

Stage(d, t) == disk' = [disk EXCEPT ![d]["staging"] = t] /\ UNCHANGED manifest

Push ==
    /\ Step("push", "publish source")
    /\ Stage("source", [version |-> version, state |-> "whole"])

\* rsync stops half way.
PushFails ==
    /\ Fault /\ pc = "push" /\ pc' = "idle"
    /\ Stage("source", [version |-> version, state |-> "partial"])
    /\ UNCHANGED <<version, force, waiting, at, purgeCut>>

StampSource == Step("stamp source", "probe") /\ manifest' = version /\ UNCHANGED disk

LooksValid(t) == t.state \in {"ready", "ruin"}

Reuse ==
    /\ LooksValid(disk["env"]["live"]) /\ ~force
    /\ Step("probe", "finish") /\ UNCHANGED host

\* rm -rf and mkdir of the staging directory.
Rebuild ==
    /\ ~LooksValid(disk["env"]["live"]) \/ force
    /\ Step("probe", "sync") /\ Stage("env", EnvIn("partial"))

\* uv sync and the smoke check; a sync that fails leaves a part, as before.
Sync == Step("sync", "stamp env") /\ Stage("env", EnvIn("whole"))

StampEnv == Step("stamp env", "publish env") /\ Stage("env", EnvIn("ready"))

\* Runner, secrets, post-setup command.
Finish == Step("finish", "held") /\ UNCHANGED host

Release ==
    /\ pc = "held" /\ pc' = "idle"
    /\ UNCHANGED <<version, force, waiting, at, host, purgeCut, faults>>

-----------------------------------------------------------------------------
(* teardown(purge=True) *)

Purge ==
    /\ pc = "held" /\ pc' = "purge"
    /\ UNCHANGED <<version, force, waiting, at, host, purgeCut, faults>>

\* rm -rf takes the files in the order in which it finds them.
Remove ==
    /\ pc = "purge"
    /\ \/ manifest # NoVersion /\ manifest' = NoVersion /\ UNCHANGED disk
       \/ /\ \E d \in Dirs, p \in Places :
               /\ disk[d][p] # NoTree
               /\ \E t \in (Torn(disk[d][p]) \ {disk[d][p]}) \cup {NoTree} :
                    disk' = [disk EXCEPT ![d][p] = t]
          /\ UNCHANGED manifest
    /\ UNCHANGED <<pc, version, force, waiting, at, purgeCut, faults>>

PurgeDies ==
    /\ Fault /\ pc = "purge" /\ pc' = "idle" /\ purgeCut' = TRUE
    /\ UNCHANGED <<version, force, waiting, at, host>>

Purged ==
    /\ pc = "purge" /\ pc' = "idle"
    /\ manifest = NoVersion /\ \A d \in Dirs, p \in Places : disk[d][p] = NoTree
    /\ UNCHANGED <<version, force, waiting, at, host, purgeCut, faults>>

Next ==
    \/ Begin \/ Prepare \/ Push \/ PushFails \/ StampSource
    \/ Reuse \/ Rebuild \/ Sync \/ StampEnv \/ Finish \/ Release
    \/ RunCommand \/ ScriptEnds \/ GiveUp \/ ScriptDies \/ StepFails
    \/ Purge \/ Remove \/ PurgeDies \/ Purged

\* Sessions go on and users try again.
FairSpec == Init /\ [][Next]_vars /\ WF_vars(Next)

-----------------------------------------------------------------------------
(* Properties *)

\* The tree that is used, or that the next run of the script will bring back.
Current(d) == IF disk[d]["live"] # NoTree THEN disk[d]["live"] ELSE disk[d]["old"]

\* Publication is atomic across failures: unless a purge removes it, the tree
\* that counts is never lost or damaged; it is only ever replaced, at once, by
\* a complete one that was built aside, by a script of any session.
AtomicReplace ==
    [][pc # "purge" => \A d \in Dirs :
         \/ Current(d)' = Current(d)
         \/ /\ disk[d]["staging"].state \in {"whole", "ready"}
            /\ Current(d)' = disk[d]["staging"]]_vars

\* A host that was provisioned has the session's own source, entire, the
\* manifest that names it, and an entire environment, whatever earlier sessions
\* left half done.  One hole remains: after a purge that was cut short, what is
\* left of the environment may still look valid and is reused.
HostReady ==
    pc = "held" =>
        /\ disk["source"]["live"] = [version |-> version, state |-> "whole"]
        /\ manifest = version
        /\ \/ disk["env"]["live"].state = "ready"
           \/ purgeCut /\ disk["env"]["live"].state = "ruin"

\* No state that faults leave on the disk keeps later sessions from succeeding.
Recovery == []<>(pc = "held")

=============================================================================
