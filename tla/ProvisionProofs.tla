-------------------------- MODULE ProvisionProofs --------------------------
(***************************************************************************)
(* Proofs about Provision, for any number of versions and of faults.  The  *)
(* inductive invariant IInv says what the publishing script finds at each  *)
(* of its commands (Script), what the session has put in place so far      *)
(* (Sources, Environment), and that a ruin is only what a purge left.      *)
(***************************************************************************)
EXTENDS Provision, TLAPS

\* What the session puts in place of d.
Good(d, t) ==
    IF d = "source" THEN t = [version |-> version, state |-> "whole"]
                    ELSE t.state = "ready"

\* Before each command of the script; at 4 the place is free, and the old tree
\* is dropped only where it is not the one that counts.
Publication ==
    pc \in Publishing =>
        /\ at <= 4 => Good(Target, disk[Target]["staging"])
        /\ at = 2 /\ disk[Target]["live"] = NoTree => disk[Target]["old"] = NoTree
        /\ at = 4 => disk[Target]["live"] = NoTree
        /\ at >= 5 => Good(Target, disk[Target]["live"])

\* The source and its manifest, once published and stamped.
Sources ==
    /\ pc \in {"stamp source", "probe", "sync", "stamp env", "publish env", "finish", "held"} =>
         Good("source", disk["source"]["live"])
    /\ pc \in {"probe", "sync", "stamp env", "publish env", "finish", "held"} =>
         manifest = version

\* The environment that a session uses.
Environment ==
    pc \in {"finish", "held"} =>
        \/ disk["env"]["live"].state = "ready"
        \/ purgeCut /\ disk["env"]["live"].state = "ruin"

\* A ruin that counts is what a purge left.
Ruins == Current("env").state = "ruin" => purgeCut \/ pc = "purge"

IInv == TypeOK /\ Publication /\ Sources /\ Environment /\ Ruins

-----------------------------------------------------------------------------
(* Directories *)

LEMMA NoTreeType == NoTree \in Tree /\ NoTree.state = "absent"
  BY DEF NoTree, EnvIn, Tree, States

LEMMA EnvType == ASSUME NEW s \in States PROVE EnvIn(s) \in Tree /\ EnvIn(s).state = s
  BY DEF EnvIn, Tree

\* What is left of a tree is a tree, and a tree that is gone stays gone.
LEMMA TornTypes ==
  ASSUME NEW t \in Tree, NEW u \in Torn(t)
  PROVE  u \in Tree /\ (t = NoTree => u = NoTree)
  <1>1. CASE u = t
    BY <1>1
  <1>2. CASE u # t
    <2>1. PICK s \in States : u = [t EXCEPT !.state = s] /\ t.state # "absent"
      BY <1>2 DEF Torn, States
    <2> QED
      BY <2>1, NoTreeType DEF Tree
  <1> QED
    BY <1>1, <1>2

LEMMA EffectTypes ==
  ASSUME NEW t \in [Places -> Tree], NEW c
  PROVE  Effect(t, c) \in [Places -> Tree]
  BY NoTreeType DEF Effect, Places

\* The script runs only while a directory is published.
LEMMA ScriptRuns ==
  ASSUME TypeOK, at # Done
  PROVE  pc \in Publishing /\ at \in 1 .. 5
  BY DEF TypeOK, Done

LEMMA DropsOld ==
  \A n \in 1 .. 5 : Script[n] = "drop old" => n \in {2, 5}
  <1>1. Script[1] # "drop old" /\ Script[3] # "drop old" /\ Script[4] # "drop old"
    BY DEF Script
  <1>2. \A n \in 1 .. 5 : n \in {1, 2, 3, 4, 5}
    OBVIOUS
  <1> QED
    BY <1>1, <1>2

LEMMA FaultCounts ==
  ASSUME TypeOK, Fault
  PROVE  faults' \in 0 .. MaxFaults
  BY ProvisionAssumption DEF TypeOK, Fault

LEMMA TargetIsADir == Target \in Dirs
  BY DEF Target, Dirs

LEMMA InitIInv == Init => IInv
  <1> SUFFICES ASSUME Init PROVE IInv
    OBVIOUS
  <1>1. TypeOK
    <2>1. disk \in [Dirs -> [Places -> Tree]]
      BY NoTreeType DEF Init
    <2>2. faults \in 0 .. MaxFaults
      BY ProvisionAssumption DEF Init
    <2>3. pc = "idle" /\ at \in 1 .. Done /\ at = Done
      BY DEF Init, Done
    <2>4. force \in BOOLEAN /\ waiting \in BOOLEAN /\ purgeCut \in BOOLEAN
      BY DEF Init
    <2>5. version = NoVersion /\ manifest = NoVersion
      BY DEF Init
    <2> QED
      BY <2>1, <2>2, <2>3, <2>4, <2>5 DEF TypeOK
  <1>2. Ruins
    BY NoTreeType DEF Init, Ruins, Current, Dirs, Places
  <1> QED
    BY <1>1, <1>2 DEF Init, IInv, Publication, Sources, Environment, Publishing

Counts(t) == IF t["live"] # NoTree THEN t["live"] ELSE t["old"]

\* A command of the script keeps the tree that counts, or puts the new one in
\* its place.
LEMMA CommandReplaces ==
  ASSUME IInv, pc \in Publishing, at \in 1 .. 5
  PROVE  LET t == disk[Target]
             u == Effect(t, Script[at])
         IN  \/ Counts(u) = Counts(t)
             \/ at = 4 /\ Counts(u) = t["staging"]
  <1> DEFINE t == disk[Target]
             u == Effect(t, Script[at])
  <1> USE DEF IInv
  <1>0. t \in [Places -> Tree]
    BY TargetIsADir DEF TypeOK
  <1>1. CASE at = 1
    BY <1>0, <1>1 DEF Effect, Script, Places, Counts
  <1>2. CASE at = 2
    BY <1>0, <1>2 DEF Effect, Script, Places, Counts, Publication
  <1>3. CASE at = 3
    BY <1>0, <1>3 DEF Effect, Script, Places, Counts
  <1>4. CASE at = 4
    <2>1. t["live"] = NoTree /\ u = [t EXCEPT !["live"] = t["staging"], !["staging"] = NoTree]
      BY <1>4 DEF Effect, Script, Publication
    <2>2. t["staging"] # NoTree
      BY <1>4, NoTreeType DEF Publication, Good
    <2> QED
      BY <1>0, <1>4, <2>1, <2>2 DEF Places, Counts
  <1>5. CASE at = 5
    <2>1. t["live"] # NoTree
      BY <1>5, NoTreeType DEF Publication, Good
    <2> QED
      BY <1>0, <1>5, <2>1 DEF Effect, Script, Places, Counts
  <1> QED
    BY <1>1, <1>2, <1>3, <1>4, <1>5

LEMMA RunCommandKeeps == IInv /\ RunCommand => IInv'
  <1> SUFFICES ASSUME IInv, RunCommand PROVE IInv'
    OBVIOUS
  <1> USE DEF IInv, host
  <1> DEFINE t == disk[Target]
             u == Effect(t, Script[at])
  <1>1. /\ pc \in Publishing /\ at \in 1 .. 5 /\ at' = at + 1
        /\ Target' = Target /\ Target \in Dirs
        /\ t \in [Places -> Tree] /\ u \in [Places -> Tree]
        /\ disk' = [disk EXCEPT ![Target] = u]
    <2>1. pc \in Publishing /\ at \in 1 .. 5
      BY ScriptRuns DEF RunCommand
    <2>3. at' = at + 1 /\ disk' = [disk EXCEPT ![Target] = u]
      BY DEF RunCommand
    <2>4. Target' = Target
      BY DEF RunCommand, Target
    <2>2. t \in [Places -> Tree] /\ u \in [Places -> Tree]
      BY TargetIsADir, EffectTypes DEF TypeOK
    <2> QED
      BY <2>1, <2>2, <2>3, <2>4, TargetIsADir
  <1>2. disk'[Target] = u /\ \A d \in Dirs \ {Target} : disk'[d] = disk[d]
    BY <1>1 DEF TypeOK
  <1>3. TypeOK'
    BY <1>1 DEF RunCommand, TypeOK, Done
  <1>4. Publication'
    <2> SUFFICES /\ at' <= 4 => Good(Target, u["staging"])
                 /\ at' = 2 /\ u["live"] = NoTree => u["old"] = NoTree
                 /\ at' = 4 => u["live"] = NoTree
                 /\ at' >= 5 => Good(Target, u["live"])
      BY <1>1, <1>2 DEF Publication, Good, RunCommand
    <2>1. CASE at = 1
      BY <2>1, <1>1 DEF Publication, Effect, Script, Places
    <2>2. CASE at = 2
      BY <2>2, <1>1 DEF Publication, Effect, Script, Places
    <2>3. CASE at = 3
      BY <2>3, <1>1 DEF Publication, Effect, Script, Places
    <2>4. CASE at = 4
      BY <2>4, <1>1 DEF Publication, Effect, Script, Places
    <2>5. CASE at = 5
      BY <2>5, <1>1 DEF Publication, Effect, Script, Places
    <2> QED
      BY <1>1, <2>1, <2>2, <2>3, <2>4, <2>5
  <1>5. Sources'
    BY <1>1, <1>2 DEF Sources, RunCommand, Publishing, Target, Dirs, Good
  <1>6. Environment'
    BY <1>1 DEF Environment, RunCommand, Publishing
  <1>7. Ruins'
    <2>1. CASE Target = "env"
      <3>1. Counts(u) = Counts(t) \/ Counts(u).state = "ready"
        BY <1>1, <2>1, CommandReplaces DEF Publication, Good
      <3> QED
        BY <1>1, <1>2, <2>1, <3>1 DEF Ruins, Current, Counts, RunCommand, Publishing
    <2>2. CASE Target # "env"
      BY <1>1, <1>2, <2>2 DEF Ruins, Current, RunCommand, Publishing, Dirs
    <2> QED
      BY <2>1, <2>2
  <1> QED
    BY <1>3, <1>4, <1>5, <1>6, <1>7

\* The script is cut short at a command that drops the old tree, which does not
\* count, or at one that leaves everything as it was.
LEMMA ScriptDiesAside ==
  ASSUME IInv, ScriptDies
  PROVE  /\ disk' \in [Dirs -> [Places -> Tree]]
         /\ \A d \in Dirs : /\ disk'[d]["staging"] = disk[d]["staging"]
                            /\ disk'[d]["live"] = disk[d]["live"]
                            /\ Current(d)' = Current(d)
  <1> USE DEF IInv
  <1>1. pc \in Publishing /\ at \in 1 .. 5 /\ Target \in Dirs
    BY TargetIsADir, ScriptRuns DEF ScriptDies
  <1>2. CASE UNCHANGED disk
    BY <1>2 DEF TypeOK, Current
  <1>3. ASSUME Script[at] = "drop old", NEW t \in Torn(disk[Target]["old"]),
               disk' = [disk EXCEPT ![Target]["old"] = t]
        PROVE  /\ disk' \in [Dirs -> [Places -> Tree]]
               /\ \A d \in Dirs : /\ disk'[d]["staging"] = disk[d]["staging"]
                                  /\ disk'[d]["live"] = disk[d]["live"]
                                  /\ Current(d)' = Current(d)
    <2>1. disk[Target] \in [Places -> Tree] /\ disk[Target]["old"] \in Tree
      BY <1>1 DEF TypeOK, Places
    <2>2. t \in Tree /\ (disk[Target]["old"] = NoTree => t = NoTree)
      BY <1>3, <2>1, TornTypes
    <2>3. disk[Target]["live"] = NoTree => disk[Target]["old"] = NoTree
      <3>1. at \in {2, 5}
        BY <1>1, <1>3, DropsOld
      <3> QED
        BY <1>1, <3>1, NoTreeType DEF Publication, Good
    <2>4. disk' \in [Dirs -> [Places -> Tree]]
      BY <1>1, <1>3, <2>2 DEF TypeOK
    <2> QED
      BY <1>1, <1>3, <2>1, <2>2, <2>3, <2>4 DEF TypeOK, Places, Current
  <1> QED
    BY <1>2, <1>3 DEF ScriptDies

LEMMA ScriptDiesKeeps == IInv /\ ScriptDies => IInv'
  <1> SUFFICES ASSUME IInv, ScriptDies PROVE IInv'
    OBVIOUS
  <1>1. pc \in Publishing /\ pc' = "idle" /\ at' = Done
        /\ UNCHANGED <<version, force, waiting, manifest, purgeCut>>
    BY DEF IInv, ScriptDies, TypeOK
  <1>2. TypeOK'
    <2>1. disk' \in [Dirs -> [Places -> Tree]]
      BY ScriptDiesAside
    <2>2. faults' \in 0 .. MaxFaults
      BY FaultCounts DEF IInv, ScriptDies
    <2> QED
      BY <1>1, <2>1, <2>2 DEF IInv, TypeOK, Done
  <1>3. Ruins'
    BY <1>1, ScriptDiesAside DEF IInv, Ruins, Dirs, Publishing
  <1> QED
    BY <1>1, <1>2, <1>3 DEF IInv, Publication, Sources, Environment, Publishing

-----------------------------------------------------------------------------
(* Steps of the session *)

\* What is staged does not count yet.
LEMMA StageAside ==
  ASSUME TypeOK, NEW d \in Dirs, NEW t \in Tree, Stage(d, t)
  PROVE  /\ disk' \in [Dirs -> [Places -> Tree]] /\ manifest' = manifest
         /\ disk'[d]["staging"] = t
         /\ \A e \in Dirs : /\ disk'[e]["live"] = disk[e]["live"]
                            /\ Current(e)' = Current(e)
  BY DEF Stage, TypeOK, Dirs, Places, Current

\* A step that is done leads on, or the session fails on the way.
LEMMA StepLeads ==
  ASSUME TypeOK, NEW from \in Steps, NEW next, Step(from, next)
  PROVE  /\ pc = from /\ pc' \in {next, "idle"}
         /\ at = Done /\ at' \in 1 .. Done /\ (at' # Done => pc' \in Publishing)
         /\ pc' \in Publishing => at' = 1
         /\ faults' \in 0 .. MaxFaults
         /\ UNCHANGED <<version, force, waiting, purgeCut>>
  <1>1. pc = from /\ at = Done
    BY DEF Step, TypeOK, Steps, Publishing
  <1>2. CASE pc' = next /\ at' = (IF next \in Publishing THEN 1 ELSE Done) /\ UNCHANGED faults
    BY <1>1, <1>2 DEF Step, TypeOK, Done
  <1>3. CASE Fault /\ pc' = "idle" /\ UNCHANGED at
    BY <1>1, <1>3, FaultCounts DEF Step, TypeOK, Done, Publishing
  <1> QED
    BY <1>2, <1>3 DEF Step, Then

\* A step that at most stages a tree keeps the invariant if it does its own part.
LEMMA StepKeeps ==
  ASSUME IInv, NEW from \in Steps, NEW next \in Steps \cup Publishing \cup {"held"},
         Step(from, next),
         disk' \in [Dirs -> [Places -> Tree]],
         manifest' \in Versions \cup {NoVersion},
         \A d \in Dirs : /\ disk'[d]["live"] = disk[d]["live"]
                         /\ Current(d)' = Current(d),
         pc' \in Publishing => Good(Target', disk'[Target']["staging"]),
         Sources', Environment'
  PROVE  IInv'
  <1> USE DEF IInv
  <1>1. TypeOK'
    BY StepLeads DEF TypeOK
  <1>2. Publication'
    <2> SUFFICES ASSUME pc' \in Publishing PROVE Good(Target, disk[Target]["staging"])'
      BY StepLeads DEF Publication
    <2> QED
      BY StepLeads DEF Good
  <1>3. Ruins'
    BY StepLeads DEF Ruins, Dirs, Steps
  <1> QED
    BY <1>1, <1>2, <1>3

LEMMA SessionKeeps ==
  IInv /\ (Prepare \/ Push \/ StampSource \/ Reuse \/ Rebuild \/ Sync \/ StampEnv \/ Finish)
    => IInv'
  <1> SUFFICES ASSUME IInv,
                      Prepare \/ Push \/ StampSource \/ Reuse \/ Rebuild \/ Sync
                        \/ StampEnv \/ Finish
               PROVE  IInv'
    OBVIOUS
  <1> USE DEF IInv
  <1>0. /\ disk \in [Dirs -> [Places -> Tree]] /\ manifest \in Versions \cup {NoVersion}
        /\ version \in Versions \cup {NoVersion}
        /\ "source" \in Dirs /\ "env" \in Dirs
    BY DEF TypeOK, Dirs
  <1>a. ASSUME UNCHANGED disk
        PROVE  \A d \in Dirs : disk'[d]["live"] = disk[d]["live"] /\ Current(d)' = Current(d)
    BY <1>a DEF Current
  <1>1. CASE Prepare
    <2>1. Step("prepare", "push") /\ UNCHANGED disk /\ UNCHANGED manifest
      BY <1>1 DEF Prepare, host
    <2>2. /\ pc = "prepare" /\ pc' \in {"push", "idle"}
          /\ UNCHANGED <<version, purgeCut>>
      BY <2>1, StepLeads DEF Steps
    <2>3. Sources' /\ Environment'
      BY <1>0, <2>1, <2>2 DEF Sources, Environment, Good
    <2> QED
      BY <1>0, <1>a, <2>1, <2>2, <2>3, StepKeeps DEF Steps, Publishing
  <1>2. CASE Push
    <2>1. Step("push", "publish source") /\ Stage("source", [version |-> version, state |-> "whole"])
      BY <1>2 DEF Push
    <2>2. [version |-> version, state |-> "whole"] \in Tree
      BY <1>0 DEF Tree, States
    <2>3. /\ disk' \in [Dirs -> [Places -> Tree]] /\ manifest' = manifest
          /\ disk'["source"]["staging"] = [version |-> version, state |-> "whole"]
          /\ \A e \in Dirs : disk'[e]["live"] = disk[e]["live"] /\ Current(e)' = Current(e)
      BY <1>0, <2>1, <2>2, StageAside
    <2>4. /\ pc = "push" /\ pc' \in {"publish source", "idle"}
          /\ UNCHANGED <<version, purgeCut>>
      BY <2>1, StepLeads DEF Steps
    <2>5. Sources' /\ Environment'
      BY <1>0, <2>3, <2>4 DEF Sources, Environment, Good
    <2>6. pc' \in Publishing => Good(Target', disk'[Target']["staging"])
      BY <2>2, <2>3, <2>4 DEF Publishing, Target, Good
    <2> QED
      BY <1>0, <2>1, <2>3, <2>5, <2>6, StepKeeps DEF Steps, Publishing
  <1>3. CASE StampSource
    <2>1. Step("stamp source", "probe") /\ UNCHANGED disk /\ manifest' = version
      BY <1>3 DEF StampSource, host
    <2>2. /\ pc = "stamp source" /\ pc' \in {"probe", "idle"}
          /\ UNCHANGED <<version, purgeCut>>
      BY <2>1, StepLeads DEF Steps
    <2>3. Sources' /\ Environment'
      BY <1>0, <2>1, <2>2 DEF Sources, Environment, Good
    <2> QED
      BY <1>0, <1>a, <2>1, <2>2, <2>3, StepKeeps DEF Steps, Publishing
  <1>4. CASE Reuse
    <2>1. Step("probe", "finish") /\ UNCHANGED disk /\ UNCHANGED manifest
          /\ LooksValid(disk["env"]["live"])
      BY <1>4 DEF Reuse, host
    <2>2. /\ pc = "probe" /\ pc' \in {"finish", "idle"}
          /\ UNCHANGED <<version, purgeCut>>
      BY <2>1, StepLeads DEF Steps
    <2>3. Sources' /\ Environment'
      <3>1. disk["env"]["live"].state = "ruin" => purgeCut
        <4> SUFFICES ASSUME disk["env"]["live"].state = "ruin" PROVE purgeCut
          OBVIOUS
        <4>1. Current("env") = disk["env"]["live"]
          BY NoTreeType DEF Current
        <4> QED
          BY <2>2, <4>1 DEF Ruins
      <3>2. Sources'
        BY <2>1, <2>2 DEF Sources, Good
      <3>3. Environment'
        BY <2>1, <2>2, <3>1 DEF Environment, LooksValid
      <3> QED
        BY <3>2, <3>3
    <2> QED
      BY <1>0, <1>a, <2>1, <2>2, <2>3, StepKeeps DEF Steps, Publishing
  <1>5. CASE Rebuild
    <2>1. Step("probe", "sync") /\ Stage("env", EnvIn("partial"))
      BY <1>5 DEF Rebuild
    <2>2. EnvIn("partial") \in Tree
      BY EnvType DEF States
    <2>3. /\ disk' \in [Dirs -> [Places -> Tree]] /\ manifest' = manifest
          /\ disk'["env"]["staging"] = EnvIn("partial")
          /\ \A e \in Dirs : disk'[e]["live"] = disk[e]["live"] /\ Current(e)' = Current(e)
      BY <1>0, <2>1, <2>2, StageAside
    <2>4. /\ pc = "probe" /\ pc' \in {"sync", "idle"}
          /\ UNCHANGED <<version, purgeCut>>
      BY <2>1, StepLeads DEF Steps
    <2>5. Sources' /\ Environment'
      BY <1>0, <2>3, <2>4 DEF Sources, Environment, Good
    <2>6. pc' \in Publishing => Good(Target', disk'[Target']["staging"])
      BY <2>2, <2>3, <2>4 DEF Publishing, Target, Good
    <2> QED
      BY <1>0, <2>1, <2>3, <2>5, <2>6, StepKeeps DEF Steps, Publishing
  <1>6. CASE Sync
    <2>1. Step("sync", "stamp env") /\ Stage("env", EnvIn("whole"))
      BY <1>6 DEF Sync
    <2>2. EnvIn("whole") \in Tree
      BY EnvType DEF States
    <2>3. /\ disk' \in [Dirs -> [Places -> Tree]] /\ manifest' = manifest
          /\ disk'["env"]["staging"] = EnvIn("whole")
          /\ \A e \in Dirs : disk'[e]["live"] = disk[e]["live"] /\ Current(e)' = Current(e)
      BY <1>0, <2>1, <2>2, StageAside
    <2>4. /\ pc = "sync" /\ pc' \in {"stamp env", "idle"}
          /\ UNCHANGED <<version, purgeCut>>
      BY <2>1, StepLeads DEF Steps
    <2>5. Sources' /\ Environment'
      BY <1>0, <2>3, <2>4 DEF Sources, Environment, Good
    <2>6. pc' \in Publishing => Good(Target', disk'[Target']["staging"])
      BY <2>2, <2>3, <2>4 DEF Publishing, Target, Good
    <2> QED
      BY <1>0, <2>1, <2>3, <2>5, <2>6, StepKeeps DEF Steps, Publishing
  <1>7. CASE StampEnv
    <2>1. Step("stamp env", "publish env") /\ Stage("env", EnvIn("ready"))
      BY <1>7 DEF StampEnv
    <2>2. EnvIn("ready") \in Tree /\ EnvIn("ready").state = "ready"
      BY EnvType DEF States
    <2>3. /\ disk' \in [Dirs -> [Places -> Tree]] /\ manifest' = manifest
          /\ disk'["env"]["staging"] = EnvIn("ready")
          /\ \A e \in Dirs : disk'[e]["live"] = disk[e]["live"] /\ Current(e)' = Current(e)
      BY <1>0, <2>1, <2>2, StageAside
    <2>4. /\ pc = "stamp env" /\ pc' \in {"publish env", "idle"}
          /\ UNCHANGED <<version, purgeCut>>
      BY <2>1, StepLeads DEF Steps
    <2>5. Sources' /\ Environment'
      BY <1>0, <2>3, <2>4 DEF Sources, Environment, Good
    <2>6. pc' \in Publishing => Good(Target', disk'[Target']["staging"])
      BY <2>2, <2>3, <2>4 DEF Publishing, Target, Good
    <2> QED
      BY <1>0, <2>1, <2>3, <2>5, <2>6, StepKeeps DEF Steps, Publishing
  <1>8. CASE Finish
    <2>1. Step("finish", "held") /\ UNCHANGED disk /\ UNCHANGED manifest
      BY <1>8 DEF Finish, host
    <2>2. /\ pc = "finish" /\ pc' \in {"held", "idle"}
          /\ UNCHANGED <<version, purgeCut>>
      BY <2>1, StepLeads DEF Steps
    <2>3. Sources' /\ Environment'
      BY <1>0, <2>1, <2>2 DEF Sources, Environment, Good
    <2> QED
      BY <1>0, <1>a, <2>1, <2>2, <2>3, StepKeeps DEF Steps, Publishing
  <1> QED
    BY <1>1, <1>2, <1>3, <1>4, <1>5, <1>6, <1>7, <1>8

\* rsync stops half way: the staged part does not count.
LEMMA PushFailsKeeps == IInv /\ PushFails => IInv'
  <1> SUFFICES ASSUME IInv, PushFails PROVE IInv'
    OBVIOUS
  <1> USE DEF IInv
  <1>1. /\ pc = "push" /\ pc' = "idle" /\ at = Done
        /\ UNCHANGED <<version, force, waiting, at, purgeCut>>
    BY DEF PushFails, TypeOK, Publishing
  <1>2. [version |-> version, state |-> "partial"] \in Tree
    BY DEF TypeOK, Tree, States
  <1>3. /\ disk' \in [Dirs -> [Places -> Tree]] /\ manifest' = manifest
        /\ \A d \in Dirs : Current(d)' = Current(d)
    BY <1>2, StageAside DEF PushFails, Dirs
  <1>4. TypeOK'
    <2>1. faults' \in 0 .. MaxFaults
      BY FaultCounts DEF PushFails
    <2> QED
      BY <1>1, <1>3, <2>1 DEF TypeOK
  <1> QED
    BY <1>1, <1>3, <1>4
    DEF Publication, Sources, Environment, Ruins, Publishing, Dirs

\* Where the script has ended, the new tree is in place.
LEMMA ScriptPublished ==
  ASSUME Publication, pc \in Publishing, at = Done
  PROVE  Good(Target, disk[Target]["live"])
  BY DEF Publication, Done

\* Steps that touch neither the disk nor the manifest.
LEMMA QuietKeeps ==
  IInv /\ (ScriptEnds \/ GiveUp \/ StepFails \/ Begin \/ Release \/ Purge \/ PurgeDies)
    => IInv'
  <1> SUFFICES ASSUME IInv,
                      ScriptEnds \/ GiveUp \/ StepFails \/ Begin \/ Release \/ Purge
                        \/ PurgeDies
               PROVE  IInv'
    OBVIOUS
  <1> USE DEF IInv, host, Publishing, Steps
  <1>a. ASSUME UNCHANGED disk PROVE \A d \in Dirs : Current(d)' = Current(d)
    BY <1>a DEF Current
  <1>1. CASE ScriptEnds
    <2>1. /\ pc \in Publishing /\ at = Done
          /\ pc' \in {"idle", "stamp source", "finish"}
          /\ pc' = "stamp source" => pc = "publish source"
          /\ pc' = "finish" => pc = "publish env"
          /\ UNCHANGED <<version, force, waiting, at, host, purgeCut, faults>>
      BY <1>1 DEF ScriptEnds, TypeOK
    <2>2. TypeOK'
      BY <2>1 DEF TypeOK
    <2>3. Good(Target, disk[Target]["live"])
      BY <2>1, ScriptPublished
    <2>4. Sources' /\ Environment'
      BY <2>1, <2>3 DEF Sources, Environment, Target, Good
    <2> QED
      BY <1>a, <2>1, <2>2, <2>4 DEF Publication, Ruins, Dirs
  <1>2. CASE GiveUp
    <2>1. TypeOK'
      BY <1>2, FaultCounts DEF GiveUp, TypeOK
    <2> QED
      BY <1>2, <2>1 DEF GiveUp, Publication, Good, Target, Sources, Environment, Ruins, Current
  <1>3. CASE StepFails
    <2>1. TypeOK'
      BY <1>3, FaultCounts DEF StepFails, TypeOK
    <2> QED
      BY <1>3, <2>1 DEF StepFails, Publication, Sources, Environment, Ruins, Current
  <1>4. CASE Begin
    <2>1. TypeOK'
      BY <1>4 DEF Begin, TypeOK
    <2> QED
      BY <1>4, <2>1 DEF Begin, Publication, Sources, Environment, Ruins, Current
  <1>5. CASE Release
    <2>1. TypeOK'
      BY <1>5 DEF Release, TypeOK
    <2> QED
      BY <1>5, <2>1 DEF Release, Publication, Sources, Environment, Ruins, Current
  <1>6. CASE Purge
    <2>1. TypeOK'
      BY <1>6 DEF Purge, TypeOK
    <2> QED
      BY <1>6, <2>1 DEF Purge, Publication, Sources, Environment, Ruins, Current
  <1>7. CASE PurgeDies
    <2>1. TypeOK'
      BY <1>7, FaultCounts DEF PurgeDies, TypeOK
    <2> QED
      BY <1>7, <2>1 DEF PurgeDies, Publication, Sources, Environment, Ruins, Current
  <1> QED
    BY <1>1, <1>2, <1>3, <1>4, <1>5, <1>6, <1>7

LEMMA PurgeKeeps == IInv /\ (Remove \/ Purged) => IInv'
  <1> SUFFICES ASSUME IInv, Remove \/ Purged PROVE IInv'
    OBVIOUS
  <1> USE DEF IInv
  <1>1. CASE Remove
    <2>1. /\ pc = "purge" /\ UNCHANGED <<pc, version, force, waiting, at, purgeCut, faults>>
          /\ manifest' \in Versions \cup {NoVersion}
      BY <1>1 DEF Remove, TypeOK
    <2>2. disk' \in [Dirs -> [Places -> Tree]]
      <3>1. CASE UNCHANGED disk
        BY <3>1 DEF TypeOK
      <3>2. ASSUME NEW d \in Dirs, NEW p \in Places,
                   NEW t \in Torn(disk[d][p]) \cup {NoTree},
                   disk' = [disk EXCEPT ![d][p] = t]
            PROVE  disk' \in [Dirs -> [Places -> Tree]]
        <4>1. disk[d][p] \in Tree /\ disk[d] \in [Places -> Tree]
          BY DEF TypeOK
        <4>2. t \in Tree
          BY <4>1, TornTypes, NoTreeType
        <4> QED
          BY <3>2, <4>1, <4>2 DEF TypeOK
      <3> QED
        BY <1>1, <3>1, <3>2 DEF Remove
    <2>3. TypeOK'
      BY <2>1, <2>2 DEF TypeOK
    <2> QED
      BY <2>1, <2>3 DEF Publication, Sources, Environment, Ruins, Publishing
  <1>2. CASE Purged
    <2>1. TypeOK'
      BY <1>2 DEF Purged, TypeOK, host, Publishing, Steps
    <2>2. Ruins'
      <3>1. disk["env"]["live"] = NoTree /\ disk["env"]["old"] = NoTree
        BY <1>2 DEF Purged, Dirs, Places
      <3> QED
        BY <1>2, <3>1, NoTreeType DEF Ruins, Current, Purged, host
    <2> QED
      BY <1>2, <2>1, <2>2 DEF Purged, Publication, Sources, Environment, Publishing
  <1> QED
    BY <1>1, <1>2

LEMMA NextKeeps == IInv /\ [Next]_vars => IInv'
  <1> SUFFICES ASSUME IInv, [Next]_vars PROVE IInv'
    OBVIOUS
  <1>1. CASE Next
    BY <1>1, RunCommandKeeps, ScriptDiesKeeps, SessionKeeps, PushFailsKeeps, QuietKeeps,
       PurgeKeeps DEF Next
  <1>2. CASE UNCHANGED vars
    <2> USE <1>2 DEF vars, host, IInv
    <2>1. TypeOK'
      BY DEF TypeOK
    <2>2. Publication' /\ Sources'
      BY DEF Publication, Sources, Good, Target
    <2>3. Environment' /\ Ruins'
      BY DEF Environment, Ruins, Current
    <2> QED
      BY <2>1, <2>2, <2>3
  <1> QED
    BY <1>1, <1>2

-----------------------------------------------------------------------------
(* The theorems *)

\* The inductive invariant holds in every reachable state, for any number of
\* versions, of sessions and of faults.
THEOREM ProvisionInvariant == FairSpec => []IInv
  BY InitIInv, NextKeeps, PTL DEF FairSpec

\* Every variable keeps its type; in particular the publishing script only runs
\* while a directory is being published.
THEOREM ProvisionTyped == FairSpec => []TypeOK
  <1>1. IInv => TypeOK
    BY DEF IInv
  <1> QED
    BY <1>1, ProvisionInvariant, PTL

\* A provisioned host has its session's own source and manifest, entire, and an
\* environment that is entire unless a purge was cut short before.
THEOREM HostReadyTheorem == FairSpec => []HostReady
  <1>1. IInv => HostReady
    BY DEF IInv, HostReady, Sources, Environment, Good
  <1> QED
    BY <1>1, ProvisionInvariant, PTL

\* Outside a purge no step, and no fault, damages or loses the tree that counts:
\* it stays, or the complete staged tree takes its place.
THEOREM AtomicReplaceTheorem == FairSpec => AtomicReplace
  <1> DEFINE Replaced ==
        pc # "purge" => \A d \in Dirs :
          \/ Current(d)' = Current(d)
          \/ /\ disk[d]["staging"].state \in {"whole", "ready"}
             /\ Current(d)' = disk[d]["staging"]
  <1>1. ASSUME IInv, [Next]_vars PROVE [Replaced]_vars
    <2> SUFFICES ASSUME Next, pc # "purge", NEW d \in Dirs
                 PROVE  \/ Current(d)' = Current(d)
                        \/ /\ disk[d]["staging"].state \in {"whole", "ready"}
                           /\ Current(d)' = disk[d]["staging"]
      BY <1>1
    <2> USE <1>1 DEF IInv
    <2>1. CASE RunCommand
      <3>1. /\ pc \in Publishing /\ at \in 1 .. 5 /\ Target \in Dirs
            /\ disk' = [disk EXCEPT ![Target] = Effect(disk[Target], Script[at])]
        BY <2>1, ScriptRuns, TargetIsADir DEF RunCommand
      <3>2. CASE d # Target
        BY <3>1, <3>2 DEF Current, TypeOK
      <3>3. CASE d = Target
        <4>1. Current(d)' = Counts(Effect(disk[d], Script[at]))
          BY <3>1, <3>3 DEF Current, Counts, TypeOK
        <4>2. Current(d) = Counts(disk[d])
          BY DEF Current, Counts
        <4>3. at = 4 => disk[d]["staging"].state \in {"whole", "ready"}
          BY <3>1, <3>3 DEF Publication, Good
        <4> QED
          BY <3>1, <3>3, <4>1, <4>2, <4>3, CommandReplaces
      <3> QED
        BY <3>2, <3>3
    <2>2. CASE ScriptDies
      BY <2>2, ScriptDiesAside
    <2>3. ASSUME NEW e \in Dirs, NEW t \in Tree, Stage(e, t)
          PROVE  Current(d)' = Current(d)
      BY <2>3, StageAside
    <2>4. CASE Push \/ PushFails \/ Rebuild \/ Sync \/ StampEnv
      <3>1. /\ [version |-> version, state |-> "whole"] \in Tree
            /\ [version |-> version, state |-> "partial"] \in Tree
        BY DEF TypeOK, Tree, States
      <3>2. EnvIn("partial") \in Tree /\ EnvIn("whole") \in Tree /\ EnvIn("ready") \in Tree
        BY EnvType DEF States
      <3>3. "source" \in Dirs /\ "env" \in Dirs
        BY DEF Dirs
      <3> QED
        BY <2>3, <2>4, <3>1, <3>2, <3>3 DEF Push, PushFails, Rebuild, Sync, StampEnv
    <2>5. CASE UNCHANGED disk
      BY <2>5 DEF Current
    <2>6. CASE Begin \/ Prepare \/ StampSource \/ Reuse \/ Finish \/ Release \/ ScriptEnds
                 \/ GiveUp \/ StepFails \/ Purge
      BY <2>5, <2>6
      DEF Begin, Prepare, StampSource, Reuse, Finish, Release, ScriptEnds, GiveUp,
          StepFails, Purge, host
    <2>7. ~(Remove \/ PurgeDies \/ Purged)
      BY DEF Remove, PurgeDies, Purged
    <2> QED
      BY <2>1, <2>2, <2>4, <2>6, <2>7 DEF Next
  <1>2. FairSpec => [][Replaced]_vars
    BY <1>1, ProvisionInvariant, PTL DEF FairSpec
  <1> QED
    BY <1>2 DEF AtomicReplace

=============================================================================
