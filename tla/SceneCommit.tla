---------------------------- MODULE SceneCommit ----------------------------
(***************************************************************************)
(* The scene_commit stage of one volume and its crash recovery:            *)
(* SceneCommitStageService.run, execute_scene_commit_recovery and the      *)
(* files both of them write, one action per persistent write.              *)
(*                                                                         *)
(* A step of the workflow is a sequence of labels (pc).  Everything on     *)
(* disk survives a crash, pc does not: the next step starts from what it   *)
(* reads.  A step that raises ContractError ends at "raised"; the operator *)
(* may invoke the next one at once.  The directory lock admits one step at *)
(* a time, so there is a single pc.                                        *)
(***************************************************************************)
EXTENDS Naturals, FiniteSets, SceneCommitRecovery

CONSTANTS
    Chapters,       \* chapters of the volume plan
    SceneCount,     \* chapter -> scenes its chapter plan lists
    MaxGeneration,  \* bound on generation ids
    MaxCrashes,     \* bound on the crashes of one behaviour
    MaxLosses,      \* bound on the staging directories lost
    MaxFailures,    \* bound on the fills of a generation staging that fail
    CrashAt         \* labels at which the process may die

InitialGeneration == 1
None == 0           \* an absent generation id
NoScene == <<0, 0>>

Generations == InitialGeneration .. MaxGeneration
Scenes == UNION {{c} \X (1 .. SceneCount[c]) : c \in 1 .. Chapters}
FirstScene == <<1, 1>>
EndOfVolume == <<Chapters + 1, 1>>

\* What determine_scene_commit_transition makes the next target.
Successor(s) ==
    IF s[2] < SceneCount[s[1]] THEN <<s[1], s[2] + 1>> ELSE <<s[1] + 1, 1>>

Precedes(s, t) == s[1] < t[1] \/ (s[1] = t[1] /\ s[2] < t[2])

Labels == {"continuity", "ensure_staging", "write_commit", "commit_file",
           "ensure_generation", "generation_files", "prepare",
           "finalize_scene", "save_scene", "finalize_generation",
           "save_generation", "advance", "rebuild_isolate", "rebuild",
           "rebuild_files", "restart"}

ASSUME PlanAssumption ==
    /\ Chapters \in Nat \ {0}
    /\ SceneCount \in [1 .. Chapters -> Nat \ {0}]
ASSUME BoundAssumption ==
    /\ MaxGeneration \in Nat \ {0}
    /\ MaxCrashes \in Nat
    /\ MaxLosses \in Nat
    /\ MaxFailures \in Nat
    /\ CrashAt \subseteq Labels
-----------------------------------------------------------------------------
VARIABLES
    (* runtime/run-state.json, replaced as a whole *)
    stage,        \* "drafting" stands for chapter_plan .. scene_continuity
    cursor,       \* the scene current_target names
    basis,        \* current_target.basis_generation_id
    result,       \* current_target.result_generation_id
    current,      \* current_generation_id
    pending,      \* "none" or the phase of the pending scene commit
    (* the other files of the workspace *)
    counter,      \* runtime/counters.json, generation ids handed out
    adopted,      \* immutable scene adoption records: the result id in each
    sceneStaging, \* runtime/staging/scene-<id>
    genStaging,   \* runtime/staging/generation-<id>
    scenes,       \* scenes/<id>: the result id its commit.json names
    generations,  \* generations/<id>: parent and source scene
    orphans,      \* directories moved to runtime/orphans
    (* the running step and its environment *)
    pc, reserved, crashes, losses, failures

runState == <<stage, cursor, basis, result, current, pending>>
staging == <<sceneStaging, genStaging, orphans>>
finals == <<scenes, generations>>
drafts == <<counter, adopted, reserved>>
faults == <<crashes, losses, failures>>
vars == <<runState, staging, finals, drafts, faults, pc>>

SceneStagingState == {"absent", "damaged", "frozen", "torn", "complete"}
GenerationStagingState == {"absent", "partial", "complete"}
SceneRecord == [scene : Scenes, result : Generations]
GenerationRecord == [id : Generations, parent : Generations \cup {None},
                     scene : Scenes \cup {NoScene}]

TypeOK ==
    /\ stage \in {"drafting", "scene_commit", "volume_handoff"}
    /\ cursor \in Scenes \cup {EndOfVolume}
    /\ basis \in Generations
    /\ result \in Generations \cup {None}
    /\ current \in Generations
    /\ pending \in Phase \cup {"none"}
    /\ counter \in Generations
    /\ adopted \in [Scenes -> Generations \cup {None}]
    /\ sceneStaging \in [Scenes -> SceneStagingState]
    /\ genStaging \in [Generations -> GenerationStagingState]
    /\ scenes \subseteq SceneRecord
    /\ generations \subseteq GenerationRecord
    /\ orphans \in Nat
    /\ pc \in Labels \cup {"idle", "raised"}
    /\ reserved \in Generations \cup {None}
    /\ crashes \in Nat
    /\ losses \in Nat
    /\ failures \in Nat

Init ==
    /\ stage = "drafting"
    /\ cursor = FirstScene
    /\ basis = InitialGeneration
    /\ result = None
    /\ current = InitialGeneration
    /\ pending = "none"
    /\ counter = InitialGeneration
    /\ adopted = [s \in Scenes |-> None]
    /\ sceneStaging = [s \in Scenes |-> "absent"]
    /\ genStaging = [g \in Generations |-> "absent"]
    /\ scenes = {}
    /\ generations = {[id |-> InitialGeneration, parent |-> None,
                       scene |-> NoScene]}
    /\ orphans = 0
    /\ pc = "idle"
    /\ reserved = None
    /\ crashes = 0
    /\ losses = 0
    /\ failures = 0

SceneFinalExists == \E r \in scenes : r.scene = cursor
GenerationFinalExists == \E r \in generations : r.id = result
AtRest == pc \in {"idle", "raised"}

(***************************************************************************)
(* The observation inspect_scene_commit_recovery makes.  A scene directory *)
(* is complete when its four files carry the pending result id; a          *)
(* generation is judged against the complete scene, the final one first.   *)
(* final_state_matches compares a state whose active_scene_id is the scene *)
(* with one whose active_scene_id is null: it is never true.               *)
(***************************************************************************)
SceneFinalCondition ==
    IF ~SceneFinalExists THEN "absent"
    ELSE IF [scene |-> cursor, result |-> result] \in scenes
         THEN "complete" ELSE "invalid"

SceneStagingCondition ==
    IF sceneStaging[cursor] \in {"absent", "complete"}
    THEN sceneStaging[cursor] ELSE "invalid"

CanonicalScene == "complete" \in {SceneFinalCondition, SceneStagingCondition}

GenerationStagingCondition ==
    IF genStaging[result] = "absent" THEN "absent"
    ELSE IF CanonicalScene /\ genStaging[result] = "complete"
         THEN "complete" ELSE "invalid"

GenerationFinalCondition ==
    IF ~GenerationFinalExists THEN "absent"
    ELSE IF /\ CanonicalScene
            /\ [id |-> result, parent |-> basis, scene |-> cursor]
                    \in generations
         THEN "complete" ELSE "invalid"

Inspection == [phase |-> pending,
               relation |-> IF current = basis THEN "parent"
                            ELSE IF current = result THEN "expected"
                            ELSE "other",
               sceneStaging |-> SceneStagingCondition,
               generationStaging |-> GenerationStagingCondition,
               sceneFinal |-> SceneFinalCondition,
               generationFinal |-> GenerationFinalCondition,
               finalStateMatches |-> FALSE]

\* The scenes of the chapter that are already committed are 1 .. s-1.
PriorScenesCommitted ==
    {r.scene[2] : r \in {x \in scenes : x.scene[1] = cursor[1]}}
        = 1 .. cursor[2] - 1

\* The conditions under which the running step raises ContractError.
Refused ==
    \/ AtRest /\ pending # "none" /\ Classify(Inspection) = "manual"
    \/ pc = "ensure_staging" /\ (SceneFinalExists \/ adopted[cursor] = None)
    \/ pc = "write_commit" /\ \/ basis # current
                              \/ adopted[cursor] # result
                              \/ ~PriorScenesCommitted
                              \/ sceneStaging[cursor] = "torn"
    \/ pc = "ensure_generation" /\ \/ result <= basis
                                   \/ SceneFinalExists
                                   \/ GenerationFinalExists
                                   \/ genStaging[result] = "partial"
    \/ pc = "prepare" /\ \/ sceneStaging[cursor] # "complete"
                         \/ genStaging[result] # "complete"
    \/ pc = "finalize_scene" /\ \/ sceneStaging[cursor] # "complete"
                                \/ SceneFinalExists
    \/ pc = "finalize_generation" /\ \/ genStaging[result] # "complete"
                                     \/ GenerationFinalExists
-----------------------------------------------------------------------------
(* scene_continuity, the stage before: it reserves the result id when it   *)
(* starts and publishes the adoption record with it when it ends.          *)

\* A plausible slip: the id is used before the counter is saved.
ReserveWithoutSaving ==
    /\ AtRest
    /\ stage = "drafting"
    /\ reserved' = counter + 1
    /\ pc' = "continuity"
    /\ UNCHANGED <<runState, staging, finals, counter, adopted, faults>>

ReserveGeneration ==
    /\ AtRest
    /\ stage = "drafting"
    /\ counter < MaxGeneration
    /\ counter' = counter + 1
    /\ reserved' = counter + 1
    /\ pc' = "continuity"
    /\ UNCHANGED <<runState, staging, finals, adopted, faults>>

AdoptContinuity ==
    /\ pc = "continuity"
    /\ adopted' = [adopted EXCEPT ![cursor] = reserved]
    /\ sceneStaging' = [sceneStaging EXCEPT ![cursor] = "frozen"]
    /\ stage' = "scene_commit"
    /\ result' = reserved
    /\ reserved' = None
    /\ pc' = "idle"
    /\ UNCHANGED <<cursor, basis, current, pending, counter, genStaging,
                   finals, orphans, faults>>
-----------------------------------------------------------------------------
(* SceneCommitStageService.run                                             *)

BeginCommit ==
    /\ AtRest
    /\ stage = "scene_commit"
    /\ pending = "none"
    /\ pc' = "ensure_staging"
    /\ UNCHANGED <<runState, staging, finals, drafts, faults>>

\* The three frozen files equal the adoption record; commit.json is not read.
KeepSceneStaging ==
    /\ pc = "ensure_staging" /\ ~Refused
    /\ sceneStaging[cursor] \in {"frozen", "torn", "complete"}
    /\ pc' = "write_commit"
    /\ UNCHANGED <<runState, staging, finals, drafts, faults>>

IsolateSceneStaging ==
    /\ pc = "ensure_staging" /\ ~Refused
    /\ sceneStaging[cursor] = "damaged"
    /\ sceneStaging' = [sceneStaging EXCEPT ![cursor] = "absent"]
    /\ orphans' = orphans + 1
    /\ UNCHANGED <<runState, genStaging, finals, drafts, faults, pc>>

RestoreSceneStaging ==
    /\ pc = "ensure_staging" /\ ~Refused
    /\ sceneStaging[cursor] = "absent"
    /\ sceneStaging' = [sceneStaging EXCEPT ![cursor] = "frozen"]
    /\ pc' = "write_commit"
    /\ UNCHANGED <<runState, genStaging, orphans, finals, drafts, faults>>

\* write_json_new opens the final name: the file is torn until it is synced.
CreateCommitFile ==
    /\ pc = "write_commit" /\ ~Refused
    /\ sceneStaging[cursor] = "frozen"
    /\ sceneStaging' = [sceneStaging EXCEPT ![cursor] = "torn"]
    /\ pc' = "commit_file"
    /\ UNCHANGED <<runState, genStaging, orphans, finals, drafts, faults>>

FillCommitFile ==
    /\ pc = "commit_file"
    /\ sceneStaging' = [sceneStaging EXCEPT ![cursor] = "complete"]
    /\ pc' = "ensure_generation"
    /\ UNCHANGED <<runState, genStaging, orphans, finals, drafts, faults>>

ReuseCommitFile ==
    /\ pc = "write_commit" /\ ~Refused
    /\ sceneStaging[cursor] = "complete"
    /\ pc' = "ensure_generation"
    /\ UNCHANGED <<runState, staging, finals, drafts, faults>>

CreateGenerationStaging ==
    /\ pc = "ensure_generation" /\ ~Refused
    /\ genStaging[result] = "absent"
    /\ genStaging' = [genStaging EXCEPT ![result] = "partial"]
    /\ pc' = "generation_files"
    /\ UNCHANGED <<runState, sceneStaging, orphans, finals, drafts, faults>>

FillGenerationStaging ==
    /\ pc = "generation_files"
    /\ genStaging' = [genStaging EXCEPT ![result] = "complete"]
    /\ pc' = "prepare"
    /\ UNCHANGED <<runState, sceneStaging, orphans, finals, drafts, faults>>

ReuseGenerationStaging ==
    /\ pc = "ensure_generation" /\ ~Refused
    /\ genStaging[result] = "complete"
    /\ pc' = "prepare"
    /\ UNCHANGED <<runState, staging, finals, drafts, faults>>

SavePhase(phase, next) ==
    /\ pending' = phase
    /\ pc' = next
    /\ UNCHANGED <<stage, cursor, basis, result, current, staging, finals,
                   drafts, faults>>

\* A plausible slip: the generation is finalized ahead of its scene.
PrepareGenerationFirst ==
    /\ pc = "prepare" /\ ~Refused
    /\ SavePhase("prepared", "finalize_generation")

\* A plausible slip: the phase is saved before the rename it announces.
PrepareAsFinalized ==
    /\ pc = "prepare" /\ ~Refused
    /\ SavePhase("scene_finalized", "finalize_scene")

Prepare ==
    /\ pc = "prepare" /\ ~Refused
    /\ SavePhase("prepared", "finalize_scene")

FinalizeScene ==
    /\ pc = "finalize_scene" /\ ~Refused
    /\ scenes' = scenes \cup {[scene |-> cursor, result |-> result]}
    /\ sceneStaging' = [sceneStaging EXCEPT ![cursor] = "absent"]
    /\ pc' = "save_scene"
    /\ UNCHANGED <<runState, genStaging, orphans, generations, drafts, faults>>

SaveSceneFinalized ==
    /\ pc = "save_scene"
    /\ SavePhase("scene_finalized", "finalize_generation")

\* A plausible slip: the generation becomes current before the state advances.
FinalizeAndPublish ==
    /\ pc = "finalize_generation" /\ ~Refused
    /\ generations' = generations \cup
            {[id |-> result, parent |-> basis, scene |-> cursor]}
    /\ genStaging' = [genStaging EXCEPT ![result] = "absent"]
    /\ current' = result
    /\ pc' = "save_generation"
    /\ UNCHANGED <<stage, cursor, basis, result, pending, sceneStaging,
                   orphans, scenes, drafts, faults>>

FinalizeGeneration ==
    /\ pc = "finalize_generation" /\ ~Refused
    /\ generations' = generations \cup
            {[id |-> result, parent |-> basis, scene |-> cursor]}
    /\ genStaging' = [genStaging EXCEPT ![result] = "absent"]
    /\ pc' = "save_generation"
    /\ UNCHANGED <<runState, sceneStaging, orphans, scenes, drafts, faults>>

SaveGenerationFinalized ==
    /\ pc = "save_generation"
    /\ SavePhase("generation_finalized", "advance")

\* A plausible slip: current_generation_id is left behind.
AdvanceWithoutGeneration ==
    /\ pc = "advance"
    /\ cursor' = Successor(cursor)
    /\ stage' = IF cursor' = EndOfVolume THEN "volume_handoff" ELSE "drafting"
    /\ result' = None
    /\ pending' = "none"
    /\ pc' = "idle"
    /\ UNCHANGED <<current, basis, staging, finals, drafts, faults>>

\* One replacement publishes the generation and the next target.
Advance ==
    /\ pc = "advance"
    /\ cursor' = Successor(cursor)
    /\ stage' = IF cursor' = EndOfVolume THEN "volume_handoff" ELSE "drafting"
    /\ current' = result
    /\ basis' = result
    /\ result' = None
    /\ pending' = "none"
    /\ pc' = "idle"
    /\ UNCHANGED <<staging, finals, drafts, faults>>
-----------------------------------------------------------------------------
(* execute_scene_commit_recovery                                           *)

Recovers(action) ==
    /\ AtRest
    /\ pending # "none"
    /\ Classify(Inspection) = action

RecoverFinalizeScene ==
    /\ Recovers("finalize_scene")
    /\ SavePhase("prepared", "finalize_scene")

RecoverFinalizeGeneration ==
    /\ Recovers("finalize_generation")
    /\ SavePhase("scene_finalized", "finalize_generation")

RecoverCompleteState ==
    /\ Recovers("complete_state")
    /\ SavePhase("generation_finalized", "advance")

RecoverRebuildGeneration ==
    /\ Recovers("rebuild_generation")
    /\ SavePhase("scene_finalized", "rebuild")

\* A plausible slip: the invalid staging is deleted, not moved to orphans.
DeleteForRebuild ==
    /\ pc = "rebuild" /\ genStaging[result] # "absent"
    /\ genStaging' = [genStaging EXCEPT ![result] = "absent"]
    /\ UNCHANGED <<runState, sceneStaging, orphans, finals, drafts, faults, pc>>

IsolateForRebuild ==
    /\ pc = "rebuild" /\ genStaging[result] # "absent"
    /\ genStaging' = [genStaging EXCEPT ![result] = "absent"]
    /\ orphans' = orphans + 1
    /\ UNCHANGED <<runState, sceneStaging, finals, drafts, faults, pc>>

CreateRebuiltStaging ==
    /\ pc = "rebuild" /\ genStaging[result] = "absent"
    /\ genStaging' = [genStaging EXCEPT ![result] = "partial"]
    /\ pc' = "rebuild_files"
    /\ UNCHANGED <<runState, sceneStaging, orphans, finals, drafts, faults>>

FillRebuiltStaging ==
    /\ pc = "rebuild_files"
    /\ genStaging' = [genStaging EXCEPT ![result] = "complete"]
    /\ pc' = "finalize_generation"
    /\ UNCHANGED <<runState, sceneStaging, orphans, finals, drafts, faults>>

RecoverRestart ==
    /\ Recovers("restart_commit")
    /\ pc' = "restart"
    /\ UNCHANGED <<runState, staging, finals, drafts, faults>>

RestartIsolateScene ==
    /\ pc = "restart"
    /\ SceneStagingCondition = "invalid"
    /\ sceneStaging' = [sceneStaging EXCEPT ![cursor] = "absent"]
    /\ orphans' = orphans + 1
    /\ UNCHANGED <<runState, genStaging, finals, drafts, faults, pc>>

RestartIsolateGeneration ==
    /\ pc = "restart"
    /\ SceneStagingCondition # "invalid"
    /\ genStaging[result] # "absent"
    /\ genStaging' = [genStaging EXCEPT ![result] = "absent"]
    /\ orphans' = orphans + 1
    /\ UNCHANGED <<runState, sceneStaging, finals, drafts, faults, pc>>

RestartCommit ==
    /\ pc = "restart"
    /\ SceneStagingCondition # "invalid"
    /\ genStaging[result] = "absent"
    /\ SavePhase("none", "ensure_staging")
-----------------------------------------------------------------------------
Raise ==
    /\ Refused
    /\ pc' = "raised"
    /\ UNCHANGED <<runState, staging, finals, drafts, faults>>

(***************************************************************************)
(* A write, the sync or the validator raises while a generation staging is *)
(* filled, by the run or by the rebuild: the step removes the directory it *)
(* was filling and ends in that error.  An error of any other write leaves *)
(* the disk as Crash does.                                                 *)
(***************************************************************************)
FillFails ==
    /\ pc \in {"generation_files", "rebuild_files"}
    /\ failures < MaxFailures
    /\ failures' = failures + 1
    /\ genStaging' = [genStaging EXCEPT ![result] = "absent"]
    /\ pc' = "raised"
    /\ UNCHANGED <<runState, sceneStaging, orphans, finals, drafts, crashes,
                   losses>>

\* The process dies: the files stay as they are, the memory is gone.
Crash ==
    /\ pc \in CrashAt
    /\ crashes < MaxCrashes
    /\ crashes' = crashes + 1
    /\ pc' = "idle"
    /\ reserved' = None
    /\ UNCHANGED <<runState, staging, finals, counter, adopted, losses,
                   failures>>

(***************************************************************************)
(* runtime/staging is not synced after mkdir, so a power failure may take  *)
(* a staging directory away, and the workspace layout admits an active     *)
(* scene staging that lacks one of its three frozen files.                 *)
(***************************************************************************)
LoseSceneStaging ==
    /\ AtRest
    /\ stage = "scene_commit"
    /\ losses < MaxLosses
    /\ sceneStaging[cursor] # "absent"
    /\ \E s \in {"absent", "damaged"} :
            sceneStaging' = [sceneStaging EXCEPT ![cursor] = s]
    /\ losses' = losses + 1
    /\ UNCHANGED <<runState, genStaging, orphans, finals, drafts, crashes,
                   failures, pc>>

LoseGenerationStaging ==
    /\ AtRest
    /\ stage = "scene_commit"
    /\ losses < MaxLosses
    /\ genStaging[result] # "absent"
    /\ genStaging' = [genStaging EXCEPT ![result] = "absent"]
    /\ losses' = losses + 1
    /\ UNCHANGED <<runState, sceneStaging, orphans, finals, drafts, crashes,
                   failures, pc>>

\* The volume is written: the next stage, volume_handoff, is another module's.
VolumeWritten ==
    /\ AtRest
    /\ stage = "volume_handoff"
    /\ UNCHANGED vars

Continuity == ReserveGeneration \/ AdoptContinuity

Run ==
    \/ BeginCommit
    \/ KeepSceneStaging \/ IsolateSceneStaging \/ RestoreSceneStaging
    \/ CreateCommitFile \/ FillCommitFile \/ ReuseCommitFile
    \/ CreateGenerationStaging \/ FillGenerationStaging
    \/ ReuseGenerationStaging
    \/ Prepare
    \/ FinalizeScene \/ SaveSceneFinalized
    \/ FinalizeGeneration \/ SaveGenerationFinalized
    \/ Advance

Recover ==
    \/ RecoverFinalizeScene \/ RecoverFinalizeGeneration
    \/ RecoverCompleteState
    \/ RecoverRebuildGeneration \/ IsolateForRebuild
    \/ CreateRebuiltStaging \/ FillRebuiltStaging
    \/ RecoverRestart \/ RestartIsolateScene \/ RestartIsolateGeneration
    \/ RestartCommit

Step == Continuity \/ Run \/ Recover \/ Raise
Environment ==
    FillFails \/ Crash \/ LoseSceneStaging \/ LoseGenerationStaging
Next == Step \/ Environment \/ VolumeWritten

Spec == Init /\ [][Next]_vars

\* The command loop, or the operator after a crash, runs the next step.
FairSpec == Spec /\ WF_vars(Step)
-----------------------------------------------------------------------------
\* A generation is finalized only after the scene it was derived from: no
\* interruption leaves a Story state whose source scene does not exist.
SceneBeforeGeneration ==
    \A g \in generations : g.scene # NoScene =>
        [scene |-> g.scene, result |-> g.id] \in scenes

\* The committed history is linear: every generation but the initial one
\* extends an older one, none is extended twice and no scene is committed
\* twice, whatever the recovery rebuilt or restarted.
LinearHistory ==
    /\ \A g \in generations : g.scene # NoScene =>
            \E p \in generations : p.id = g.parent /\ p.id < g.id
    /\ \A g, h \in generations :
            \/ g = h
            \/ g.id # h.id /\ g.parent # h.parent /\ g.scene # h.scene
    /\ \A r, q \in scenes :
            \/ r = q
            \/ r.scene # q.scene /\ r.result # q.result

\* run-state never runs ahead of the directories it stands for, and never
\* lags behind one without saying so in pending_commit.
StateMatchesDisk ==
    /\ \E g \in generations : g.id = current
    /\ \A g \in generations :
            g.id <= current \/ (g.id = result /\ pending # "none")
    /\ \A s \in Scenes :
            LET committed == \E r \in scenes : r.scene = s IN
            /\ Precedes(s, cursor) => committed
            /\ committed => \/ Precedes(s, cursor)
                            \/ s = cursor /\ pending # "none"
    /\ pending \in {"scene_finalized", "generation_finalized"} =>
            SceneFinalExists
    /\ pending = "generation_finalized" => GenerationFinalExists

\* From the moment "prepared" is on disk no step is refused: every crash
\* point of the commit is classified to an action that goes forward.
PreparedNeverRefused == pending # "none" => ~Refused

\* The one staging a step deletes: the generation it is itself filling, of
\* which nothing was read yet, when a write or the check of it fails.
FillAbandoned(g) ==
    /\ g = result /\ genStaging[g] = "partial"
    /\ pc \in {"generation_files", "rebuild_files"} /\ pc' = "raised"

\* Staging work is finalized or set aside in runtime/orphans: a step deletes
\* no scene staging and no generation staging but its own failed fill, above
\* all none an earlier step left, whole or half written.
StagingNeverDiscarded ==
    [][LET kept == \/ orphans' = orphans + 1
                   \/ finals' # finals
                   \/ losses' = losses + 1
       IN  /\ \A s \in Scenes :
                sceneStaging[s] # "absent" /\ sceneStaging'[s] = "absent"
                    => kept
           /\ \A g \in Generations :
                genStaging[g] # "absent" /\ genStaging'[g] = "absent"
                    => kept \/ FillAbandoned(g)]_vars

\* No step of the stage refuses what it finds on disk but for one of the two
\* writes that are not atomic: commit.json torn, or a generation staging half
\* filled when the process died.  Everything else a crash or a failed fill
\* leaves is resumed or rebuilt by the next step.
RefusedOnlyForTornWrites ==
    Refused => \/ pc = "write_commit" /\ sceneStaging[cursor] = "torn"
               \/ pc = "ensure_generation" /\ genStaging[result] = "partial"

\* The volume is written whatever crashes and failed fills interrupt it,
\* unless a crash fell inside such a write before "prepared".
EventuallyWritten ==
    <>(\/ stage = "volume_handoff"
       \/ /\ AtRest /\ pending = "none"
          /\ \/ sceneStaging[cursor] = "torn"
             \/ result \in DOMAIN genStaging /\ genStaging[result] = "partial")
-----------------------------------------------------------------------------
(* The committed history a reader of run-state sees: the generations up to *)
(* current_generation_id whose source scene is there.                      *)
History ==
    {[scene |-> g.scene, generation |-> g.id, parent |-> g.parent] :
        g \in {x \in generations :
                /\ x.scene # NoScene
                /\ x.id <= current
                /\ [scene |-> x.scene, result |-> x.id] \in scenes}}

Atomic == INSTANCE AtomicSceneCommit WITH
            First <- FirstScene,
            Following <- [s \in Scenes |-> Successor(s)],
            Initial <- InitialGeneration,
            GenerationIds <- Generations,
            history <- History,
            head <- current,
            position <- cursor

\* Every step of the stage, of a crash and of a recovery is a stutter of the
\* atomic commit or the commit itself.
ImplementsAtomicCommit == Atomic!AtomicSpec
=============================================================================
