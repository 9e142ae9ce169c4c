------------------------ MODULE SceneCommitRecovery ------------------------
(***************************************************************************)
(* The side-effect-free classifier of an interrupted scene commit: what    *)
(* classify_scene_commit_recovery decides from one observation of the      *)
(* workspace.  No state here; SceneCommit evaluates it at every restart.   *)
(***************************************************************************)

\* What a directory of the commit looks like to the recovery.
DirectoryCondition == {"absent", "complete", "invalid"}

\* How current_generation_id relates to the ids of the pending commit.
CurrentGenerationRelation == {"parent", "expected", "other"}

Phase == {"prepared", "scene_finalized", "generation_finalized"}

RecoveryAction == {"finalize_scene", "restart_commit", "finalize_generation",
                   "rebuild_generation", "complete_state",
                   "clear_stale_pending", "manual"}

Snapshot == [phase : Phase,
             relation : CurrentGenerationRelation,
             sceneStaging : DirectoryCondition,
             generationStaging : DirectoryCondition,
             sceneFinal : DirectoryCondition,
             generationFinal : DirectoryCondition,
             finalStateMatches : BOOLEAN]

BothFinal(s) == s.sceneFinal = "complete" /\ s.generationFinal = "complete"
BothStaged(s) ==
    s.sceneStaging = "complete" /\ s.generationStaging = "complete"

(***************************************************************************)
(* A final directory that fails its contract, or a generation that was     *)
(* finalized ahead of its scene, is never touched.                         *)
(***************************************************************************)
FinalsContradict(s) ==
    \/ "invalid" \in {s.sceneFinal, s.generationFinal}
    \/ s.generationFinal = "complete" /\ s.sceneFinal # "complete"

\* A plausible slip: the phase is trusted instead of the directories.
ClassifyByPhase(s) ==
    IF FinalsContradict(s) \/ s.relation # "parent" THEN "manual"
    ELSE IF s.phase = "prepared" THEN "finalize_scene"
    ELSE IF s.phase = "scene_finalized" THEN "finalize_generation"
    ELSE "complete_state"

Classify(s) ==
    IF FinalsContradict(s) \/ s.relation = "other" THEN "manual"
    ELSE IF s.relation = "expected"
         THEN IF BothFinal(s) /\ s.finalStateMatches
              THEN "clear_stale_pending" ELSE "manual"
    ELSE IF BothFinal(s) THEN "complete_state"
    ELSE IF s.sceneFinal = "complete"
         THEN IF s.generationStaging = "complete"
              THEN "finalize_generation" ELSE "rebuild_generation"
    ELSE IF BothStaged(s) THEN "finalize_scene" ELSE "restart_commit"
=============================================================================
