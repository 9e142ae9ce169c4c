------------------------- MODULE SceneCommit_proofs -------------------------
(***************************************************************************)
(* Theorems about SceneCommit for every volume plan, every crash set and   *)
(* every bound.  The properties are not inductive: they hold because the   *)
(* control point, the saved phase and the directories agree, which         *)
(* Inductive states part by part.                                          *)
(***************************************************************************)
EXTENDS SceneCommit, TLAPS

SceneRecorded == [scene |-> cursor, result |-> result] \in scenes
GenerationRecorded ==
    [id |-> result, parent |-> basis, scene |-> cursor] \in generations

\* The labels before "prepared" is saved, and those of each saved phase.
Unprepared == {"continuity", "ensure_staging", "write_commit", "commit_file",
               "ensure_generation", "generation_files", "prepare"}
WhilePrepared == {"finalize_scene", "save_scene"}
WhileSceneFinalized == {"finalize_generation", "save_generation", "rebuild",
                        "rebuild_files"}

\* The control point, the stage and the saved phase agree.
Control ==
    /\ pc \in Labels \ {"continuity"} => stage = "scene_commit"
    /\ pc = "continuity" => stage = "drafting" /\ reserved \in Generations
    /\ pc \in Unprepared => pending = "none"
    /\ pc \in WhilePrepared => pending = "prepared"
    /\ pc \in WhileSceneFinalized => pending = "scene_finalized"
    /\ pc = "advance" => pending = "generation_finalized"
    /\ pc = "restart" => pending # "none"
    /\ stage # "scene_commit" => pending = "none"

\* The target of the stage: its scene, its basis and its reserved result.
Target ==
    /\ basis = current
    /\ current <= counter
    /\ stage # "volume_handoff" => cursor \in Scenes
    /\ pc = "continuity" => current < reserved /\ reserved <= counter
    /\ stage = "scene_commit" =>
        /\ result \in Generations
        /\ adopted[cursor] = result
        /\ current < result /\ result <= counter

\* The committed scenes are those before the cursor, and while a commit is
\* pending perhaps the scene at the cursor under the pending result id.
Shelf ==
    /\ \A r \in scenes :
        \/ Precedes(r.scene, cursor) /\ r.result <= current
        \/ r.scene = cursor /\ r.result = result /\ pending # "none"
    /\ \A s \in Scenes :
        Precedes(s, cursor) => \E r \in scenes : r.scene = s
    /\ \A r, q \in scenes :
        r = q \/ (r.scene # q.scene /\ r.result # q.result)
    /\ pending \in {"scene_finalized", "generation_finalized"} => SceneRecorded

\* The generations are those up to the current one, and while a commit is
\* pending perhaps the one derived from the finalized scene at the cursor.
Lineage ==
    /\ \E g \in generations : g.id = current
    /\ \A g \in generations :
        \/ g.id <= current
        \/ g.id = result /\ GenerationRecorded /\ SceneRecorded
                         /\ pending # "none"
    /\ \A g \in generations :
        \/ g.scene = NoScene /\ g.parent = None
        \/ /\ [scene |-> g.scene, result |-> g.id] \in scenes
           /\ \E p \in generations : p.id = g.parent /\ p.id < g.id
    /\ \A g, h \in generations :
        g = h \/ (g.id # h.id /\ g.parent # h.parent /\ g.scene # h.scene)
    /\ pending = "generation_finalized" => GenerationRecorded

\* What the step has established by the time it reaches a label.
Progress ==
    /\ pc \in {"ensure_generation", "generation_files", "prepare"} =>
        sceneStaging[cursor] = "complete"
    /\ pc = "prepare" => genStaging[result] = "complete"
    /\ pc \in {"generation_files", "rebuild_files"} =>
        genStaging[result] = "partial"
    /\ pc \in {"finalize_scene", "restart"} =>
        ~SceneFinalExists /\ ~GenerationFinalExists
    /\ pc = "finalize_scene" => sceneStaging[cursor] = "complete"
    /\ pc \in {"finalize_scene", "save_scene", "finalize_generation"} =>
        genStaging[result] = "complete"
    /\ pc \in {"save_scene", "finalize_generation", "rebuild",
               "rebuild_files"} => SceneRecorded /\ ~GenerationFinalExists
    /\ pc \in {"save_generation", "advance"} =>
        SceneRecorded /\ GenerationRecorded

\* The inductive invariant.
Inductive ==
    TypeOK /\ Control /\ Target /\ Shelf /\ Lineage /\ Progress
-----------------------------------------------------------------------------
(* The reading order of the scenes.                                        *)

\* A scene is a pair of a chapter and a position in that chapter.
LEMMA ScenePairs ==
    /\ \A s \in Scenes : /\ s = <<s[1], s[2]>>
                         /\ s[1] \in 1 .. Chapters
                         /\ s[2] \in 1 .. SceneCount[s[1]]
    /\ \A c \in 1 .. Chapters, n \in Nat :
            n \in 1 .. SceneCount[c] => <<c, n>> \in Scenes
    /\ NoScene \notin Scenes
    /\ EndOfVolume \notin Scenes
  BY PlanAssumption DEF Scenes, NoScene, EndOfVolume

\* The first target is a scene: a chapter plan lists at least one.
LEMMA FirstIsScene == FirstScene \in Scenes
  BY PlanAssumption, ScenePairs DEF FirstScene

\* The next target follows the scene just committed with nothing in between.
LEMMA SuccessorOrder ==
    ASSUME NEW s \in Scenes
    PROVE  /\ Successor(s) \in Scenes \cup {EndOfVolume}
           /\ ~Precedes(s, s)
           /\ \A t \in Scenes :
                Precedes(t, Successor(s)) <=> Precedes(t, s) \/ t = s
<1> DEFINE c == s[1]
           n == s[2]
<1>1. c \in 1 .. Chapters /\ n \in 1 .. SceneCount[c] /\ s = <<c, n>>
  BY ScenePairs
<1>2. SceneCount[c] \in Nat \ {0} /\ Chapters \in Nat \ {0}
  BY <1>1, PlanAssumption
<1>3. Successor(s) \in Scenes \cup {EndOfVolume}
  <2>1. CASE n < SceneCount[c]
    BY <1>1, <1>2, <2>1, ScenePairs DEF Successor
  <2>2. CASE n >= SceneCount[c] /\ c < Chapters
    <3>1. SceneCount[c + 1] \in Nat \ {0} /\ c + 1 \in 1 .. Chapters
      BY <1>1, <1>2, <2>2, PlanAssumption
    <3> QED  BY <1>1, <1>2, <2>2, <3>1, ScenePairs DEF Successor
  <2>3. CASE n >= SceneCount[c] /\ c = Chapters
    BY <1>1, <1>2, <2>3 DEF Successor, EndOfVolume
  <2> QED  BY <1>1, <1>2, <2>1, <2>2, <2>3
<1>4. ~Precedes(s, s)
  BY <1>1, <1>2 DEF Precedes
<1>5. ASSUME NEW t \in Scenes
      PROVE  Precedes(t, Successor(s)) <=> Precedes(t, s) \/ t = s
  <2>1. /\ t[1] \in 1 .. Chapters /\ t[2] \in 1 .. SceneCount[t[1]]
        /\ t = <<t[1], t[2]>>
    BY ScenePairs
  <2>2. SceneCount[t[1]] \in Nat \ {0}
    BY <2>1, PlanAssumption
  <2> QED  BY <1>1, <1>2, <2>1, <2>2 DEF Successor, Precedes
<1> QED  BY <1>3, <1>4, <1>5
-----------------------------------------------------------------------------
(* The invariant holds initially and every action preserves it.  A quiet   *)
(* action touches neither the saved state nor the final directories.       *)

\* The volume starts with its first generation and no scene.
LEMMA InitInductive == Init => Inductive
<1> SUFFICES ASSUME Init PROVE Inductive
  OBVIOUS
<1>1. InitialGeneration \in Generations
  BY BoundAssumption DEF InitialGeneration, Generations
<1>2. TypeOK
  BY <1>1, FirstIsScene DEF Init, TypeOK, GenerationRecord,
     SceneStagingState, GenerationStagingState, NoScene
<1>3. Control /\ Progress
  BY DEF Init, Control, Progress, Labels, Unprepared, WhilePrepared,
     WhileSceneFinalized
<1>4. Target
  BY FirstIsScene DEF Init, Target, InitialGeneration
<1>5. Shelf
  <2>1. ASSUME NEW s \in Scenes PROVE ~Precedes(s, FirstScene)
    BY ScenePairs, PlanAssumption DEF Precedes, FirstScene
  <2> QED  BY <2>1 DEF Init, Shelf
<1>6. Lineage
  BY DEF Init, Lineage, InitialGeneration
<1> QED  BY <1>2, <1>3, <1>4, <1>5, <1>6 DEF Inductive

\* What is final stays sound as long as neither run-state nor the final
\* directories change.
LEMMA QuietDisk ==
    ASSUME Shelf, Lineage, UNCHANGED <<runState, finals>>
    PROVE  Shelf' /\ Lineage'
  BY DEF Shelf, Lineage, SceneRecorded, GenerationRecorded, runState, finals

\* The continuity stage reserves the result id and hands the scene to its commit.
LEMMA ContinuityPreserves ==
    ASSUME Inductive, Continuity PROVE Inductive'
<1> USE DEF Inductive, InitialGeneration, Generations
<1>1. CASE ReserveGeneration
  <2>1. TypeOK'
    BY <1>1, BoundAssumption DEF ReserveGeneration, TypeOK, runState, staging, finals,
       faults, Labels
  <2>2. Control'
    BY <1>1, BoundAssumption DEF ReserveGeneration, Control, TypeOK, runState, AtRest,
       Labels, Unprepared, WhilePrepared, WhileSceneFinalized
  <2>3. Target'
    BY <1>1, BoundAssumption DEF ReserveGeneration, Target, TypeOK, runState
  <2>4. Shelf' /\ Lineage'
    BY <1>1, QuietDisk DEF ReserveGeneration
  <2>5. Progress'
    BY <1>1 DEF ReserveGeneration, Progress
  <2> QED  BY <2>1, <2>2, <2>3, <2>4, <2>5
<1>2. CASE AdoptContinuity
  <2>1. TypeOK'
    BY <1>2, BoundAssumption DEF AdoptContinuity, TypeOK, Control, finals,
       faults, Labels, SceneStagingState
  <2>2. Control'
    BY <1>2 DEF AdoptContinuity, Control, Labels, Unprepared, WhilePrepared,
       WhileSceneFinalized
  <2>3. Target'
    BY <1>2, BoundAssumption DEF AdoptContinuity, Target, Control, TypeOK
  <2>4. pending = "none" /\ pending' = "none"
    BY <1>2 DEF AdoptContinuity, Control
  <2>5. Shelf'
    BY <1>2, <2>4 DEF AdoptContinuity, Shelf, finals
  <2>6. Lineage'
    BY <1>2, <2>4 DEF AdoptContinuity, Lineage, finals
  <2>7. Progress'
    BY <1>2 DEF AdoptContinuity, Progress
  <2> QED  BY <2>1, <2>2, <2>3, <2>5, <2>6, <2>7
<1> QED  BY <1>1, <1>2 DEF Continuity

\* What a quiet step needs: the saved state and the finals stay, pc moves.
Quiet == UNCHANGED <<runState, finals, counter, adopted>>

\* A quiet step keeps the invariant if it keeps what is said of its label.
LEMMA QuietPreserves ==
    ASSUME Inductive, Quiet, TypeOK', Control', Progress',
           pc' # "continuity"
    PROVE  Inductive'
<1>1. Target'
  BY DEF Inductive, Target, Quiet, runState
<1>2. Shelf' /\ Lineage'
  BY QuietDisk DEF Inductive, Quiet
<1> QED  BY <1>1, <1>2 DEF Inductive

\* The actions that fill the staging directories before "prepared".
Fills ==
    \/ BeginCommit
    \/ KeepSceneStaging \/ IsolateSceneStaging \/ RestoreSceneStaging
    \/ CreateCommitFile \/ FillCommitFile \/ ReuseCommitFile
    \/ CreateGenerationStaging \/ FillGenerationStaging
    \/ ReuseGenerationStaging

\* So do the actions that fill the staging directories.
LEMMA FillsPreserve == ASSUME Inductive, Fills PROVE Inductive'
<1> USE DEF Inductive, BeginCommit, KeepSceneStaging, IsolateSceneStaging,
        RestoreSceneStaging, CreateCommitFile, FillCommitFile,
        ReuseCommitFile, CreateGenerationStaging, FillGenerationStaging,
        ReuseGenerationStaging
<1>1. Quiet /\ pc' # "continuity"
  BY DEF Fills, Quiet, drafts
<1>2. TypeOK'
  BY DEF Fills, TypeOK, runState, staging, finals, drafts, faults, Labels,
     SceneStagingState, GenerationStagingState
<1>3. Control'
  BY DEF Fills, Control, AtRest, runState, drafts, Labels, Unprepared,
     WhilePrepared, WhileSceneFinalized
<1>4. Progress'
  <2>1. pc \in Labels \ {"continuity"} =>
            cursor \in Scenes /\ result \in Generations
    BY DEF Control, Target
  <2>2. /\ sceneStaging \in [Scenes -> SceneStagingState]
        /\ genStaging \in [Generations -> GenerationStagingState]
    BY DEF TypeOK
  <2> QED  BY <2>1, <2>2 DEF Fills, Progress, runState, staging, Labels
<1> QED  BY <1>1, <1>2, <1>3, <1>4, QuietPreserves

\* While a commit is pending a final directory is absent or contract-true,
\* and the generation is never there without its scene.
LEMMA FinalsAreSound ==
    ASSUME Inductive, pending # "none"
    PROVE  /\ SceneFinalExists <=> SceneRecorded
           /\ GenerationFinalExists <=> GenerationRecorded
           /\ GenerationRecorded => SceneRecorded
<1> USE DEF Inductive
<1>1. /\ stage = "scene_commit" /\ cursor \in Scenes
      /\ current < result /\ result \in Nat /\ current \in Nat
  BY DEF Control, Target, TypeOK, Generations, InitialGeneration
<1>2. ~Precedes(cursor, cursor)
  BY <1>1, SuccessorOrder
<1>3. SceneFinalExists <=> SceneRecorded
  <2>1. ASSUME NEW r \in scenes, r.scene = cursor PROVE SceneRecorded
    <3>1. r.result = result
      BY <1>2, <2>1 DEF Shelf
    <3>2. r = [scene |-> r.scene, result |-> r.result]
      BY DEF TypeOK, SceneRecord
    <3> QED  BY <2>1, <3>1, <3>2 DEF SceneRecorded
  <2> QED  BY <2>1 DEF SceneFinalExists, SceneRecorded
<1>4. GenerationFinalExists <=> GenerationRecorded
  BY <1>1 DEF Lineage, GenerationFinalExists, GenerationRecorded
<1>5. GenerationRecorded => SceneRecorded
  BY <1>1 DEF Lineage, GenerationRecorded
<1> QED  BY <1>3, <1>4, <1>5

\* What the classifier's verdict says about the disk, verdict by verdict.
LEMMA VerdictsAreSound ==
    ASSUME Inductive, pending # "none"
    PROVE  LET verdict == Classify(Inspection) IN
           /\ verdict \notin {"manual", "clear_stale_pending"}
           /\ verdict \in {"finalize_scene", "restart_commit"} =>
                ~SceneFinalExists /\ ~GenerationFinalExists
           /\ verdict = "finalize_scene" =>
                /\ sceneStaging[cursor] = "complete"
                /\ genStaging[result] = "complete"
           /\ verdict \in {"finalize_generation", "rebuild_generation"} =>
                SceneRecorded /\ ~GenerationFinalExists
           /\ verdict = "finalize_generation" =>
                genStaging[result] = "complete"
           /\ verdict = "complete_state" => SceneRecorded /\ GenerationRecorded
<1>1. basis = current
  BY DEF Inductive, Target
<1>2. SceneFinalCondition = IF SceneRecorded THEN "complete" ELSE "absent"
  BY FinalsAreSound DEF SceneFinalCondition, SceneRecorded
<1>3. GenerationFinalCondition =
        IF GenerationRecorded THEN "complete" ELSE "absent"
  BY <1>2, FinalsAreSound DEF GenerationFinalCondition, GenerationRecorded,
     CanonicalScene
<1>4. /\ SceneStagingCondition = "complete"
            => sceneStaging[cursor] = "complete"
      /\ GenerationStagingCondition = "complete"
            => genStaging[result] = "complete"
  BY DEF SceneStagingCondition, GenerationStagingCondition
<1> QED
  BY <1>1, <1>2, <1>3, <1>4, FinalsAreSound DEF Classify, Inspection,
     FinalsContradict, BothFinal, BothStaged

\* Saving a phase keeps the invariant when the directories bear it out.
LEMMA SavePhasePreserves ==
    ASSUME Inductive, NEW phase \in Phase \cup {"none"},
           NEW next \in Labels \ {"continuity"},
           SavePhase(phase, next), Control', Progress',
           stage = "scene_commit",
           phase = "none" => ~SceneFinalExists /\ ~GenerationFinalExists,
           phase \in {"scene_finalized", "generation_finalized"}
                => SceneRecorded,
           phase = "generation_finalized" => GenerationRecorded
    PROVE  Inductive'
<1> USE DEF Inductive, SavePhase
<1>1. TypeOK'
  BY DEF TypeOK, staging, finals, drafts, faults
<1>2. Target'
  BY DEF Target, staging, finals, drafts
<1>3. Shelf'
  BY DEF Shelf, SceneRecorded, SceneFinalExists, finals
<1>4. Lineage'
  <2>1. \A g \in generations : g.id = result /\ current < result =>
            phase # "none"
    BY DEF GenerationFinalExists
  <2>2. current < result /\ current \in Nat /\ result \in Nat
    BY DEF Target, TypeOK, Generations, InitialGeneration
  <2> QED  BY <2>1, <2>2 DEF Lineage, SceneRecorded, GenerationRecorded, finals, TypeOK,
              GenerationRecord, Generations, InitialGeneration
<1> QED  BY <1>1, <1>2, <1>3, <1>4

\* Every save of the run and of the recovery finds the directories it names.
LEMMA SavesPreserve ==
    ASSUME Inductive,
           \/ Prepare \/ SaveSceneFinalized \/ SaveGenerationFinalized
           \/ RecoverFinalizeScene \/ RecoverFinalizeGeneration
           \/ RecoverCompleteState \/ RecoverRebuildGeneration
           \/ RestartCommit
    PROVE  Inductive'
<1> USE DEF Inductive, Labels, Phase, Unprepared, WhilePrepared,
        WhileSceneFinalized
<1>1. CASE Prepare
  <2>1. stage = "scene_commit" /\ pending = "none"
    BY <1>1 DEF Prepare, Control
  <2>2. current < result /\ current \in Nat /\ result \in Nat
    BY <2>1 DEF Target, TypeOK, Generations, InitialGeneration
  <2>3. ~SceneFinalExists /\ ~GenerationFinalExists
    <3>1. ~Precedes(cursor, cursor)
      BY <2>1, SuccessorOrder DEF Target
    <3> QED  BY <2>1, <2>2, <3>1 DEF Shelf, Lineage, SceneFinalExists,
                GenerationFinalExists
  <2>4. SavePhase("prepared", "finalize_scene")
    BY <1>1 DEF Prepare
  <2>5. Control'
    BY <2>1, <2>4 DEF SavePhase, Control
  <2>6. Progress'
    BY <1>1, <2>3, <2>4 DEF Prepare, Refused, SavePhase, Progress, staging,
       finals, SceneFinalExists, GenerationFinalExists
  <2> QED  BY <2>1, <2>4, <2>5, <2>6, SavePhasePreserves
<1>2. CASE SaveSceneFinalized
  <2>1. stage = "scene_commit"
    BY <1>2 DEF SaveSceneFinalized, Control
  <2>2. SavePhase("scene_finalized", "finalize_generation")
    BY <1>2 DEF SaveSceneFinalized
  <2>3. Control'
    BY <2>1, <2>2 DEF SavePhase, Control
  <2>4. Progress'
    BY <1>2, <2>2 DEF SaveSceneFinalized, SavePhase, Progress, staging,
       finals, GenerationFinalExists, SceneRecorded
  <2>5. SceneRecorded
    BY <1>2 DEF SaveSceneFinalized, Progress
  <2> QED  BY <2>1, <2>2, <2>3, <2>4, <2>5, SavePhasePreserves
<1>3. CASE SaveGenerationFinalized
  <2>1. stage = "scene_commit"
    BY <1>3 DEF SaveGenerationFinalized, Control
  <2>2. SavePhase("generation_finalized", "advance")
    BY <1>3 DEF SaveGenerationFinalized
  <2>3. Control'
    BY <2>1, <2>2 DEF SavePhase, Control
  <2>4. SceneRecorded /\ GenerationRecorded
    BY <1>3 DEF SaveGenerationFinalized, Progress
  <2>5. Progress'
    BY <2>2, <2>4 DEF SavePhase, Progress, finals, SceneRecorded,
       GenerationRecorded
  <2> QED  BY <2>1, <2>2, <2>3, <2>4, <2>5, SavePhasePreserves
<1>4. CASE RecoverFinalizeScene
  <2>1. pending # "none" /\ stage = "scene_commit"
    BY <1>4 DEF RecoverFinalizeScene, Recovers, Control
  <2>2. /\ ~SceneFinalExists /\ ~GenerationFinalExists
        /\ sceneStaging[cursor] = "complete"
        /\ genStaging[result] = "complete"
    BY <1>4, <2>1, VerdictsAreSound DEF RecoverFinalizeScene, Recovers
  <2>3. SavePhase("prepared", "finalize_scene")
    BY <1>4 DEF RecoverFinalizeScene
  <2>4. Control'
    BY <2>1, <2>3 DEF SavePhase, Control
  <2>5. Progress'
    BY <2>2, <2>3 DEF SavePhase, Progress, staging, finals,
       SceneFinalExists, GenerationFinalExists
  <2> QED  BY <2>1, <2>3, <2>4, <2>5, SavePhasePreserves
<1>5. CASE RecoverFinalizeGeneration
  <2>1. pending # "none" /\ stage = "scene_commit"
    BY <1>5 DEF RecoverFinalizeGeneration, Recovers, Control
  <2>2. /\ SceneRecorded /\ ~GenerationFinalExists
        /\ genStaging[result] = "complete"
    BY <1>5, <2>1, VerdictsAreSound DEF RecoverFinalizeGeneration, Recovers
  <2>3. SavePhase("scene_finalized", "finalize_generation")
    BY <1>5 DEF RecoverFinalizeGeneration
  <2>4. Control'
    BY <2>1, <2>3 DEF SavePhase, Control
  <2>5. Progress'
    BY <2>2, <2>3 DEF SavePhase, Progress, staging, finals, SceneRecorded,
       GenerationFinalExists
  <2> QED  BY <2>1, <2>2, <2>3, <2>4, <2>5, SavePhasePreserves
<1>6. CASE RecoverCompleteState
  <2>1. pending # "none" /\ stage = "scene_commit"
    BY <1>6 DEF RecoverCompleteState, Recovers, Control
  <2>2. SceneRecorded /\ GenerationRecorded
    BY <1>6, <2>1, VerdictsAreSound DEF RecoverCompleteState, Recovers
  <2>3. SavePhase("generation_finalized", "advance")
    BY <1>6 DEF RecoverCompleteState
  <2>4. Control'
    BY <2>1, <2>3 DEF SavePhase, Control
  <2>5. Progress'
    BY <2>2, <2>3 DEF SavePhase, Progress, finals, SceneRecorded,
       GenerationRecorded
  <2> QED  BY <2>1, <2>2, <2>3, <2>4, <2>5, SavePhasePreserves
<1>7. CASE RecoverRebuildGeneration
  <2>1. pending # "none" /\ stage = "scene_commit"
    BY <1>7 DEF RecoverRebuildGeneration, Recovers, Control
  <2>2. SceneRecorded /\ ~GenerationFinalExists
    BY <1>7, <2>1, VerdictsAreSound DEF RecoverRebuildGeneration, Recovers
  <2>3. SavePhase("scene_finalized", "rebuild")
    BY <1>7 DEF RecoverRebuildGeneration
  <2>4. Control'
    BY <2>1, <2>3 DEF SavePhase, Control
  <2>5. Progress'
    BY <2>2, <2>3 DEF SavePhase, Progress, finals, SceneRecorded,
       GenerationFinalExists
  <2> QED  BY <2>1, <2>2, <2>3, <2>4, <2>5, SavePhasePreserves
<1>8. CASE RestartCommit
  <2>1. stage = "scene_commit" /\ ~SceneFinalExists /\ ~GenerationFinalExists
    BY <1>8 DEF RestartCommit, Control, Progress
  <2>2. SavePhase("none", "ensure_staging")
    BY <1>8 DEF RestartCommit
  <2>3. Control'
    BY <2>1, <2>2 DEF SavePhase, Control
  <2>4. Progress'
    BY <2>2 DEF SavePhase, Progress
  <2> QED  BY <2>1, <2>2, <2>3, <2>4, SavePhasePreserves
<1> QED  BY <1>1, <1>2, <1>3, <1>4, <1>5, <1>6, <1>7, <1>8

\* The scene directory appears under the reserved result id, once.
LEMMA FinalizeScenePreserves ==
    ASSUME Inductive, FinalizeScene PROVE Inductive'
<1> USE DEF Inductive, FinalizeScene, runState
<1>1. /\ stage = "scene_commit" /\ pending = "prepared"
      /\ cursor \in Scenes /\ result \in Generations
      /\ current < result /\ current \in Nat /\ result \in Nat
  BY DEF Control, Target, TypeOK, Labels, WhilePrepared, Generations,
     InitialGeneration
<1>2. ~SceneFinalExists /\ ~GenerationFinalExists
  BY DEF Progress
<1>3. /\ scenes' = scenes \cup {[scene |-> cursor, result |-> result]}
      /\ UNCHANGED <<generations, cursor, result, current, basis, pending>>
  OBVIOUS
<1>4. TypeOK'
  BY <1>1 DEF TypeOK, Labels, SceneRecord, SceneStagingState, drafts, faults
<1>5. Control' /\ Target'
  BY <1>1 DEF Control, Target, Labels, Unprepared, WhilePrepared,
     WhileSceneFinalized, drafts
<1>6. Shelf'
  <2>1. \A r \in scenes :
            /\ Precedes(r.scene, cursor) /\ r.result <= current
            /\ r.scene # cursor /\ r.result # result
    BY <1>1, <1>2 DEF Shelf, SceneFinalExists, TypeOK, SceneRecord,
       Generations, InitialGeneration
  <2>2. ~Precedes(cursor, cursor)
    BY <1>1, SuccessorOrder
  <2> QED  BY <1>1, <1>3, <2>1, <2>2 DEF Shelf, SceneRecorded
<1>7. Lineage'
  BY <1>1, <1>2, <1>3 DEF Lineage, GenerationFinalExists, SceneRecorded,
     GenerationRecorded
<1>8. Progress'
  BY <1>2, <1>3 DEF Progress, SceneRecorded, GenerationFinalExists
<1> QED  BY <1>4, <1>5, <1>6, <1>7, <1>8

\* The generation directory appears above the current one, after its scene.
LEMMA FinalizeGenerationPreserves ==
    ASSUME Inductive, FinalizeGeneration PROVE Inductive'
<1> USE DEF Inductive, FinalizeGeneration, runState
<1> DEFINE new == [id |-> result, parent |-> basis, scene |-> cursor]
<1>1. /\ stage = "scene_commit" /\ pending = "scene_finalized"
      /\ cursor \in Scenes /\ result \in Generations /\ basis = current
      /\ current < result /\ current \in Nat /\ result \in Nat
      /\ current \in Generations
  BY DEF Control, Target, TypeOK, Labels, WhileSceneFinalized, Generations,
     InitialGeneration
<1>2. SceneRecorded /\ ~GenerationFinalExists
  BY DEF Progress
<1>3. /\ generations' = generations \cup {new}
      /\ UNCHANGED <<scenes, cursor, result, current, basis, pending>>
  OBVIOUS
<1>4. TypeOK'
  BY <1>1 DEF TypeOK, Labels, GenerationRecord, GenerationStagingState,
     drafts, faults
<1>5. Control' /\ Target'
  BY <1>1 DEF Control, Target, Labels, Unprepared, WhilePrepared,
     WhileSceneFinalized, drafts
<1>6. Shelf'
  BY <1>3 DEF Shelf, SceneRecorded
<1>7. Lineage'
  <2>1. \A g \in generations :
            /\ g.id \in Nat /\ g.id <= current /\ g.id # result
    BY <1>2 DEF Lineage, GenerationFinalExists, TypeOK, GenerationRecord,
       Generations, InitialGeneration
  <2>2. ASSUME NEW g \in generations
        PROVE  g.parent # basis /\ g.scene # cursor
    <3>1. CASE g.scene = NoScene /\ g.parent = None
      BY <1>1, <3>1, ScenePairs DEF None, Generations, InitialGeneration
    <3>2. CASE /\ [scene |-> g.scene, result |-> g.id] \in scenes
               /\ \E p \in generations : p.id = g.parent /\ p.id < g.id
      <4>1. g.parent < current
        BY <1>1, <2>1, <3>2
      <4>2. g.scene # cursor
        BY <1>2, <2>1, <3>2 DEF Shelf, SceneRecorded
      <4> QED  BY <1>1, <4>1, <4>2
    <3> QED  BY <3>1, <3>2 DEF Lineage
  <2>3. \E p \in generations : p.id = new.parent /\ p.id < new.id
    BY <1>1 DEF Lineage
  <2>4. SceneRecorded' /\ GenerationRecorded'
    BY <1>2, <1>3 DEF SceneRecorded, GenerationRecorded
  <2>5. \A g \in generations' :
            \/ g.id <= current'
            \/ /\ g.id = result' /\ GenerationRecorded' /\ SceneRecorded'
               /\ pending' # "none"
    BY <1>1, <1>3, <2>1, <2>4
  <2>6. \A g \in generations' :
            \/ g.scene = NoScene /\ g.parent = None
            \/ /\ [scene |-> g.scene, result |-> g.id] \in scenes'
               /\ \E p \in generations' : p.id = g.parent /\ p.id < g.id
    <3>1. [scene |-> new.scene, result |-> new.id] \in scenes'
      BY <1>2, <1>3 DEF SceneRecorded
    <3>2. \E p \in generations' : p.id = new.parent /\ p.id < new.id
      BY <1>3, <2>3
    <3>3. ASSUME NEW g \in generations
          PROVE  \/ g.scene = NoScene /\ g.parent = None
                 \/ /\ [scene |-> g.scene, result |-> g.id] \in scenes'
                    /\ \E p \in generations' : p.id = g.parent /\ p.id < g.id
      BY <1>3 DEF Lineage
    <3> HIDE DEF new
    <3> QED  BY <1>3, <3>1, <3>2, <3>3
  <2>7. \A g, h \in generations' :
            g = h \/ (g.id # h.id /\ g.parent # h.parent /\ g.scene # h.scene)
    BY <1>3, <2>1, <2>2 DEF Lineage
  <2>8. \E g \in generations' : g.id = current'
    BY <1>3 DEF Lineage
  <2> QED  BY <1>1, <2>4, <2>5, <2>6, <2>7, <2>8 DEF Lineage
<1>8. Progress'
  BY <1>2, <1>3 DEF Progress, SceneRecorded, GenerationRecorded
<1> QED  BY <1>4, <1>5, <1>6, <1>7, <1>8

\* One replacement of run-state takes the finished scene into the history.
LEMMA AdvancePreserves ==
    ASSUME Inductive, Advance PROVE Inductive'
<1> USE DEF Inductive, Advance
<1>1. /\ stage = "scene_commit" /\ cursor \in Scenes
      /\ result \in Generations /\ current < result /\ result <= counter
      /\ current \in Nat /\ result \in Nat
      /\ SceneRecorded /\ GenerationRecorded
  BY DEF Control, Target, Progress, TypeOK, Labels, Generations,
     InitialGeneration
<1>2. /\ cursor' \in Scenes \cup {EndOfVolume}
      /\ ~Precedes(cursor, cursor)
      /\ \A t \in Scenes :
            Precedes(t, cursor') <=> Precedes(t, cursor) \/ t = cursor
  BY <1>1, SuccessorOrder
<1>3. UNCHANGED <<scenes, generations, counter>>
  BY DEF finals, drafts
<1>4. TypeOK'
  BY <1>1, <1>2 DEF TypeOK, staging, finals, drafts, faults
<1>5. Control'
  BY DEF Control, Labels, Unprepared, WhilePrepared, WhileSceneFinalized
<1>6. Target'
  BY <1>1, <1>2, <1>3 DEF Target
<1>7. Shelf'
  <2>1. \A r \in scenes : r.scene \in Scenes /\ r.result \in Nat
    BY DEF TypeOK, SceneRecord, Generations, InitialGeneration
  <2>2. \A r \in scenes' : Precedes(r.scene, cursor') /\ r.result <= current'
    BY <1>1, <1>2, <1>3, <2>1 DEF Shelf
  <2>3. \A s \in Scenes :
            Precedes(s, cursor') => \E r \in scenes' : r.scene = s
    BY <1>1, <1>2, <1>3 DEF Shelf, SceneRecorded
  <2> QED  BY <1>3, <2>2, <2>3 DEF Shelf
<1>8. Lineage'
  <2>1. \A g \in generations' : g.id <= current'
    BY <1>1, <1>3 DEF Lineage, TypeOK, GenerationRecord, Generations,
       InitialGeneration
  <2>2. \E g \in generations' : g.id = current'
    BY <1>1, <1>3 DEF GenerationRecorded
  <2> QED  BY <1>3, <2>1, <2>2 DEF Lineage
<1>9. Progress'
  BY DEF Progress
<1> QED  BY <1>4, <1>5, <1>6, <1>7, <1>8, <1>9

\* Rebuilding, restarting and setting aside only move staging directories.
LEMMA RebuildPreserves ==
    ASSUME Inductive,
           \/ IsolateForRebuild \/ CreateRebuiltStaging \/ FillRebuiltStaging
           \/ RecoverRestart
           \/ RestartIsolateScene \/ RestartIsolateGeneration
    PROVE  Inductive'
<1> USE DEF Inductive, IsolateForRebuild, CreateRebuiltStaging,
        FillRebuiltStaging, RecoverRestart, RestartIsolateScene,
        RestartIsolateGeneration
<1>1. Quiet /\ pc' # "continuity"
  BY DEF Quiet, drafts
<1>2. TypeOK'
  BY DEF TypeOK, runState, staging, finals, drafts, faults, Labels,
     SceneStagingState, GenerationStagingState
<1>3. Control'
  BY DEF Control, Recovers, runState, drafts, Labels, Unprepared,
     WhilePrepared, WhileSceneFinalized
<1>4. Progress'
  <2>1. CASE RecoverRestart
    <3>1. ~SceneFinalExists /\ ~GenerationFinalExists
      BY <2>1, VerdictsAreSound DEF Recovers
    <3> QED  BY <2>1, <3>1 DEF Progress, runState, finals,
                SceneFinalExists, GenerationFinalExists
  <2>2. CASE IsolateForRebuild \/ CreateRebuiltStaging \/ FillRebuiltStaging
    <3>1. SceneRecorded' /\ ~GenerationFinalExists'
      BY <2>2 DEF Progress, runState, finals, SceneRecorded,
         GenerationFinalExists
    <3>2. pc' = "finalize_generation" => genStaging'[result'] = "complete"
      <4>1. CASE FillRebuiltStaging
        <5>1. result \in Generations
          BY <4>1 DEF Control, Target, Labels
        <5> QED  BY <4>1, <5>1 DEF TypeOK, runState
      <4> QED  BY <2>2, <4>1
    <3>3. pc' = "rebuild_files" => genStaging'[result'] = "partial"
      <4>1. CASE CreateRebuiltStaging
        <5>1. result \in Generations
          BY <4>1 DEF Control, Target, Labels
        <5> QED  BY <4>1, <5>1 DEF TypeOK, runState
      <4> QED  BY <2>2, <4>1
    <3> QED  BY <2>2, <3>1, <3>2, <3>3 DEF Progress
  <2>3. CASE RestartIsolateScene \/ RestartIsolateGeneration
    BY <2>3 DEF Progress, runState, finals, SceneFinalExists,
       GenerationFinalExists
  <2> QED  BY <2>1, <2>2, <2>3
<1> QED  BY <1>1, <1>2, <1>3, <1>4, QuietPreserves

\* Errors, failed fills, crashes and lost staging leave the saved state and
\* the finals.
LEMMA FaultsPreserve ==
    ASSUME Inductive,
           Raise \/ Environment \/ VolumeWritten \/ UNCHANGED vars
    PROVE  Inductive'
<1> USE DEF Inductive
<1>1. CASE Raise
  <2>1. Quiet /\ TypeOK' /\ Control' /\ Progress' /\ pc' = "raised"
    BY <1>1 DEF Raise, Quiet, TypeOK, Control, Progress, runState, staging,
       finals, drafts, faults, Labels, Unprepared, WhilePrepared,
       WhileSceneFinalized
  <2> QED  BY <2>1, QuietPreserves
<1>2. CASE Crash
  <2>1. Quiet /\ TypeOK' /\ Control' /\ Progress' /\ pc' = "idle"
    BY <1>2, BoundAssumption DEF Crash, Quiet, TypeOK, Control, Progress,
       runState, staging, finals, Labels, Unprepared, WhilePrepared,
       WhileSceneFinalized
  <2> QED  BY <2>1, QuietPreserves
<1>3. CASE LoseSceneStaging \/ LoseGenerationStaging
  <2>1. Quiet /\ pc' = pc /\ AtRest
    BY <1>3 DEF LoseSceneStaging, LoseGenerationStaging, Quiet, drafts
  <2>2. TypeOK'
    BY <1>3 DEF LoseSceneStaging, LoseGenerationStaging, TypeOK, runState,
       finals, drafts, SceneStagingState, GenerationStagingState
  <2>3. Control' /\ Progress'
    BY <1>3, <2>1 DEF LoseSceneStaging, LoseGenerationStaging, Control,
       Progress, AtRest, runState, drafts, Labels, Unprepared,
       WhilePrepared, WhileSceneFinalized
  <2> QED  BY <2>1, <2>2, <2>3, QuietPreserves DEF AtRest
<1>4. CASE VolumeWritten \/ UNCHANGED vars
  <2>1. UNCHANGED vars
    BY <1>4 DEF VolumeWritten
  <2>2. TypeOK' /\ Control' /\ Target'
    BY <2>1 DEF vars, runState, staging, finals, drafts, faults, TypeOK,
       Control, Target
  <2>3. Shelf' /\ Lineage'
    BY <2>1, QuietDisk DEF vars
  <2>4. Progress'
    BY <2>1 DEF vars, runState, staging, finals, Progress, SceneRecorded,
       GenerationRecorded, SceneFinalExists, GenerationFinalExists
  <2> QED  BY <2>2, <2>3, <2>4
<1>5. CASE FillFails
  <2>1. Quiet /\ pc' = "raised" /\ pending' = pending
    BY <1>5 DEF FillFails, Quiet, runState, drafts
  <2>2. TypeOK'
    <3>1. /\ genStaging' \in [Generations -> GenerationStagingState]
          /\ failures' \in Nat
      <4>1. /\ genStaging' = [genStaging EXCEPT ![result] = "absent"]
            /\ failures' = failures + 1
        BY <1>5 DEF FillFails
      <4>2. /\ genStaging \in [Generations -> GenerationStagingState]
            /\ failures \in Nat /\ result \in Generations
        BY <1>5 DEF FillFails, TypeOK, Control, Target, Labels
      <4> QED  BY <4>1, <4>2 DEF GenerationStagingState
    <3> QED  BY <1>5, <2>1, <3>1 DEF FillFails, TypeOK, runState, finals,
                drafts
  <2>3. Control' /\ Progress'
    BY <1>5, <2>1 DEF FillFails, Control, Progress, runState, drafts, Labels,
       Unprepared, WhilePrepared, WhileSceneFinalized
  <2> QED  BY <2>1, <2>2, <2>3, QuietPreserves
<1> QED  BY <1>1, <1>2, <1>3, <1>4, <1>5 DEF Environment

\* Every step, crash and loss keeps the invariant.
LEMMA NextInductive == Inductive /\ [Next]_vars => Inductive'
  BY ContinuityPreserves, FillsPreserve, SavesPreserve,
     FinalizeScenePreserves, FinalizeGenerationPreserves, AdvancePreserves,
     RebuildPreserves, FaultsPreserve
  DEF Next, Step, Run, Recover, Fills

\* In every behaviour of the stage, crashes, recoveries and lost staging
\* included, the control point, the saved phase and the disk agree.
THEOREM InductiveAlways == Spec => []Inductive
  BY InitInductive, NextInductive, PTL DEF Spec
-----------------------------------------------------------------------------
(* The properties the runs check, for every plan and every bound.          *)

\* Every variable of the stage and of the disk keeps its type: no scene or
\* generation ever carries an id that was not reserved for it.
THEOREM TypeCorrect == Spec => []TypeOK
<1>1. Inductive => TypeOK
  BY DEF Inductive
<1> QED  BY <1>1, InductiveAlways, PTL

\* No interruption of the commit leaves a Story state whose source scene is
\* missing (the order of the two renames, and the recovery's verdicts).
THEOREM SceneComesFirst == Spec => []SceneBeforeGeneration
<1>1. Inductive => SceneBeforeGeneration
  BY DEF Inductive, Lineage, SceneBeforeGeneration
<1> QED  BY <1>1, InductiveAlways, PTL

\* The committed history never branches: each generation extends the one that
\* was current, and no scene is committed twice.
THEOREM HistoryIsLinear == Spec => []LinearHistory
<1>1. Inductive => LinearHistory
  BY DEF Inductive, Lineage, Shelf, LinearHistory
<1> QED  BY <1>1, InductiveAlways, PTL

\* run-state and the final directories agree at every instant, up to the one
\* commit that pending_commit announces.
THEOREM RunStateMatchesDisk == Spec => []StateMatchesDisk
<1>1. Inductive => StateMatchesDisk
  <2> SUFFICES ASSUME Inductive PROVE StateMatchesDisk
    OBVIOUS
  <2> USE DEF Inductive
  <2>1. stage = "scene_commit" \/ pending = "none"
    BY DEF Control
  <2>2. /\ \A g \in generations :
            g.id <= current \/ (g.id = result /\ pending # "none")
        /\ \E g \in generations : g.id = current
    BY DEF Lineage
  <2>3. \A s \in Scenes : Precedes(s, cursor) => \E r \in scenes : r.scene = s
    BY DEF Shelf
  <2>4. \A r \in scenes : \/ Precedes(r.scene, cursor)
                          \/ r.scene = cursor /\ pending # "none"
    BY DEF Shelf
  <2>5. /\ pending \in {"scene_finalized", "generation_finalized"}
            => SceneFinalExists
        /\ pending = "generation_finalized" => GenerationFinalExists
    BY DEF Shelf, Lineage, SceneFinalExists, GenerationFinalExists,
       SceneRecorded, GenerationRecorded
  <2> QED  BY <2>2, <2>3, <2>4, <2>5 DEF StateMatchesDisk
<1> QED  BY <1>1, InductiveAlways, PTL

\* Once "prepared" is saved, no step of the run and no classification of the
\* recovery ends in an error that needs a person.
THEOREM PreparedGoesForward == Spec => []PreparedNeverRefused
<1>1. Inductive => PreparedNeverRefused
  <2> SUFFICES ASSUME Inductive, pending # "none" PROVE ~Refused
    BY DEF PreparedNeverRefused
  <2>1. Classify(Inspection) # "manual"
    BY VerdictsAreSound
  <2>2. pc \notin Unprepared
    BY DEF Inductive, Control
  <2> QED  BY <2>1, <2>2 DEF Inductive, Progress, Refused, Unprepared
<1> QED  BY <1>1, InductiveAlways, PTL

\* While nothing is pending, nothing of the scene at the cursor is final and
\* the scenes before it in its chapter are.
LEMMA UnpreparedDisk ==
    ASSUME Inductive, pending = "none", stage = "scene_commit"
    PROVE  ~SceneFinalExists /\ ~GenerationFinalExists /\ PriorScenesCommitted
<1> USE DEF Inductive
<1>1. /\ cursor \in Scenes /\ current < result
      /\ result \in Nat /\ current \in Nat
  BY DEF Target, TypeOK, Generations, InitialGeneration
<1>2. \A r \in scenes : Precedes(r.scene, cursor)
  BY DEF Shelf
<1>3. ~SceneFinalExists
  BY <1>1, <1>2, SuccessorOrder DEF SceneFinalExists
<1>4. ~GenerationFinalExists
  BY <1>1 DEF Lineage, GenerationFinalExists
<1>5. PriorScenesCommitted
  <2>1. cursor = <<cursor[1], cursor[2]>> /\ cursor[1] \in 1 .. Chapters
        /\ cursor[2] \in 1 .. SceneCount[cursor[1]]
        /\ SceneCount[cursor[1]] \in Nat
    BY <1>1, ScenePairs, PlanAssumption
  <2>2. ASSUME NEW r \in scenes, r.scene[1] = cursor[1]
        PROVE  r.scene[2] \in 1 .. cursor[2] - 1
    <3>1. r.scene \in Scenes
      BY DEF TypeOK, SceneRecord
    <3>2. r.scene[2] \in 1 .. SceneCount[cursor[1]]
      BY <2>2, <3>1, ScenePairs
    <3>3. r.scene[2] < cursor[2]
      BY <1>2, <2>1, <2>2, <3>2 DEF Precedes
    <3> QED  BY <2>1, <3>2, <3>3
  <2>3. ASSUME NEW n \in 1 .. cursor[2] - 1
        PROVE  \E r \in scenes : r.scene[1] = cursor[1] /\ r.scene[2] = n
    <3>1. <<cursor[1], n>> \in Scenes
      BY <2>1, ScenePairs
    <3>2. Precedes(<<cursor[1], n>>, cursor)
      BY <2>1 DEF Precedes
    <3>3. PICK r \in scenes : r.scene = <<cursor[1], n>>
      BY <3>1, <3>2 DEF Shelf
    <3> QED  BY <3>3
  <2> QED  BY <2>2, <2>3 DEF PriorScenesCommitted
<1> QED  BY <1>3, <1>4, <1>5

\* For every plan, crash set and bound, a step of the stage ends in an error
\* for a torn commit.json or a half filled generation staging only.
THEOREM OnlyTornWritesRefuse == Spec => []RefusedOnlyForTornWrites
<1>1. Inductive => RefusedOnlyForTornWrites
  <2> SUFFICES ASSUME Inductive, Refused,
                      ~(pc = "write_commit" /\ sceneStaging[cursor] = "torn"),
                      ~(/\ pc = "ensure_generation"
                        /\ genStaging[result] = "partial")
               PROVE  FALSE
    BY DEF RefusedOnlyForTornWrites
  <2> USE DEF Inductive
  <2>1. CASE AtRest
    <3>1. pending # "none" /\ Classify(Inspection) = "manual"
      BY <2>1 DEF Refused, AtRest
    <3> QED  BY <3>1, VerdictsAreSound
  <2>2. CASE pc \in {"ensure_staging", "write_commit", "ensure_generation"}
    <3>1. pending = "none" /\ stage = "scene_commit"
      BY <2>2 DEF Control, Labels, Unprepared
    <3>2. /\ basis = current /\ adopted[cursor] = result
          /\ current < result /\ current \in Nat /\ result \in Nat
          /\ result # None
      BY <3>1 DEF Target, TypeOK, Generations, InitialGeneration, None
    <3> QED  BY <2>2, <3>1, <3>2, UnpreparedDisk DEF Refused, AtRest
  <2>3. CASE pc = "prepare"
    BY <2>3 DEF Refused, AtRest, Progress
  <2>4. CASE pc \in {"finalize_scene", "finalize_generation"}
    BY <2>4 DEF Refused, AtRest, Progress
  <2> QED  BY <2>1, <2>2, <2>3, <2>4 DEF Refused
<1> QED  BY <1>1, InductiveAlways, PTL

\* A staging directory goes away only into its final place, into orphans or
\* by the environment: neither the run nor the recovery deletes drafted work,
\* but for the generation staging a step was itself filling when it failed.
THEOREM StagingIsKept == Spec => StagingNeverDiscarded
<1> DEFINE Moved == \/ orphans' = orphans + 1
                    \/ finals' # finals
                    \/ losses' = losses + 1
           Kept ==
              /\ \A s \in Scenes :
                    sceneStaging[s] # "absent" /\ sceneStaging'[s] = "absent"
                        => Moved
              /\ \A g \in Generations :
                    genStaging[g] # "absent" /\ genStaging'[g] = "absent"
                        => Moved \/ FillAbandoned(g)
<1>1. Inductive /\ Next => Kept
  <2> SUFFICES ASSUME Inductive, Next PROVE Kept
    OBVIOUS
  <2>1. CASE UNCHANGED <<sceneStaging, genStaging>>
    BY <2>1
  <2>2. CASE orphans' = orphans + 1 \/ losses' = losses + 1
    BY <2>2
  <2>3. CASE FinalizeScene \/ FinalizeGeneration
    <3>1. CASE FinalizeScene
      <4>1. [scene |-> cursor, result |-> result] \in scenes' \ scenes
        BY <3>1 DEF FinalizeScene, Refused, SceneFinalExists
      <4> QED  BY <4>1 DEF finals
    <3>2. CASE FinalizeGeneration
      <4>1. [id |-> result, parent |-> basis, scene |-> cursor]
                \in generations' \ generations
        BY <3>2 DEF FinalizeGeneration, Refused, GenerationFinalExists
      <4> QED  BY <4>1 DEF finals
    <3> QED  BY <2>3, <3>1, <3>2
  <2>4. CASE AdoptContinuity \/ RestoreSceneStaging \/ CreateCommitFile
             \/ FillCommitFile \/ CreateGenerationStaging
             \/ FillGenerationStaging \/ CreateRebuiltStaging
             \/ FillRebuiltStaging
    <3>1. /\ \A s \in Scenes :
                sceneStaging'[s] \in {sceneStaging[s], "frozen", "torn",
                                      "complete"}
          /\ \A g \in Generations :
                genStaging'[g] \in {genStaging[g], "partial", "complete"}
      BY <2>4 DEF Inductive, TypeOK, AdoptContinuity, RestoreSceneStaging,
         CreateCommitFile, FillCommitFile, CreateGenerationStaging,
         FillGenerationStaging, CreateRebuiltStaging, FillRebuiltStaging
    <3> QED  BY <3>1
  <2>5. CASE Continuity
    BY <2>1, <2>4, <2>5 DEF Continuity, ReserveGeneration, staging
  <2>6. CASE Run
    BY <2>1, <2>2, <2>3, <2>4, <2>6 DEF Run, BeginCommit, KeepSceneStaging,
       IsolateSceneStaging, ReuseCommitFile, ReuseGenerationStaging, Prepare,
       SaveSceneFinalized, SaveGenerationFinalized, Advance, SavePhase,
       staging
  <2>7. CASE Recover
    BY <2>1, <2>2, <2>4, <2>7 DEF Recover, RecoverFinalizeScene,
       RecoverFinalizeGeneration, RecoverCompleteState,
       RecoverRebuildGeneration, IsolateForRebuild, RecoverRestart,
       RestartIsolateScene, RestartIsolateGeneration, RestartCommit,
       SavePhase, staging
  <2>8. CASE FillFails
    <3>1. UNCHANGED sceneStaging
      BY <2>8 DEF FillFails
    <3>2. ASSUME NEW g \in Generations,
                 genStaging[g] # "absent", genStaging'[g] = "absent"
          PROVE  FillAbandoned(g)
      <4>1. g = result /\ genStaging[g] \in GenerationStagingState
        BY <2>8, <3>2 DEF FillFails, Inductive, TypeOK
      <4>2. genStaging[g] # "complete"
        BY <2>8, <4>1 DEF FillFails, Inductive, Progress
      <4> QED  BY <2>8, <3>2, <4>1, <4>2 DEF FillFails, FillAbandoned,
                  GenerationStagingState
    <3> QED  BY <3>1, <3>2
  <2>9. CASE Raise \/ Environment \/ VolumeWritten
    BY <2>1, <2>2, <2>8, <2>9 DEF Raise, Environment, Crash, LoseSceneStaging,
       LoseGenerationStaging, VolumeWritten, vars, staging
  <2> QED  BY <2>5, <2>6, <2>7, <2>9 DEF Next, Step
<1>2. Spec => [][Kept]_vars
  BY <1>1, InductiveAlways, PTL DEF Spec
<1> QED  BY <1>2 DEF StagingNeverDiscarded
-----------------------------------------------------------------------------
(* The stage implements the atomic commit: History grows only when Advance *)
(* publishes the generation, by exactly one record.                        *)

\* The initial states map to initial states.
LEMMA InitRefines == Init => Atomic!AtomicInit
  BY DEF Init, Atomic!AtomicInit, History, NoScene

\* Apart from Advance, a step changes no saved id and no committed record.
LEMMA OthersStutter ==
    ASSUME Inductive, Inductive', UNCHANGED <<current, cursor>>,
           \/ UNCHANGED finals
           \/ FinalizeScene
           \/ FinalizeGeneration
    PROVE  UNCHANGED Atomic!atomicVars
<1>1. CASE UNCHANGED finals
  BY <1>1 DEF Atomic!atomicVars, History, finals
<1>2. CASE FinalizeScene
  <2>1. \A g \in generations : g.id <= current /\ g.scene # NoScene =>
            [scene |-> g.scene, result |-> g.id] \in scenes
    BY DEF Inductive, Lineage
  <2>2. scenes \subseteq scenes' /\ UNCHANGED <<generations, current>>
    BY <1>2 DEF FinalizeScene, runState
  <2>3. History' = History
    BY <2>1, <2>2 DEF History
  <2> QED  BY <2>3 DEF Atomic!atomicVars
<1>3. CASE FinalizeGeneration
  <2>1. current < result /\ current \in Nat /\ result \in Nat
    BY <1>3 DEF FinalizeGeneration, Inductive, Control, Target, TypeOK,
       Labels, Generations, InitialGeneration
  <2>2. /\ generations' = generations \cup
                {[id |-> result, parent |-> basis, scene |-> cursor]}
        /\ UNCHANGED <<scenes, current>>
    BY <1>3 DEF FinalizeGeneration, runState
  <2>3. {x \in generations' : x.id <= current'}
            = {x \in generations : x.id <= current}
    BY <2>1, <2>2
  <2>4. History' = History
    BY <2>2, <2>3 DEF History
  <2> QED  BY <2>4 DEF Atomic!atomicVars
<1> QED  BY <1>1, <1>2, <1>3

\* Advance is the atomic commit.
LEMMA AdvanceCommits ==
    ASSUME Inductive, Advance PROVE Atomic!Commit(result)
<1> DEFINE Visible(g) == /\ g.scene # NoScene
                         /\ g.id <= current
                         /\ [scene |-> g.scene, result |-> g.id] \in scenes
           \* the same after the step, in terms of the state before it
           Shown(g) == /\ g.scene # NoScene
                       /\ g.id <= result
                       /\ [scene |-> g.scene, result |-> g.id] \in scenes
           Record(g) == [scene |-> g.scene, generation |-> g.id,
                         parent |-> g.parent]
           new == [id |-> result, parent |-> basis, scene |-> cursor]
<1>1. /\ stage = "scene_commit" /\ cursor \in Scenes /\ basis = current
      /\ current < result /\ current \in Nat /\ result \in Nat
      /\ SceneRecorded /\ new \in generations /\ cursor # NoScene
  BY ScenePairs DEF Advance, Inductive, Control, Target, Progress, TypeOK,
     Labels, Generations, InitialGeneration, GenerationRecorded
<1>2. UNCHANGED <<scenes, generations>> /\ current' = result
  BY DEF Advance, finals
<1>3. \A g \in generations : Shown(g) <=> Visible(g) \/ g = new
  <2>1. \A g \in generations : g.id = result => g = new
    BY <1>1 DEF Inductive, Lineage, GenerationRecorded
  <2>2. \A g \in generations : g.id <= current \/ g.id = result
    BY DEF Inductive, Lineage
  <2>3. \A g \in generations : g.id \in Nat
    BY DEF Inductive, TypeOK, GenerationRecord, Generations,
       InitialGeneration
  <2>4. Shown(new)
    BY <1>1 DEF SceneRecorded
  <2>5. \A g \in generations : g.id <= current =>
            (Visible(g) <=> Shown(g))
    BY <1>1, <2>3
  <2>6. \A g \in generations : Visible(g) => g.id <= current
    OBVIOUS
  <2> HIDE DEF Visible, Shown, new
  <2> QED  BY <2>1, <2>2, <2>4, <2>5, <2>6
<1>4. History = {Record(g) : g \in {x \in generations : Visible(x)}}
  BY DEF History
<1>5. History' = {Record(g) : g \in {x \in generations : Shown(x)}}
  BY <1>2 DEF History
<1>6. {x \in generations : Shown(x)}
        = {x \in generations : Visible(x)} \cup {new}
  <2> HIDE DEF Visible, Shown, new
  <2> QED  BY <1>1, <1>3
<1>7. History' = History \cup {Record(new)}
  <2> HIDE DEF Visible, Shown, new
  <2> QED  BY <1>4, <1>5, <1>6
<1> QED
  BY <1>1, <1>2, <1>7 DEF Atomic!Commit, Advance

\* The whole stage, crashes and recoveries included, is seen by a reader of
\* run-state as a sequence of atomic commits in reading order.
THEOREM CommitIsAtomic == Spec => ImplementsAtomicCommit
<1>1. Inductive /\ Inductive' /\ [Next]_vars
        => [Atomic!AtomicNext]_(Atomic!atomicVars)
  <2> SUFFICES ASSUME Inductive, Inductive', [Next]_vars
               PROVE  [Atomic!AtomicNext]_(Atomic!atomicVars)
    OBVIOUS
  <2>1. CASE Advance
    <3>1. result \in Generations
      BY <2>1 DEF Advance, Inductive, Control, Target, Labels
    <3> QED  BY <2>1, <3>1, AdvanceCommits DEF Atomic!AtomicNext
  <2>2. CASE FinalizeScene \/ FinalizeGeneration
    BY <2>2, OthersStutter DEF FinalizeScene, FinalizeGeneration, runState
  <2>3. CASE UNCHANGED <<current, cursor>> /\ UNCHANGED finals
    BY <2>3, OthersStutter
  <2>4. CASE Continuity
    BY <2>3, <2>4 DEF Continuity, ReserveGeneration, AdoptContinuity, runState
  <2>5. CASE Run
    BY <2>1, <2>2, <2>3, <2>5 DEF Run, BeginCommit, KeepSceneStaging,
       IsolateSceneStaging, RestoreSceneStaging, CreateCommitFile,
       FillCommitFile, ReuseCommitFile, CreateGenerationStaging,
       FillGenerationStaging, ReuseGenerationStaging, Prepare,
       SaveSceneFinalized, SaveGenerationFinalized, SavePhase, runState
  <2>6. CASE Recover
    BY <2>3, <2>6 DEF Recover, RecoverFinalizeScene,
       RecoverFinalizeGeneration, RecoverCompleteState,
       RecoverRebuildGeneration, IsolateForRebuild, CreateRebuiltStaging,
       FillRebuiltStaging, RecoverRestart, RestartIsolateScene,
       RestartIsolateGeneration, RestartCommit, SavePhase, runState
  <2>7. CASE Raise \/ Environment \/ VolumeWritten \/ UNCHANGED vars
    BY <2>3, <2>7 DEF Raise, Environment, FillFails, Crash,
       LoseSceneStaging, LoseGenerationStaging, VolumeWritten, vars, runState
  <2> QED  BY <2>4, <2>5, <2>6, <2>7 DEF Next, Step
<1>2. Spec => Atomic!AtomicSpec
  BY <1>1, InitRefines, InductiveAlways, PTL DEF Spec, Atomic!AtomicSpec
<1> QED  BY <1>2 DEF ImplementsAtomicCommit
=============================================================================
