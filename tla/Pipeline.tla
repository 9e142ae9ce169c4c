------------------------------ MODULE Pipeline ------------------------------
(***************************************************************************)
(* A whole run, from input to publication, one stage after another: what   *)
(* each stage service reads and refuses, the artifact it adopts and the    *)
(* target it hands to the next stage.  V1WorkflowService.step validates    *)
(* the workspace layout first, so no stage runs on a workspace that an     *)
(* earlier one has left invalid.                                           *)
(*                                                                         *)
(* A stage is one action: CandidateStage, SceneCommit and Publication      *)
(* refine what happens inside them.  initial_accept, which no other module *)
(* covers, is taken apart here, with the crashes that interrupt it.        *)
(***************************************************************************)
EXTENDS WorkspaceLayout

CONSTANTS
    EvidenceIn,  \* volumes whose scenes may record evidence
    MaxCrashes,  \* bound on the crashes of one behaviour
    CrashAt      \* labels of initial_accept at which the process may die

AcceptLabels == {"design_file", "generation", "reserve", "staging", "files",
                 "advance"}

ASSUME PipelineAssumption ==
    /\ EvidenceIn \subseteq Volumes
    /\ MaxCrashes \in Nat
    /\ CrashAt \subseteq AcceptLabels

VARIABLES
    counter,    \* generation ids handed out
    leftovers,  \* runtime/staging/generation-<id>-* of initial_accept
    pc, crashes

runState == <<stage, status, target, active, current, published>>
initialArtifacts == <<source, brief, parts, design>>
planArtifacts == <<seriesPlan, volumePlans, chapterPlans, scenePlans>>
sceneArtifacts == <<staging, scenes, generations>>
endArtifacts == <<handoffs, completions, publications>>
artifacts == <<initialArtifacts, planArtifacts, sceneArtifacts, endArtifacts>>
acceptance == <<leftovers, pc, crashes>>
vars == <<runState, artifacts, counter, acceptance>>

InitialStages == <<"initial_concept", "initial_characters",
                   "initial_relationships", "initial_world",
                   "initial_knowledge", "initial_threads",
                   "initial_ending", "initial_integrate">>
SceneStages == {"scene_card", "scene_prose", "scene_continuity",
                "scene_commit"}
CodeStages == {"initial_accept", "scene_commit", "publication"}
Stages == {"input", "initial_accept", "series_plan", "volume_plan",
           "chapter_plan", "scene_plan", "volume_handoff", "completion",
           "publication"} \cup SceneStages
           \cup {InitialStages[i] : i \in 1 .. 8}

\* ALLOWED_STAGE_TRANSITIONS
Allowed ==
    [s \in Stages |->
        CASE s = "input" -> {"initial_concept"}
          [] s = "initial_integrate" -> {"initial_accept"}
          [] s = "initial_accept" -> {"series_plan"}
          [] s = "series_plan" -> {"volume_plan"}
          [] s = "volume_plan" -> {"chapter_plan"}
          [] s = "chapter_plan" -> {"scene_plan"}
          [] s = "scene_plan" -> {"scene_card"}
          [] s = "scene_card" -> {"scene_prose"}
          [] s = "scene_prose" -> {"scene_continuity"}
          [] s = "scene_continuity" -> {"scene_commit"}
          [] s = "scene_commit" -> {"chapter_plan", "scene_plan",
                                    "volume_handoff"}
          [] s = "volume_handoff" -> {"volume_plan", "completion"}
          [] s = "completion" -> {"publication"}
          [] s = "publication" -> {}
          [] OTHER -> {InitialStages[i] : i \in {j \in 2 .. 8 :
                                            InitialStages[j - 1] = s}}]

NoTarget == [volume |-> 0, chapter |-> 0, scene |-> 0, basis |-> None,
             result |-> None, completion |-> None, publication |-> None]
At(v, c, s, g) ==
    [volume |-> v, chapter |-> c, scene |-> s, basis |-> g,
     result |-> None, completion |-> None, publication |-> None]

ChapterNumbers == UNION {ChapterCounts[v] : v \in Volumes}
MaxScenes == VolumeCount * Max(ChapterNumbers) * Max(SceneCounts)
GenerationIds == 1 .. MaxScenes + MaxCrashes + 1
AllScenes == Volumes \X (1 .. Max(ChapterNumbers)) \X (1 .. Max(SceneCounts))

SeriesPlans == [count : {VolumeCount}, schedule : [Volumes -> 0 .. Knowledge],
                basis : GenerationIds]
VolumePlans == [chapters : ChapterNumbers, revelations : 0 .. Knowledge,
                basis : GenerationIds]
ChapterPlans == [scenes : SceneCounts, revelations : 0 .. Knowledge,
                 basis : GenerationIds]
ScenePlans == [revelations : 0 .. Knowledge, basis : GenerationIds]
CompletionStatus == {"complete", "complete_with_issues", "incomplete"}
Generations == [parent : GenerationIds \cup {None},
                source : AllScenes \cup {NoScene},
                evidence : SUBSET AllScenes]

\* f is a partial function from S to T.
IsPartial(f, S, T) == DOMAIN f \subseteq S /\ \A x \in DOMAIN f : f[x] \in T

TypeOK ==
    /\ stage \in Stages
    /\ status \in {"running", "blocked", "completed"}
    /\ target.volume \in 0 .. VolumeCount
    /\ target.chapter \in 0 .. Max(ChapterNumbers)
    /\ target.scene \in 0 .. Max(SceneCounts)
    /\ {target.basis, target.result} \subseteq GenerationIds \cup {None}
    /\ active \in AllScenes \cup {NoScene}
    /\ current \in GenerationIds \cup {None}
    /\ {published, target.completion, target.publication} \subseteq {None, 1}
    /\ source \in {"brief", "keywords"}
    /\ brief \in BOOLEAN
    /\ parts \subseteq {DesignParts[i] : i \in 1 .. 8}
    /\ design \in {"absent", "torn", "complete"}
    /\ seriesPlan \in SeriesPlans \cup {NoPlan}
    /\ IsPartial(volumePlans, Volumes, VolumePlans)
    /\ IsPartial(chapterPlans, Volumes \X (1 .. Max(ChapterNumbers)),
                 ChapterPlans)
    /\ IsPartial(scenePlans, AllScenes, ScenePlans)
    /\ IsPartial(staging, AllScenes,
                 [files : SUBSET SceneFiles, basis : GenerationIds,
                  evidence : BOOLEAN])
    /\ IsPartial(scenes, AllScenes,
                 [parent : GenerationIds, result : GenerationIds])
    /\ \A g \in DOMAIN generations :
            g \in GenerationIds /\ generations[g] \in Generations
    /\ IsPartial(handoffs, Volumes,
                 [basis : GenerationIds, scenes : SUBSET AllScenes])
    /\ IsPartial(completions, {1},
                 [status : CompletionStatus, basis : GenerationIds])
    /\ IsPartial(publications, {1},
                 [completion : {1}, basis : GenerationIds,
                  scenes : SUBSET AllScenes])
    /\ counter \in GenerationIds \cup {0}
    /\ leftovers \in 0 .. MaxCrashes + 1
    /\ pc \in AcceptLabels \cup {"idle"}
    /\ crashes \in 0 .. MaxCrashes

Init ==
    /\ stage = "input"
    /\ status = "running"
    /\ target = NoTarget
    /\ active = NoScene
    /\ current = None
    /\ published = None
    /\ source \in {"brief", "keywords"}
    /\ brief = (source = "brief")
    /\ parts = {}
    /\ design = "absent"
    /\ seriesPlan = NoPlan
    /\ volumePlans = <<>> /\ chapterPlans = <<>> /\ scenePlans = <<>>
    /\ staging = <<>> /\ scenes = <<>> /\ generations = <<>>
    /\ handoffs = <<>> /\ completions = <<>> /\ publications = <<>>
    /\ counter = 0
    /\ leftovers = 0
    /\ pc = "idle"
    /\ crashes = 0
-----------------------------------------------------------------------------
(* What each stage reads before it does anything, by the service that runs *)
(* it: what it does not find, it refuses.                                  *)

Coords == <<target.volume, target.chapter, target.scene>>
Chapter == <<target.volume, target.chapter>>
PartNumber == CHOOSE i \in 1 .. 8 : InitialStages[i] = stage

BasisIsCurrent == current \in DOMAIN generations /\ target.basis = current

PartReady ==
    /\ brief
    /\ \A i \in 1 .. PartNumber - 1 : DesignParts[i] \in parts
    /\ DesignParts[PartNumber] \notin parts

AcceptReady == parts = {DesignParts[i] : i \in 1 .. 8}

SeriesPlanReady ==
    /\ design = "complete"
    /\ current \in InitialGenerations
    /\ seriesPlan = NoPlan

VolumePlanReady ==
    LET v == target.volume IN
    /\ BasisIsCurrent
    /\ seriesPlan # NoPlan
    /\ v > 1 => v - 1 \in DOMAIN handoffs /\ handoffs[v - 1].basis = current
    /\ v \notin DOMAIN volumePlans

ChapterPlanReady ==
    /\ BasisIsCurrent
    /\ target.volume \in DOMAIN volumePlans
    /\ Chapter \in ChaptersOf(target.volume)
    /\ \A c \in 1 .. target.chapter - 1 :
            <<target.volume, c>> \in DOMAIN chapterPlans
    /\ Chapter \notin DOMAIN chapterPlans

ScenePlanReady ==
    /\ BasisIsCurrent
    /\ Chapter \in DOMAIN chapterPlans
    /\ Coords \in ScenesOf(Chapter)
    /\ \A s \in 1 .. target.scene - 1 :
            <<target.volume, target.chapter, s>> \in DOMAIN scenePlans
    /\ Coords \notin DOMAIN scenePlans

\* The files of the scene are staged one stage after the other, each on the
\* same generation as the first.
SceneReady(files) ==
    /\ BasisIsCurrent
    /\ active = Coords
    /\ active \in DOMAIN scenePlans
    /\ scenePlans[active].basis = current
    /\ active \notin DOMAIN scenes
    /\ IF files = {}
       THEN active \notin DOMAIN staging
       ELSE active \in DOMAIN staging /\ staging[active].files = files
                                      /\ staging[active].basis = current

SceneCommitReady ==
    /\ SceneReady(SceneFiles)
    /\ target.result > current
    /\ target.result \notin DOMAIN generations
    /\ {x \in DOMAIN scenes : <<x[1], x[2]>> = Chapter}
            = {<<target.volume, target.chapter, s>> :
                    s \in 1 .. target.scene - 1}

\* _load_completed_volume: every chapter planned, every scene committed and
\* nothing else.
VolumeIsWhole(v) ==
    /\ v \in DOMAIN volumePlans
    /\ ChaptersOf(v) \subseteq DOMAIN chapterPlans
    /\ {x \in DOMAIN scenePlans : x[1] = v} = PlannedScenes(v)
    /\ {x \in DOMAIN scenes : x[1] = v} = PlannedScenes(v)

TerminalSource(S) == generations[current].source = LastOf(S)

HandoffReady ==
    LET v == target.volume IN
    /\ BasisIsCurrent
    /\ VolumeIsWhole(v)
    /\ TerminalSource(PlannedScenes(v))
    /\ generations[current].evidence \subseteq PlannedScenes(v)
    /\ v \notin DOMAIN handoffs

AllPlanned == UNION {PlannedScenes(v) : v \in 1 .. seriesPlan.count}
Earlier(x, S) == {y \in S : Precedes(y, x)}

\* From the generation the series plan is based on, each scene of S starts
\* where the one before it ended.
LineageOf(S) ==
    \A x \in S :
        scenes[x].parent = IF Earlier(x, S) = {}
                           THEN seriesPlan.basis
                           ELSE scenes[LastOf(Earlier(x, S))].result

CompletionReady ==
    /\ BasisIsCurrent
    /\ target.volume = seriesPlan.count
    /\ active = NoScene
    /\ \A v \in 1 .. seriesPlan.count : VolumeIsWhole(v)
    /\ LineageOf(AllPlanned)
    /\ DOMAIN handoffs = 1 .. seriesPlan.count
    /\ \A v \in DOMAIN handoffs :
            /\ handoffs[v].scenes = PlannedScenes(v)
            /\ handoffs[v].basis = scenes[LastOf(PlannedScenes(v))].result
    /\ DOMAIN scenes = AllPlanned
    /\ DOMAIN staging = {} /\ leftovers = 0
    /\ TerminalSource(AllPlanned)

\* The volumes of the manuscript, and a slip that forgets the last of them.
LoadedVolumesShort == 1 .. seriesPlan.count - 1
LoadedVolumes == 1 .. seriesPlan.count

PublicationReady ==
    /\ BasisIsCurrent
    /\ published = None /\ active = NoScene
    /\ target.completion \in DOMAIN completions
    /\ completions[target.completion].basis = current
    /\ completions[target.completion].status # "incomplete"
    /\ \A v \in LoadedVolumes : VolumeIsWhole(v)

Ready ==
    CASE stage = "input" -> TRUE
      [] stage = "initial_accept" -> AcceptReady
      [] stage = "series_plan" -> SeriesPlanReady
      [] stage = "volume_plan" -> VolumePlanReady
      [] stage = "chapter_plan" -> ChapterPlanReady
      [] stage = "scene_plan" -> ScenePlanReady
      [] stage = "scene_card" -> SceneReady({})
      [] stage = "scene_prose" -> SceneReady({"card"})
      [] stage = "scene_continuity" -> SceneReady({"card", "prose"})
      [] stage = "scene_commit" -> SceneCommitReady
      [] stage = "volume_handoff" -> HandoffReady
      [] stage = "completion" -> CompletionReady
      [] stage = "publication" -> PublicationReady
      [] OTHER -> PartReady

AtRest == status = "running" /\ pc = "idle"

\* Every command from now on raises a ContractError.
Refused == AtRest /\ (~Layout \/ ~Ready)

Begin(s) == AtRest /\ stage = s /\ Layout /\ Ready
-----------------------------------------------------------------------------
\* An artifact is adopted under its coordinates; what is there already stays.
Adopting(f, x, y) ==
    [z \in DOMAIN f \cup {x} |-> IF z \in DOMAIN f THEN f[z] ELSE y]

(* advance_run_state: the new stage, its target, and the active scene, kept *)
(* from one scene stage to the next and dropped everywhere else.            *)

AdvanceTo(next, t, scene) ==
    /\ next \in Allowed[stage]
    /\ next \in SceneStages => scene # NoScene
    /\ stage' = next
    /\ target' = t
    /\ active' = IF next \in SceneStages THEN scene ELSE NoScene

\* input: a Brief is checked and taken over by code; keywords become a Brief
\* that a Provider wrote and a review accepted.
AcceptInput ==
    /\ Begin("input")
    /\ brief' = TRUE
    /\ AdvanceTo("initial_concept", NoTarget, NoScene)
    /\ UNCHANGED <<status, current, published, source, parts, design,
                   planArtifacts, sceneArtifacts, endArtifacts, counter,
                   acceptance>>

\* The eight stages of the Initial Design, each on the parts before it.
AdoptPart ==
    /\ \E i \in 1 .. 8 :
        /\ Begin(InitialStages[i])
        /\ parts' = parts \cup {DesignParts[i]}
        /\ AdvanceTo(IF i = 8 THEN "initial_accept" ELSE InitialStages[i + 1],
                     NoTarget, NoScene)
    /\ UNCHANGED <<status, current, published, source, brief, design,
                   planArtifacts, sceneArtifacts, endArtifacts, counter,
                   acceptance>>
-----------------------------------------------------------------------------
(* initial_accept: no pending_commit guards it, a restart finds its way by *)
(* what is on disk.                                                        *)

Accepting == <<stage, status, target, active, published, source, brief, parts,
               planArtifacts, staging, scenes, endArtifacts, crashes>>

\* write_json_new creates initial-design.json, then writes it.
EnsureDesign ==
    /\ Begin("initial_accept")
    /\ IF design = "absent"
       THEN design' = "torn" /\ pc' = "design_file"
       ELSE design' = design /\ pc' = "generation"
    /\ UNCHANGED <<Accepting, current, generations, counter, leftovers>>

WriteDesign ==
    /\ pc = "design_file"
    /\ design' = "complete"
    /\ pc' = "generation"
    /\ UNCHANGED <<Accepting, current, generations, counter, leftovers>>

\* A slip: a second Initial Generation for a run that was interrupted.
FoundInitialNever == FALSE
FoundInitial == InitialGenerations # {}

FindInitialGeneration ==
    /\ pc = "generation"
    /\ pc' = IF FoundInitial THEN "advance" ELSE "reserve"
    /\ UNCHANGED <<Accepting, current, design, generations, counter,
                   leftovers>>

ReserveGeneration ==
    /\ pc = "reserve"
    /\ counter' = counter + 1
    /\ pc' = "staging"
    /\ UNCHANGED <<Accepting, current, design, generations, leftovers>>

StageGeneration ==
    /\ pc = "staging"
    /\ leftovers' = leftovers + 1
    /\ pc' = "files"
    /\ UNCHANGED <<Accepting, current, design, generations, counter>>

PublishGeneration ==
    /\ pc = "files"
    /\ leftovers' = leftovers - 1
    /\ generations' = Adopting(generations, counter,
            [parent |-> None, source |-> NoScene, evidence |-> {}])
    /\ pc' = "advance"
    /\ UNCHANGED <<Accepting, current, design, counter>>

AdvanceFromAccept ==
    /\ pc = "advance"
    /\ current' \in InitialGenerations
    /\ AdvanceTo("series_plan", At(0, 0, 0, current'), NoScene)
    /\ pc' = "idle"
    /\ UNCHANGED <<status, published, initialArtifacts, planArtifacts,
                   sceneArtifacts, endArtifacts, counter, leftovers, crashes>>

\* The process dies; what it had written stays.
Crash ==
    /\ pc \in CrashAt
    /\ crashes < MaxCrashes
    /\ crashes' = crashes + 1
    /\ pc' = "idle"
    /\ UNCHANGED <<runState, artifacts, counter, leftovers>>
-----------------------------------------------------------------------------
(* The plans: the adopted candidate is any that meets the contract and, for *)
(* chapters and scenes, what earlier ones left of the revelations.          *)

PlanSeries ==
    /\ Begin("series_plan")
    /\ \E f \in [Volumes -> 0 .. Knowledge] :
        LET p == [count |-> VolumeCount, schedule |-> f, basis |-> current]
        IN  /\ SeriesPlanContract(p)
            /\ seriesPlan' = p
    /\ AdvanceTo("volume_plan", At(1, 0, 0, current), NoScene)
    /\ UNCHANGED <<status, current, published, initialArtifacts, volumePlans,
                   chapterPlans, scenePlans, sceneArtifacts, endArtifacts,
                   counter, acceptance>>

PlanVolume ==
    LET v == target.volume IN
    /\ Begin("volume_plan")
    /\ \E n \in ChapterNumbers, r \in 0 .. Knowledge :
        LET p == [chapters |-> n, revelations |-> r, basis |-> current]
        IN  /\ VolumePlanContract(p, v)
            /\ volumePlans' = Adopting(volumePlans, v, p)
    /\ AdvanceTo("chapter_plan", At(v, 1, 0, current), NoScene)
    /\ UNCHANGED <<status, current, published, initialArtifacts, seriesPlan,
                   chapterPlans, scenePlans, sceneArtifacts, endArtifacts,
                   counter, acceptance>>

ChapterBudget(x, n) ==
    TotalOf(chapterPlans, {<<x[1], c>> : c \in 1 .. x[2] - 1}) + n
        <= volumePlans[x[1]].revelations

SceneBudget(x, n) ==
    TotalOf(scenePlans, {<<x[1], x[2], s>> : s \in 1 .. x[3] - 1}) + n
        <= chapterPlans[<<x[1], x[2]>>].revelations

PlanChapter ==
    LET x == Chapter IN
    /\ Begin("chapter_plan")
    /\ \E n \in SceneCounts, r \in 0 .. Knowledge :
        LET p == [scenes |-> n, revelations |-> r, basis |-> current]
        IN  /\ ChapterPlanContract(p, x)
            /\ ChapterBudget(x, r)
            /\ chapterPlans' = Adopting(chapterPlans, x, p)
    /\ AdvanceTo("scene_plan", At(x[1], x[2], 1, current), NoScene)
    /\ UNCHANGED <<status, current, published, initialArtifacts, seriesPlan,
                   volumePlans, scenePlans, sceneArtifacts, endArtifacts,
                   counter, acceptance>>

PlanScene ==
    LET x == Coords IN
    /\ Begin("scene_plan")
    /\ \E r \in 0 .. Knowledge :
        LET p == [revelations |-> r, basis |-> current]
        IN  /\ ScenePlanContract(p, x)
            /\ SceneBudget(x, r)
            /\ scenePlans' = Adopting(scenePlans, x, p)
    /\ AdvanceTo("scene_card", target, x)
    /\ UNCHANGED <<status, current, published, initialArtifacts, seriesPlan,
                   volumePlans, chapterPlans, sceneArtifacts, endArtifacts,
                   counter, acceptance>>
-----------------------------------------------------------------------------
(* A scene: three files staged by three stages, then committed.            *)

StageFile(file, evidence) ==
    LET old == IF active \in DOMAIN staging THEN staging[active].files ELSE {}
        new == [files |-> old \cup {file}, basis |-> current,
                evidence |-> evidence]
    IN  staging' = [x \in DOMAIN staging \cup {active} |->
                        IF x = active THEN new ELSE staging[x]]

WriteCard ==
    /\ Begin("scene_card")
    /\ StageFile("card", FALSE)
    /\ AdvanceTo("scene_prose", target, active)
    /\ UNCHANGED <<status, current, published, initialArtifacts,
                   planArtifacts, scenes, generations, endArtifacts, counter,
                   acceptance>>

WriteProse ==
    /\ Begin("scene_prose")
    /\ StageFile("prose", FALSE)
    /\ AdvanceTo("scene_continuity", target, active)
    /\ UNCHANGED <<status, current, published, initialArtifacts,
                   planArtifacts, scenes, generations, endArtifacts, counter,
                   acceptance>>

\* The continuity names the generation the scene will result in and may
\* record evidence found in the prose.
WriteContinuity ==
    /\ Begin("scene_continuity")
    /\ counter' = counter + 1
    /\ \E evidence \in BOOLEAN :
        /\ evidence => target.volume \in EvidenceIn
        /\ StageFile("continuity", evidence)
    /\ AdvanceTo("scene_commit", [target EXCEPT !.result = counter'], active)
    /\ UNCHANGED <<status, current, published, initialArtifacts,
                   planArtifacts, scenes, generations, endArtifacts,
                   acceptance>>

\* A slip: the next chapter is tried before the next scene.
AfterSceneSwapped(g) ==
    LET v == target.volume  c == target.chapter  s == target.scene IN
    IF c < volumePlans[v].chapters
    THEN <<"chapter_plan", At(v, c + 1, 0, g)>>
    ELSE IF s < chapterPlans[Chapter].scenes
    THEN <<"scene_plan", At(v, c, s + 1, g)>>
    ELSE <<"volume_handoff", At(v, 0, 0, g)>>

\* determine_scene_commit_transition
AfterScene(g) ==
    LET v == target.volume  c == target.chapter  s == target.scene IN
    IF s < chapterPlans[Chapter].scenes
    THEN <<"scene_plan", At(v, c, s + 1, g)>>
    ELSE IF c < volumePlans[v].chapters
    THEN <<"chapter_plan", At(v, c + 1, 0, g)>>
    ELSE <<"volume_handoff", At(v, 0, 0, g)>>

CommitScene ==
    LET g == target.result
        new == IF staging[active].evidence THEN {active} ELSE {}
    IN
    /\ Begin("scene_commit")
    /\ scenes' = Adopting(scenes, active, [parent |-> current, result |-> g])
    /\ generations' = Adopting(generations, g,
            [parent |-> current, source |-> active,
             evidence |-> generations[current].evidence \cup new])
    /\ staging' = [x \in DOMAIN staging \ {active} |-> staging[x]]
    /\ current' = g
    /\ AdvanceTo(AfterScene(g)[1], AfterScene(g)[2], NoScene)
    /\ UNCHANGED <<status, published, initialArtifacts, planArtifacts,
                   endArtifacts, counter, acceptance>>
-----------------------------------------------------------------------------
(* The end of a volume and of the series.                                  *)

\* A slip: the number of the volume is not increased.
AfterHandoffSame(v) ==
    IF v < seriesPlan.count
    THEN <<"volume_plan", At(v, 0, 0, current)>>
    ELSE <<"completion", At(v, 0, 0, current)>>

\* determine_volume_handoff_transition
AfterHandoff(v) ==
    IF v < seriesPlan.count
    THEN <<"volume_plan", At(v + 1, 0, 0, current)>>
    ELSE <<"completion", At(v, 0, 0, current)>>

HandOff ==
    LET v == target.volume IN
    /\ Begin("volume_handoff")
    /\ handoffs' = Adopting(handoffs, v,
            [basis |-> current, scenes |-> PlannedScenes(v)])
    /\ AdvanceTo(AfterHandoff(v)[1], AfterHandoff(v)[2], NoScene)
    /\ UNCHANGED <<status, current, published, initialArtifacts,
                   planArtifacts, sceneArtifacts, completions, publications,
                   counter, acceptance>>

\* _after_adoption: an incomplete series is adopted as such and the run stops.
Complete ==
    /\ Begin("completion")
    /\ \E verdict \in CompletionStatus :
        /\ completions' = Adopting(completions, 1,
                [status |-> verdict, basis |-> current])
        /\ \/ /\ verdict = "incomplete"
              /\ status' = "blocked"
              /\ UNCHANGED <<stage, target, active>>
           \/ /\ verdict # "incomplete"
              /\ status' = status
              /\ AdvanceTo("publication",
                           [At(0, 0, 0, current) EXCEPT !.completion = 1],
                           NoScene)
    /\ UNCHANGED <<current, published, initialArtifacts, planArtifacts,
                   sceneArtifacts, handoffs, publications, counter,
                   acceptance>>

Publish ==
    /\ Begin("publication")
    /\ publications' = Adopting(publications, 1,
            [completion |-> target.completion, basis |-> current,
             scenes |-> UNION {PlannedScenes(v) : v \in LoadedVolumes}])
    /\ published' = 1
    /\ target' = [target EXCEPT !.publication = 1]
    /\ status' = "completed"
    /\ UNCHANGED <<stage, active, current, initialArtifacts, planArtifacts,
                   sceneArtifacts, handoffs, completions, counter, acceptance>>

\* A candidate stage gives up, after its revisions or on what the review
\* found.
Block ==
    /\ AtRest /\ Layout /\ Ready
    /\ stage \notin CodeStages
    /\ stage = "input" => source = "keywords"
    /\ status' = "blocked"
    /\ UNCHANGED <<stage, target, active, current, published, artifacts,
                   counter, acceptance>>
-----------------------------------------------------------------------------
Accept == EnsureDesign \/ WriteDesign \/ FindInitialGeneration
          \/ ReserveGeneration \/ StageGeneration \/ PublishGeneration
          \/ AdvanceFromAccept
Plan == PlanSeries \/ PlanVolume \/ PlanChapter \/ PlanScene
WriteScene == WriteCard \/ WriteProse \/ WriteContinuity \/ CommitScene
Step == AcceptInput \/ AdoptPart \/ Accept \/ Plan \/ WriteScene \/ HandOff
        \/ Complete \/ Publish

\* Nothing more happens: the run ended, or every command is refused.
Rest == (status # "running" \/ Refused) /\ UNCHANGED vars

Next == Step \/ Crash \/ Block \/ Rest

Spec == Init /\ [][Next]_vars

\* step is called again, by the command loop or by the next command, as long
\* as the run goes on.
FairSpec == Spec /\ WF_vars(Step)
-----------------------------------------------------------------------------
\* End to end, the scenes planned for a volume disclose no more knowledge than
\* the Series Plan scheduled for it, though each plan sees only its parent and
\* the plans before it.
RevelationsWithinSchedule ==
    \A v \in DOMAIN volumePlans :
        TotalOf(scenePlans, {x \in DOMAIN scenePlans : x[1] = v})
            <= seriesPlan.schedule[v]

\* The committed scenes are always the first ones in the order of reading, as
\* far as it is planned, and the generations follow them: each scene starts on
\* the result of the one before it, the first on the generation of the Series
\* Plan, and the current generation is the last result.
ReadingOrderIsHistory ==
    LET done == DOMAIN scenes
        planned == UNION {ScenesOf(x) : x \in DOMAIN chapterPlans}
    IN
    seriesPlan # NoPlan =>
        /\ \A x \in done : Earlier(x, planned) \subseteq done
        /\ \A x \in done : 1 .. x[1] - 1 \subseteq DOMAIN handoffs
        /\ LineageOf(done)
        /\ current = IF done = {} THEN seriesPlan.basis
                                  ELSE scenes[LastOf(done)].result

\* The two ways a stage is known to be refused by what earlier stages left.
ForeignEvidence ==
    /\ stage = "volume_handoff"
    /\ generations[current].evidence \ PlannedScenes(target.volume) # {}
LeftStaging == stage = "completion" /\ leftovers > 0

\* What each stage hands over is what the next one asks for, and each validator
\* of the layout agrees with each adopter on budgets, numbers and ids, after a
\* crash of initial_accept between its writes too: a run is refused
\* only for evidence inherited from an earlier volume, at volume_handoff, or
\* for the staging directory a dead initial_accept left, at completion.
RefusedOnlyForLeftovers == Refused => ForeignEvidence \/ LeftStaging

\* A publication prints the scenes of every volume, all of them committed, and
\* rests on the completion and the generation that close the series.
PublishedIsWhole ==
    status = "completed" =>
        LET p == publications[published] IN
        /\ p.scenes = DOMAIN scenes
        /\ p.scenes = UNION {handoffs[v].scenes : v \in Volumes}
        /\ completions[p.completion].status # "incomplete"
        /\ {p.basis, completions[p.completion].basis,
            handoffs[VolumeCount].basis} = {current}

\* A run ends, published or blocked, unless it is refused for one of the two
\* known reasons: no stage hands over to one that comes back to it.
EveryRunEnds == <>(status # "running" \/ ForeignEvidence \/ LeftStaging)

\* docs/PIPELINE.md: a volume whose scenes are all committed goes on to its
\* handoff, and the series loop to the next volume.
FinishedVolumeGetsHandoff == ~(stage = "volume_handoff" /\ Refused)
-----------------------------------------------------------------------------
(* What a reader sees of the run who looks at nothing but the story.       *)

History == {[scene |-> x, generation |-> scenes[x].result,
             parent |-> scenes[x].parent] : x \in DOMAIN scenes}
Handed == {[volume |-> v, scenes |-> handoffs[v].scenes,
            generation |-> handoffs[v].basis] : v \in DOMAIN handoffs}
Books == {[scenes |-> publications[p].scenes,
           generation |-> publications[p].basis] : p \in DOMAIN publications}

Atomic == INSTANCE AtomicSeries WITH
            Last <- VolumeCount,
            Unfounded <- None,
            Places <- (Nat \ {0}) \X (Nat \ {0}) \X (Nat \ {0}),
            history <- History,
            head <- current,
            handed <- Handed,
            books <- Books

\* Twenty stages that share nothing but files write one story: each scene in
\* its place after the last one and on the generation that one left, each
\* handoff of a volume as it was written, one book of everything; and nothing
\* that is written, handed over or printed is touched by a later stage.
ImplementsAtomicSeries == Atomic!SeriesSpec
=============================================================================
