-------------------------- MODULE WorkspaceLayout --------------------------
(***************************************************************************)
(* What a workspace holds and what validate_workspace_layout asks of it at *)
(* the start of every step.  Artifacts are immutable: a partial function   *)
(* maps the coordinates of each adopted one to the facts other code reads  *)
(* from it.  Texts are left out; the ids the code formats from coordinates *)
(* are the coordinates.                                                    *)
(***************************************************************************)
EXTENDS Naturals, FiniteSets, Sequences, FiniteSetsExt

CONSTANTS
    VolumeCount,    \* volume_count of the Brief
    ChapterCounts,  \* volume -> numbers of chapters its plan may have
    SceneCounts,    \* numbers of scenes a chapter plan may have
    Knowledge       \* knowledge facts of the Initial Design

ASSUME BriefAssumption ==
    /\ VolumeCount \in Nat \ {0}
    /\ ChapterCounts \in [1 .. VolumeCount -> SUBSET (Nat \ {0})]
    /\ SceneCounts \subseteq Nat \ {0}
    /\ Knowledge \in Nat

None == 0
NoScene == <<0, 0, 0>>
NoPlan == [count |-> 0]
DesignParts == <<"concept", "characters", "relationships", "world",
                 "knowledge", "threads", "ending", "integrated">>
SceneFiles == {"card", "prose", "continuity"}
Volumes == 1 .. VolumeCount

VARIABLES
    (* runtime/run-state.json *)
    stage, status,
    target,       \* coordinates, basis and ids of current_target
    active,       \* active_scene_id
    current,      \* current_generation_id
    published,    \* current_publication_id
    (* the artifacts *)
    source,       \* input/source.json: "brief" or "keywords"
    brief,        \* whether input/brief.json exists
    parts,        \* files of design/initial/v0001 adopted so far
    design,       \* initial-design.json: "absent", "torn", "complete"
    seriesPlan,
    volumePlans,  \* volume -> plan
    chapterPlans, \* <<volume, chapter>> -> plan
    scenePlans,   \* <<volume, chapter, scene>> -> plan
    staging,      \* runtime/staging/scene-*: scene -> files so far
    scenes,       \* scene -> parent and result generation of its commit
    generations,  \* id -> parent, source scene and evidence
    handoffs,     \* volume -> basis and completed scenes
    completions,  \* id -> status and basis
    publications  \* id -> completion, basis and the scenes printed

TotalOf(f, S) == MapThenSumSet(LAMBDA x : f[x].revelations, S)

ChaptersOf(v) == {<<v, c>> : c \in 1 .. volumePlans[v].chapters}
ScenesOf(x) == {<<x[1], x[2], s>> : s \in 1 .. chapterPlans[x].scenes}
PlannedScenes(v) == UNION {ScenesOf(x) : x \in ChaptersOf(v)}

\* The order of reading.
Precedes(x, y) ==
    \/ x[1] < y[1]
    \/ x[1] = y[1] /\ x[2] < y[2]
    \/ x[1] = y[1] /\ x[2] = y[2] /\ x[3] < y[3]

LastOf(S) == CHOOSE x \in S : \A y \in S : x = y \/ Precedes(y, x)
-----------------------------------------------------------------------------
(* The contracts an adopted plan, and the candidate before it, must meet.  *)

\* One disclosure of each knowledge fact at most, in one of the volumes.
SeriesPlanContract(p) ==
    /\ p.count = VolumeCount
    /\ DOMAIN p.schedule = Volumes
    /\ MapThenSumSet(LAMBDA v : p.schedule[v], Volumes) <= Knowledge

\* A plausible slip: a volume may disclose what another was to disclose.
VolumePlanContractLoose(p, v) ==
    /\ v <= seriesPlan.count
    /\ p.revelations <= Knowledge
    /\ p.chapters \in ChapterCounts[v]

VolumePlanContract(p, v) ==
    /\ v <= seriesPlan.count
    /\ p.revelations = seriesPlan.schedule[v]
    /\ p.chapters \in ChapterCounts[v]

ChapterPlanContract(p, x) == p.revelations <= volumePlans[x[1]].revelations

ScenePlanContract(p, x) ==
    p.revelations <= chapterPlans[<<x[1], x[2]>>].revelations
-----------------------------------------------------------------------------
(* validate_workspace_layout, one definition per part of the workspace     *)

InputValid == source = "brief" => brief

\* Each part of the Initial Design needs the part before it.
DesignPartsValid ==
    /\ parts # {} => brief
    /\ \A i \in 2 .. Len(DesignParts) :
            DesignParts[i] \in parts => DesignParts[i - 1] \in parts
    /\ design # "absent" => "integrated" \in parts
    /\ design # "torn"

InitialGenerations == {g \in DOMAIN generations : generations[g].parent = None}

GenerationsValid ==
    /\ design = "absent" => current = None /\ DOMAIN generations = {}
    /\ DOMAIN generations # {} => Cardinality(InitialGenerations) = 1
    /\ \A g \in DOMAIN generations \ InitialGenerations :
            generations[g].parent \in DOMAIN generations \ {g}
    /\ IF current = None
       THEN stage # "initial_accept" => DOMAIN generations = {}
       ELSE current \in DOMAIN generations

SeriesPlanValid ==
    seriesPlan # NoPlan => /\ design = "complete"
                           /\ seriesPlan.basis \in DOMAIN generations
                           /\ SeriesPlanContract(seriesPlan)

VolumePlansValid ==
    \A v \in DOMAIN volumePlans :
        /\ seriesPlan # NoPlan
        /\ volumePlans[v].basis \in DOMAIN generations
        /\ VolumePlanContract(volumePlans[v], v)

ChapterPlansValid ==
    /\ \A x \in DOMAIN chapterPlans :
            /\ x[1] \in DOMAIN volumePlans
            /\ chapterPlans[x].basis \in DOMAIN generations
            /\ ChapterPlanContract(chapterPlans[x], x)
            /\ x[2] > 1 => <<x[1], x[2] - 1>> \in DOMAIN chapterPlans
    /\ \A v \in DOMAIN volumePlans :
            TotalOf(chapterPlans, {x \in DOMAIN chapterPlans : x[1] = v})
                <= volumePlans[v].revelations

ScenePlansValid ==
    /\ \A x \in DOMAIN scenePlans :
            /\ x[1] \in DOMAIN volumePlans
            /\ <<x[1], x[2]>> \in DOMAIN chapterPlans
            /\ scenePlans[x].basis \in DOMAIN generations
            /\ ScenePlanContract(scenePlans[x], x)
            /\ x[3] > 1 => <<x[1], x[2], x[3] - 1>> \in DOMAIN scenePlans
    /\ \A y \in DOMAIN chapterPlans :
            TotalOf(scenePlans,
                    {x \in DOMAIN scenePlans : <<x[1], x[2]>> = y})
                <= chapterPlans[y].revelations

HandoffsValid ==
    /\ DOMAIN handoffs = 1 .. Cardinality(DOMAIN handoffs)
    /\ \A v \in DOMAIN handoffs :
            /\ seriesPlan # NoPlan /\ v <= seriesPlan.count
            /\ handoffs[v].basis \in DOMAIN generations
            /\ v \in DOMAIN volumePlans
            /\ ChaptersOf(v) \subseteq DOMAIN chapterPlans
            /\ handoffs[v].scenes = PlannedScenes(v)

CompletionsValid ==
    \A k \in DOMAIN completions :
        /\ seriesPlan # NoPlan
        /\ 1 .. seriesPlan.count \subseteq DOMAIN handoffs
        /\ completions[k].basis \in DOMAIN generations

PublicationsValid ==
    /\ \A p \in DOMAIN publications :
            /\ publications[p].completion \in DOMAIN completions
            /\ publications[p].basis \in DOMAIN generations
    /\ published # None => published \in DOMAIN publications
    /\ status = "completed" => target.publication = published

\* An incomplete directory is admitted only for the scene scene_commit works
\* on: it is restored there.
SceneStagingValid ==
    \A x \in DOMAIN staging :
        \/ /\ stage = "scene_commit" /\ x = active
           /\ SceneFiles \ staging[x].files # {}
        \/ /\ "card" \in staging[x].files
           /\ x \in DOMAIN scenePlans
           /\ staging[x].basis \in DOMAIN generations
           /\ "continuity" \in staging[x].files => "prose" \in staging[x].files

Layout ==
    /\ InputValid /\ DesignPartsValid /\ GenerationsValid
    /\ SeriesPlanValid /\ VolumePlansValid
    /\ ChapterPlansValid /\ ScenePlansValid
    /\ HandoffsValid /\ CompletionsValid /\ PublicationsValid
    /\ SceneStagingValid
=============================================================================
