---------------------------- MODULE Pipeline_proofs ----------------------------
(***************************************************************************)
(* Theorems about Pipeline, for any number of volumes, chapters and        *)
(* scenes, any knowledge to disclose and any number of crashes.            *)
(*                                                                         *)
(* The stages share nothing but the artifacts and the target they hand on. *)
(* The invariants say what the target stands for: where in the order of    *)
(* reading the run is, what is planned and written before it, and what not *)
(* yet behind it.                                                          *)
(***************************************************************************)
EXTENDS Pipeline, FiniteSetTheorems, TLAPS

\* Numbers and places of the plans, and the groups of stages after the series
\* plan: writing a scene, planning and handing over, and closing the series.
Positive == Nat \ {0}
Places == Positive \X Positive \X Positive

Targets == [volume : Nat, chapter : Nat, scene : Nat, basis : Nat,
            result : Nat, completion : Nat, publication : Nat]

SceneWork == {"scene_plan"} \cup SceneStages
Open == {"volume_plan", "chapter_plan", "volume_handoff"} \cup SceneWork
Closing == {"completion", "publication"}
Later == Open \cup Closing

\* The numbers the run goes by are numbers.
Located ==
    /\ target \in Targets
    /\ current \in Nat /\ counter \in Nat /\ DOMAIN generations \subseteq Nat

\* The plans, scenes and handoffs are kept under places that can exist.
Typed ==
    /\ seriesPlan \in [count : {VolumeCount}, schedule : [Volumes -> Nat],
                       basis : Nat] \cup {NoPlan}
    /\ DOMAIN volumePlans \subseteq Volumes
    /\ volumePlans \in [DOMAIN volumePlans ->
                        [chapters : Positive, revelations : Nat, basis : Nat]]
    /\ DOMAIN chapterPlans \subseteq Volumes \X Positive
    /\ chapterPlans \in [DOMAIN chapterPlans ->
                         [scenes : Positive, revelations : Nat, basis : Nat]]
    /\ DOMAIN scenes \subseteq Places
    /\ scenes \in [DOMAIN scenes -> [parent : Nat, result : Nat]]
    /\ DOMAIN handoffs \subseteq Volumes
    /\ handoffs \in [DOMAIN handoffs ->
                     [basis : Nat, scenes : SUBSET Places]]

\* initial_accept is the only stage that is interrupted between its writes.
Control == pc # "idle" => stage = "initial_accept" /\ status = "running"

\* Before the Series Plan there is nothing of it.
Blank ==
    stage \notin Later =>
        /\ seriesPlan = NoPlan
        /\ DOMAIN volumePlans = {} /\ DOMAIN chapterPlans = {}
        /\ DOMAIN scenes = {} /\ DOMAIN handoffs = {}

\* The target is a place the plans know, and no chapter behind it is planned.
Placed ==
    /\ stage \in Later => seriesPlan # NoPlan
    /\ stage \in Open => target.volume \in Volumes
    /\ stage = "volume_plan" =>
        \A y \in DOMAIN chapterPlans : y[1] < target.volume
    /\ stage = "chapter_plan" =>
        /\ target.chapter \in Positive
        /\ \A y \in DOMAIN chapterPlans :
            \/ y[1] < target.volume
            \/ y[1] = target.volume /\ y[2] < target.chapter
    /\ stage \in SceneWork =>
        /\ Chapter \in DOMAIN chapterPlans
        /\ target.scene \in 1 .. chapterPlans[Chapter].scenes
        /\ \A y \in DOMAIN chapterPlans :
            \/ y[1] < target.volume
            \/ y[1] = target.volume /\ y[2] <= target.chapter
    /\ stage = "volume_handoff" =>
        \A y \in DOMAIN chapterPlans : y[1] <= target.volume

\* What is planned is written, but for the rest of the chapter in work.
Written ==
    stage \in Later =>
        DOMAIN scenes =
            {x \in Places :
                /\ <<x[1], x[2]>> \in DOMAIN chapterPlans
                /\ x[3] <= chapterPlans[<<x[1], x[2]>>].scenes
                /\ stage \in SceneWork /\ <<x[1], x[2]>> = Chapter =>
                        x[3] < target.scene}

\* The volumes behind the run are handed over, the last one at the end of it.
HandedOver ==
    /\ stage \in Open => 1 .. target.volume - 1 \subseteq DOMAIN handoffs
    /\ \A x \in DOMAIN scenes : 1 .. x[1] - 1 \subseteq DOMAIN handoffs
    /\ stage \in Closing => VolumeCount \in DOMAIN handoffs
                            /\ handoffs[VolumeCount].basis = current

\* A set of scenes, unless it is empty, has a last one.
HasLast(S) ==
    S # {} => /\ LastOf(S) \in S
              /\ \A y \in S : LastOf(S) = y \/ Precedes(y, LastOf(S))

\* Each scene starts where the one before it ended.
Lineage ==
    seriesPlan # NoPlan =>
        /\ LineageOf(DOMAIN scenes)
        /\ HasLast(DOMAIN scenes)
        /\ \A x \in DOMAIN scenes : HasLast(Earlier(x, DOMAIN scenes))
        /\ current = IF DOMAIN scenes = {} THEN seriesPlan.basis
                     ELSE scenes[LastOf(DOMAIN scenes)].result

\* Nothing is published before the run is completed.
Unpublished == status # "completed" => DOMAIN publications = {}

\* The invariant behind the order of reading and the publication.
Inv == /\ Located /\ Typed /\ Control /\ Blank /\ Placed /\ Written /\ HandedOver
       /\ Lineage /\ Unpublished /\ PublishedIsWhole
-----------------------------------------------------------------------------
(* The order of reading, and the stages.                                    *)

\* The order of reading is strict.
LEMMA PrecedesStrictly ==
    ASSUME NEW x \in Places, NEW y \in Places, Precedes(x, y)
    PROVE  x # y /\ ~Precedes(y, x)
BY DEF Places, Positive, Precedes

\* A scene that all others of a set precede is the last of it.
LEMMA LastIs ==
    ASSUME NEW S \in SUBSET Places, NEW x \in S,
           \A y \in S : x = y \/ Precedes(y, x)
    PROVE  LastOf(S) = x
<1>1. \A z \in S : (\A y \in S : z = y \/ Precedes(y, z)) => z = x
    BY PrecedesStrictly
<1>2. QED
    BY <1>1 DEF LastOf

\* The stages of the Initial Design come before the plans.
LEMMA PartsComeFirst ==
    /\ \A i \in 1 .. 8 : InitialStages[i] \notin Later \cup {"initial_accept"}
    /\ {"input", "initial_accept", "series_plan"} \cap Later = {}
BY DEF InitialStages, Later, Open, Closing, SceneWork, SceneStages
-----------------------------------------------------------------------------
(* Each stage keeps the invariant.                                          *)

\* The workspace as it is created.
LEMMA InitInv == Init => Inv
<1> SUFFICES ASSUME Init PROVE Inv
    OBVIOUS
<1>1. stage \notin Later
    BY PartsComeFirst DEF Init
<1>2. Located
    BY DEF Init, Located, Targets, NoTarget, None
<1>3. Typed
    BY DEF Init, Typed
<1>4. Control /\ Blank /\ Placed /\ Written /\ HandedOver /\ Lineage
    BY <1>1
    DEF Init, Control, Blank, Placed, Written, HandedOver, Lineage, Later,
        Open, Closing, SceneWork, SceneStages
<1>5. Unpublished /\ PublishedIsWhole
    BY DEF Init, Unpublished, PublishedIsWhole
<1>6. QED
    BY <1>2, <1>3, <1>4, <1>5 DEF Inv

\* The Brief and the Initial Design plan nothing.
LEMMA BeginningKeeps ==
    ASSUME Inv, AcceptInput \/ AdoptPart
    PROVE  Inv'
<1>0. Located /\ Typed /\ Control /\ Blank /\ Unpublished
    BY DEF Inv
<1>1. /\ stage' \notin Later /\ stage \notin Later
      /\ target' = NoTarget
      /\ UNCHANGED <<status, current, published, planArtifacts, sceneArtifacts,
                     endArtifacts, counter, acceptance>>
      /\ pc = "idle" /\ status = "running"
    BY PartsComeFirst
    DEF AcceptInput, AdoptPart, Begin, AtRest, AdvanceTo, Later, Open, Closing,
        SceneWork, SceneStages
<1>2. Located'
    BY <1>0, <1>1 DEF Located, Targets, NoTarget, None, sceneArtifacts
<1>3. Typed'
    BY <1>0, <1>1 DEF Typed, planArtifacts, sceneArtifacts, endArtifacts
<1>4. (Control /\ Blank /\ Placed /\ Written /\ HandedOver /\ Lineage)'
    BY <1>0, <1>1
    DEF Control, Blank, Placed, Written, HandedOver, Lineage, planArtifacts,
        sceneArtifacts, endArtifacts, acceptance, Open, Closing, Later
<1>5. (Unpublished /\ PublishedIsWhole)'
    BY <1>0, <1>1 DEF Unpublished, PublishedIsWhole, endArtifacts
<1>6. QED
    BY <1>2, <1>3, <1>4, <1>5 DEF Inv

\* initial_accept makes the first generation, on which nothing is planned yet.
LEMMA AcceptKeeps ==
    ASSUME Inv, Accept \/ Crash
    PROVE  Inv'
<1>0. Located /\ Typed /\ Control /\ Blank /\ Unpublished
    BY DEF Inv
<1>1. /\ stage \notin Later /\ stage' \notin Later /\ status = "running"
      /\ pc' # "idle" => stage' = "initial_accept"
      /\ UNCHANGED <<status, planArtifacts, scenes, endArtifacts>>
  <2>1. CASE AdvanceFromAccept
    BY <1>0, <2>1, PartsComeFirst
    DEF AdvanceFromAccept, AdvanceTo, Control, sceneArtifacts
  <2>2. CASE EnsureDesign
    BY <2>2, PartsComeFirst DEF EnsureDesign, Accepting, Begin, AtRest
  <2>3. CASE WriteDesign \/ FindInitialGeneration \/ ReserveGeneration
    BY <1>0, <2>3, PartsComeFirst
    DEF WriteDesign, FindInitialGeneration, ReserveGeneration, Accepting,
        Control
  <2>4. CASE StageGeneration \/ PublishGeneration
    BY <1>0, <2>4, PartsComeFirst
    DEF StageGeneration, PublishGeneration, Accepting, Control
  <2>5. CASE Crash
    BY <1>0, <2>5, PartsComeFirst, PipelineAssumption
    DEF Crash, Control, runState, artifacts, sceneArtifacts, AcceptLabels
  <2>6. QED
    BY <2>1, <2>2, <2>3, <2>4, <2>5 DEF Accept
<1>2. Located'
  <2>1. CASE AdvanceFromAccept
    <3>1. current' \in Nat /\ target' = At(0, 0, 0, current')
        BY <1>0, <2>1 DEF AdvanceFromAccept, InitialGenerations, Located, AdvanceTo
    <3>2. QED
        BY <1>0, <2>1, <3>1
        DEF AdvanceFromAccept, Located, sceneArtifacts, At, Targets, None
  <2>2. CASE EnsureDesign \/ WriteDesign \/ FindInitialGeneration
             \/ ReserveGeneration
    BY <1>0, <2>2
    DEF EnsureDesign, WriteDesign, FindInitialGeneration, ReserveGeneration,
        Accepting, Located
  <2>3. CASE StageGeneration \/ PublishGeneration
    BY <1>0, <2>3
    DEF StageGeneration, PublishGeneration, Accepting, Located, Adopting
  <2>4. CASE Crash
    BY <1>0, <2>4
    DEF Crash, runState, artifacts, sceneArtifacts, Located
  <2>5. QED
    BY <2>1, <2>2, <2>3, <2>4 DEF Accept
<1>3. Typed'
    BY <1>0, <1>1 DEF Typed, planArtifacts, endArtifacts
<1>4. (Control /\ Blank /\ Placed /\ Written /\ HandedOver /\ Lineage)'
    BY <1>0, <1>1
    DEF Control, Blank, Placed, Written, HandedOver, Lineage, planArtifacts,
        endArtifacts, Open, Closing, Later
<1>5. (Unpublished /\ PublishedIsWhole)'
    BY <1>0, <1>1 DEF Unpublished, PublishedIsWhole, endArtifacts
<1>6. QED
    BY <1>2, <1>3, <1>4, <1>5 DEF Inv

\* A stage that gives up leaves everything where it is.
LEMMA BlockKeeps ==
    ASSUME Inv, Block \/ UNCHANGED vars
    PROVE  Inv'
<1>0. /\ Located /\ Typed /\ Control /\ Blank /\ Placed /\ Written
      /\ HandedOver /\ Lineage /\ Unpublished /\ PublishedIsWhole
    BY DEF Inv
<1>1. /\ UNCHANGED <<stage, target, active, current, published, artifacts,
                     counter, acceptance>>
      /\ \/ status' = status
         \/ status' = "blocked" /\ status = "running" /\ pc = "idle"
    BY DEF Block, AtRest, vars, runState
<1>2. UNCHANGED <<planArtifacts, sceneArtifacts, endArtifacts, pc>>
    BY <1>1 DEF artifacts, acceptance
<1>3. (Located /\ Typed)'
    BY <1>0, <1>1, <1>2
    DEF Located, Typed, planArtifacts, sceneArtifacts, endArtifacts
<1>4. (Control /\ Blank /\ Placed /\ Written)'
    BY <1>0, <1>1, <1>2
    DEF Control, Blank, Placed, Written, planArtifacts, sceneArtifacts,
        endArtifacts, Chapter
<1>5. (HandedOver /\ Lineage)'
    BY <1>0, <1>1, <1>2
    DEF HandedOver, Lineage, planArtifacts, sceneArtifacts, endArtifacts,
        LineageOf
<1>6. (Unpublished /\ PublishedIsWhole)'
    BY <1>0, <1>1, <1>2
    DEF Unpublished, PublishedIsWhole, sceneArtifacts, endArtifacts
<1>7. QED
    BY <1>3, <1>4, <1>5, <1>6 DEF Inv

\* The Series Plan starts the first volume.
LEMMA PlanSeriesKeeps ==
    ASSUME Inv, PlanSeries
    PROVE  Inv'
<1>0. Located /\ Typed /\ Control /\ Blank /\ Unpublished
    BY DEF Inv
<1>1. /\ stage = "series_plan" /\ stage \notin Later /\ stage' = "volume_plan"
      /\ target' = At(1, 0, 0, current) /\ pc = "idle" /\ status = "running"
      /\ UNCHANGED <<status, current, published, volumePlans, chapterPlans,
                     scenePlans, sceneArtifacts, endArtifacts, counter,
                     acceptance>>
    BY PartsComeFirst DEF PlanSeries, Begin, AtRest, AdvanceTo
<1>2. PICK f \in [Volumes -> 0 .. Knowledge] :
        seriesPlan' = [count |-> VolumeCount, schedule |-> f, basis |-> current]
    BY DEF PlanSeries
<1>3. f \in [Volumes -> Nat] /\ 1 \in Volumes
    BY <1>2, BriefAssumption DEF Volumes
<1>4. Located' /\ target'.volume = 1
    BY <1>0, <1>1 DEF Located, sceneArtifacts, At, Targets, None
<1>5. Typed'
    BY <1>0, <1>1, <1>2, <1>3 DEF Located, Typed, sceneArtifacts, endArtifacts
<1>6. (Control /\ Blank /\ Placed /\ Written)'
    BY <1>0, <1>1, <1>2, <1>3, <1>4
    DEF Control, Blank, Placed, Written, sceneArtifacts, endArtifacts,
        acceptance, Later, Open, Closing, SceneWork, SceneStages, NoPlan
<1>7. (HandedOver /\ Lineage)'
    BY <1>0, <1>1, <1>2, <1>4
    DEF Blank, HandedOver, Lineage, sceneArtifacts, endArtifacts, LineageOf,
        HasLast, Closing
<1>8. (Unpublished /\ PublishedIsWhole)'
    BY <1>0, <1>1 DEF Unpublished, PublishedIsWhole, endArtifacts
<1>9. QED
    BY <1>4, <1>5, <1>6, <1>7, <1>8 DEF Inv

\* A volume plan comes when all before it is written, and so does the plan of
\* a chapter.
LEMMA PlanVolumeKeeps ==
    ASSUME Inv, PlanVolume
    PROVE  Inv'
<1> DEFINE v == target.volume
<1>0. /\ Located /\ Typed /\ Control /\ Blank /\ Placed /\ Written
      /\ HandedOver /\ Lineage /\ Unpublished
    BY DEF Inv
<1>1. /\ stage = "volume_plan" /\ stage' = "chapter_plan"
      /\ target' = At(v, 1, 0, current) /\ pc = "idle" /\ status = "running"
      /\ v \notin DOMAIN volumePlans
      /\ UNCHANGED <<status, current, published, seriesPlan, chapterPlans,
                     scenePlans, sceneArtifacts, endArtifacts, counter,
                     acceptance>>
    BY DEF PlanVolume, Begin, AtRest, AdvanceTo, Ready, VolumePlanReady
<1>2. v \in Volumes /\ v \in Nat
    BY <1>0, <1>1 DEF Placed, Open, Volumes
<1>3. PICK n \in ChapterNumbers, r \in 0 .. Knowledge :
        volumePlans' = Adopting(volumePlans, v,
            [chapters |-> n, revelations |-> r, basis |-> current])
    BY DEF PlanVolume
<1>4. n \in Positive /\ r \in Nat
    BY BriefAssumption, <1>3 DEF ChapterNumbers, Volumes, Positive
<1>5. /\ DOMAIN volumePlans' \subseteq Volumes
      /\ volumePlans' \in [DOMAIN volumePlans' ->
                        [chapters : Positive, revelations : Nat, basis : Nat]]
    BY <1>0, <1>1, <1>2, <1>3, <1>4 DEF Located, Typed, Adopting
<1>6. Located' /\ target'.volume = v /\ target'.chapter = 1
    BY <1>0, <1>1, <1>2 DEF Located, sceneArtifacts, At, Targets, None
<1>7. Typed'
    BY <1>0, <1>1, <1>5 DEF Typed, sceneArtifacts, endArtifacts
<1>8. (Control /\ Blank /\ Placed /\ Written)'
    BY <1>0, <1>1, <1>2, <1>6
    DEF Control, Blank, Placed, Written, sceneArtifacts, acceptance, Later,
        Open, Closing, SceneWork, SceneStages, Positive
<1>9. (HandedOver /\ Lineage)'
    BY <1>0, <1>1, <1>6
    DEF HandedOver, Lineage, sceneArtifacts, endArtifacts, LineageOf, Open,
        Closing, SceneWork, SceneStages
<1>10. (Unpublished /\ PublishedIsWhole)'
    BY <1>0, <1>1 DEF Unpublished, PublishedIsWhole, endArtifacts
<1>11. QED
    BY <1>6, <1>7, <1>8, <1>9, <1>10 DEF Inv

\* The Chapter Plan opens the scenes of the next chapter of the volume.
LEMMA PlanChapterKeeps ==
    ASSUME Inv, PlanChapter
    PROVE  Inv'
<1> DEFINE v == target.volume
           c == target.chapter
<1>0. /\ Located /\ Typed /\ Control /\ Blank /\ Placed /\ Written
      /\ HandedOver /\ Lineage /\ Unpublished
    BY DEF Inv
<1>1. /\ stage = "chapter_plan" /\ stage' = "scene_plan"
      /\ target' = At(v, c, 1, current) /\ pc = "idle" /\ status = "running"
      /\ <<v, c>> \notin DOMAIN chapterPlans
      /\ UNCHANGED <<status, current, published, seriesPlan, volumePlans,
                     scenePlans, sceneArtifacts, endArtifacts, counter,
                     acceptance>>
    BY DEF PlanChapter, Begin, AtRest, AdvanceTo, Ready, ChapterPlanReady, Chapter
<1>2. v \in Volumes /\ v \in Nat /\ c \in Positive /\ c \in Nat
    BY <1>0, <1>1 DEF Placed, Open, Volumes, Positive
<1>3. PICK n \in SceneCounts, r \in 0 .. Knowledge :
        chapterPlans' = Adopting(chapterPlans, <<v, c>>,
            [scenes |-> n, revelations |-> r, basis |-> current])
    BY DEF PlanChapter, Chapter
<1>4. n \in Positive /\ r \in Nat
    BY BriefAssumption, <1>3 DEF Positive
<1>5. /\ DOMAIN chapterPlans' = DOMAIN chapterPlans \cup {<<v, c>>}
      /\ chapterPlans'[<<v, c>>].scenes = n
      /\ \A y \in DOMAIN chapterPlans : chapterPlans'[y] = chapterPlans[y]
      /\ chapterPlans' \in [DOMAIN chapterPlans' ->
                        [scenes : Positive, revelations : Nat, basis : Nat]]
    BY <1>0, <1>1, <1>3, <1>4 DEF Located, Typed, Adopting
<1>6. /\ Located' /\ target'.scene = 1
      /\ target'.volume = v /\ target'.chapter = c /\ Chapter' = <<v, c>>
    BY <1>0, <1>1, <1>2
    DEF Located, Chapter, sceneArtifacts, At, Targets, None
<1>7. Typed'
    BY <1>0, <1>1, <1>2, <1>5 DEF Typed, sceneArtifacts, endArtifacts
<1>8. (Control /\ Blank)'
    BY <1>1
    DEF Control, Blank, acceptance, Later, Open, SceneWork, SceneStages
<1>9. Placed'
  <2>1. \A y \in DOMAIN chapterPlans' :
            \/ y[1] < v
            \/ y[1] = v /\ y[2] <= c
    BY <1>0, <1>1, <1>2, <1>5 DEF Placed, Typed, Volumes, Positive
  <2>2. 1 \in 1 .. n
    BY <1>4 DEF Positive
  <2>3. QED
    BY <1>0, <1>1, <1>2, <1>5, <1>6, <2>1, <2>2
    DEF Placed, Later, Open, Closing, SceneWork, SceneStages
<1>10. Written'
  <2>1. \A x \in Places : <<x[1], x[2]>> = <<v, c>> => ~(x[3] < 1)
    BY DEF Places, Positive
  <2>2. DOMAIN scenes =
            {x \in Places :
                /\ <<x[1], x[2]>> \in DOMAIN chapterPlans
                /\ x[3] <= chapterPlans[<<x[1], x[2]>>].scenes}
    BY <1>0, <1>1
    DEF Written, Later, Open, Closing, SceneWork, SceneStages
  <2>3. QED
    BY <1>1, <1>5, <1>6, <2>1, <2>2
    DEF Written, sceneArtifacts, SceneWork
<1>11. (HandedOver /\ Lineage)'
    BY <1>0, <1>1, <1>6
    DEF HandedOver, Lineage, sceneArtifacts, endArtifacts, LineageOf, Open,
        Closing, SceneWork, SceneStages
<1>12. (Unpublished /\ PublishedIsWhole)'
    BY <1>0, <1>1 DEF Unpublished, PublishedIsWhole, endArtifacts
<1>13. QED
    BY <1>6, <1>7, <1>8, <1>9, <1>10, <1>11, <1>12 DEF Inv

\* The files of the scene in work are written where the run stands.
LEMMA WritingKeeps ==
    ASSUME Inv, PlanScene \/ WriteCard \/ WriteProse \/ WriteContinuity
    PROVE  Inv'
<1>0. /\ Located /\ Typed /\ Control /\ Blank /\ Placed /\ Written
      /\ HandedOver /\ Lineage /\ Unpublished
    BY DEF Inv
<1>1. /\ stage \in SceneWork /\ stage' \in SceneWork
      /\ pc = "idle" /\ status = "running"
      /\ UNCHANGED <<status, current, published, seriesPlan, volumePlans,
                     chapterPlans, scenes, generations, endArtifacts,
                     acceptance>>
      /\ \/ UNCHANGED <<target, counter>>
         \/ counter' = counter + 1 /\ target' = [target EXCEPT !.result = counter']
    BY DEF PlanScene, WriteCard, WriteProse, WriteContinuity, Begin, AtRest,
        AdvanceTo, SceneWork, SceneStages, sceneArtifacts, planArtifacts
<1>2. Located' /\ UNCHANGED <<target.volume, target.chapter, target.scene>>
    BY <1>0, <1>1 DEF Located, Targets
<1>3. stage' \in Open /\ stage \in Open /\ stage' \in Later /\ stage \in Later
      /\ stage' \notin Closing /\ Chapter' = Chapter
      /\ stage' \notin {"volume_plan", "chapter_plan", "volume_handoff"}
    BY <1>1, <1>2
    DEF Open, Later, SceneWork, SceneStages, Closing, Chapter
<1>4. Typed'
    BY <1>0, <1>1 DEF Typed, endArtifacts
<1>5. (Control /\ Blank)'
    BY <1>1, <1>3 DEF Control, Blank, acceptance
<1>6. (Placed /\ Written)'
    BY <1>0, <1>1, <1>2, <1>3 DEF Placed, Written
<1>7. (HandedOver /\ Lineage)'
    BY <1>0, <1>1, <1>2, <1>3
    DEF HandedOver, Lineage, endArtifacts, LineageOf
<1>8. (Unpublished /\ PublishedIsWhole)'
    BY <1>0, <1>1 DEF Unpublished, PublishedIsWhole, endArtifacts
<1>9. QED
    BY <1>2, <1>4, <1>5, <1>6, <1>7, <1>8 DEF Inv

\* The scene that is committed comes after all that are.
LEMMA CommitComesLast ==
    ASSUME Inv, stage \in SceneWork
    PROVE  /\ Coords \in Places /\ Coords \notin DOMAIN scenes
           /\ DOMAIN scenes \subseteq Places
           /\ \A y \in DOMAIN scenes : Precedes(y, Coords)
<1>0. /\ Placed /\ Written /\ Typed /\ stage \in Later
    BY DEF Inv, Later, Open
<1>1. /\ <<target.volume, target.chapter>> \in DOMAIN chapterPlans
      /\ <<target.volume, target.chapter>> \in Volumes \X Positive
      /\ chapterPlans[<<target.volume, target.chapter>>].scenes \in Nat
      /\ target.scene \in 1 .. chapterPlans[<<target.volume, target.chapter>>].scenes
    BY <1>0 DEF Placed, Chapter, Typed, Positive
<1>2. Coords \in Places
    BY <1>1, BriefAssumption DEF Places, Coords, Volumes, Positive
<1>3. \A y \in DOMAIN scenes :
        /\ y \in Places /\ <<y[1], y[2]>> \in DOMAIN chapterPlans
        /\ <<y[1], y[2]>> = <<target.volume, target.chapter>> => y[3] < target.scene
    BY <1>0 DEF Written, Chapter
<1>4. ASSUME NEW y \in DOMAIN scenes
      PROVE  Precedes(y, Coords)
  <2>1. \/ y[1] < target.volume
        \/ y[1] = target.volume /\ y[2] <= target.chapter
    BY <1>0, <1>3 DEF Placed
  <2>2. y[1] \in Nat /\ y[2] \in Nat /\ y[3] \in Nat
    BY <1>3 DEF Places, Positive
  <2>3. /\ target.volume \in Nat /\ target.chapter \in Nat
        /\ target.scene \in Nat
    BY <1>1, BriefAssumption DEF Volumes, Positive
  <2>4. \/ y[1] < target.volume
        \/ y[1] = target.volume /\ y[2] < target.chapter
        \/ y[1] = target.volume /\ y[2] = target.chapter
    BY <2>1, <2>2, <2>3
  <2>5. y[1] = target.volume /\ y[2] = target.chapter => y[3] < target.scene
    BY <1>3
  <2>6. QED
    BY <2>4, <2>5 DEF Precedes, Coords
<1>5. QED
    BY <1>2, <1>3, <1>4, PrecedesStrictly

\* A commit continues the chain of generations.
LEMMA CommitContinues ==
    ASSUME Inv, stage \in SceneWork, NEW x, x = Coords, NEW g,
           scenes' = Adopting(scenes, x, [parent |-> current, result |-> g]),
           current' = g, seriesPlan' = seriesPlan
    PROVE  Lineage'
<1> DEFINE done == DOMAIN scenes
<1>0. Lineage /\ seriesPlan # NoPlan
    BY DEF Inv, Placed, Later, Open
<1>1. /\ x \in Places /\ x \notin done /\ done \subseteq Places
      /\ \A y \in done : Precedes(y, x)
    BY CommitComesLast
<1>2. /\ DOMAIN scenes' = done \cup {x}
      /\ scenes'[x] = [parent |-> current, result |-> g]
      /\ \A y \in done : scenes'[y] = scenes[y]
    BY <1>1 DEF Adopting
<1>3. ~Precedes(x, x) /\ \A y \in done : ~Precedes(x, y)
    BY <1>1, PrecedesStrictly
<1>4. /\ Earlier(x, done \cup {x}) = done
      /\ \A y \in done : Earlier(y, done \cup {x}) = Earlier(y, done)
    BY <1>1, <1>3 DEF Earlier
<1>5. LastOf(done \cup {x}) = x
    BY <1>1, LastIs
<1>6. HasLast(done \cup {x})
    BY <1>1, <1>5 DEF HasLast
<1>7. \A y \in done \cup {x} : HasLast(Earlier(y, done \cup {x}))
    BY <1>0, <1>4 DEF Lineage
<1>8. ASSUME NEW y \in done
      PROVE  scenes'[y].parent = IF Earlier(y, done \cup {x}) = {}
                                 THEN seriesPlan.basis
                                 ELSE scenes'[LastOf(Earlier(y, done \cup {x}))].result
  <2>1. Earlier(y, done) # {} => LastOf(Earlier(y, done)) \in done
    BY <1>0 DEF Lineage, HasLast, Earlier
  <2>2. QED
    BY <1>0, <1>2, <1>4, <2>1 DEF Lineage, LineageOf
<1>9. scenes'[x].parent = IF Earlier(x, done \cup {x}) = {}
                          THEN seriesPlan.basis
                          ELSE scenes'[LastOf(Earlier(x, done \cup {x}))].result
  <2>1. scenes'[x].parent = current
    BY <1>2
  <2>2. CASE done = {}
    BY <1>0, <1>4, <2>1, <2>2 DEF Lineage
  <2>3. CASE done # {}
    <3>1. LastOf(done) \in done /\ current = scenes[LastOf(done)].result
        BY <1>0, <2>3 DEF Lineage, HasLast
    <3>2. scenes'[LastOf(done)] = scenes[LastOf(done)]
        BY <1>2, <3>1
    <3>3. QED
        BY <1>4, <2>1, <2>3, <3>1, <3>2
  <2>4. QED
    BY <2>2, <2>3
<1>10. (LineageOf(DOMAIN scenes))'
    BY <1>2, <1>8, <1>9 DEF LineageOf
<1>11. (HasLast(DOMAIN scenes))'
    BY <1>2, <1>6 DEF HasLast, LastOf, Precedes
<1>12. (\A y \in DOMAIN scenes : HasLast(Earlier(y, DOMAIN scenes)))'
    BY <1>2, <1>7
<1>13. current' = scenes'[LastOf(DOMAIN scenes')].result
    BY <1>2, <1>5
<1>14. QED
    BY <1>2, <1>10, <1>11, <1>12, <1>13 DEF Lineage

\* The commit is where the history grows: by the scene of the target, which the
\* order of reading has next, on the generation that is current.
LEMMA CommitSceneKeeps ==
    ASSUME Inv, CommitScene
    PROVE  Inv'
<1> DEFINE v == target.volume
           c == target.chapter
           s == target.scene
           g == target.result
           n == chapterPlans[<<v, c>>].scenes
<1>0. /\ Located /\ Typed /\ Control /\ Blank /\ Placed /\ Written
      /\ HandedOver /\ Lineage /\ Unpublished
    BY DEF Inv
<1>1. /\ stage = "scene_commit" /\ pc = "idle" /\ status = "running"
      /\ active = Coords /\ current' = g
      /\ scenes' = Adopting(scenes, Coords, [parent |-> current, result |-> g])
      /\ stage' = AfterScene(g)[1] /\ target' = AfterScene(g)[2]
      /\ UNCHANGED <<status, published, planArtifacts, endArtifacts, counter,
                     acceptance>>
    BY DEF CommitScene, Begin, AtRest, AdvanceTo, Ready, SceneCommitReady,
           SceneReady
<1>2. /\ stage \in SceneWork /\ stage \in Open /\ stage \in Later
    BY <1>1 DEF Later, Open, SceneWork, SceneStages
<1>3. /\ <<v, c>> \in DOMAIN chapterPlans /\ <<v, c>> \in Volumes \X Positive
      /\ n \in Nat /\ s \in 1 .. n /\ Chapter = <<v, c>>
    BY <1>0, <1>2 DEF Placed, Chapter, Typed, Positive
<1>4. /\ v \in Nat /\ c \in Nat /\ s \in Nat /\ g \in Nat /\ v \in Volumes
    BY <1>0, <1>3, BriefAssumption DEF Located, Targets, Volumes, Positive
<1>5. DOMAIN scenes' = DOMAIN scenes \cup {<<v, c, s>>}
    BY <1>1 DEF Adopting, Coords
<1>6. \/ s < n /\ stage' = "scene_plan" /\ target' = At(v, c, s + 1, g)
      \/ s = n /\ stage' = "chapter_plan" /\ target' = At(v, c + 1, 0, g)
      \/ s = n /\ stage' = "volume_handoff" /\ target' = At(v, 0, 0, g)
    BY <1>1, <1>3, <1>4 DEF AfterScene
<1>7. /\ target' \in Targets /\ target'.volume = v
      /\ stage' = "scene_plan" => target'.chapter = c /\ target'.scene = s + 1
                                  /\ Chapter' = <<v, c>>
      /\ stage' = "chapter_plan" => target'.chapter = c + 1
    BY <1>4, <1>6 DEF At, Targets, None, Chapter
<1>8. Located'
  <2>1. CommitScene => DOMAIN generations' \subseteq Nat
    BY <1>0, <1>4 DEF CommitScene, Located, Adopting
  <2>2. QED
    BY <1>0, <1>1, <1>4, <1>7, <2>1 DEF Located
<1>9. Typed'
  <2>1. Coords \in Places /\ Coords \notin DOMAIN scenes
    BY <1>2, CommitComesLast
  <2>2. /\ DOMAIN scenes' \subseteq Places
        /\ scenes' \in [DOMAIN scenes' -> [parent : Nat, result : Nat]]
    BY <1>0, <1>1, <1>4, <2>1 DEF Typed, Located, Adopting
  <2>3. QED
    BY <1>0, <1>1, <2>2 DEF Typed, planArtifacts, endArtifacts
<1>10. /\ stage' \in Open /\ stage' \in Later /\ stage' \notin Closing
       /\ stage' \in SceneWork <=> stage' = "scene_plan"
       /\ stage' # "volume_plan"
    BY <1>6 DEF Later, Open, Closing, SceneWork, SceneStages
<1>11. (Control /\ Blank)'
    BY <1>1, <1>10 DEF Control, Blank, acceptance
<1>12. Placed'
  <2>1. \A y \in DOMAIN chapterPlans :
            /\ y[1] \in Nat /\ y[2] \in Nat
            /\ \/ y[1] < v
               \/ y[1] = v /\ y[2] <= c
    BY <1>0, <1>2, BriefAssumption DEF Placed, Typed, Volumes, Positive
  <2>2. stage' = "scene_plan" => s + 1 \in 1 .. n
    BY <1>3, <1>4, <1>6
  <2>3. c + 1 \in Positive
    BY <1>4 DEF Positive
  <2>4. UNCHANGED <<seriesPlan, chapterPlans>> /\ seriesPlan # NoPlan
    BY <1>0, <1>1, <1>2 DEF Placed, planArtifacts
  <2>5. stage' \in SceneWork =>
            /\ Chapter' \in DOMAIN chapterPlans'
            /\ target'.scene \in 1 .. chapterPlans'[Chapter'].scenes
    BY <1>3, <1>7, <1>10, <2>2, <2>4
  <2>6. stage' = "chapter_plan" \/ stage' \in SceneWork \/ stage' = "volume_handoff" =>
            \A y \in DOMAIN chapterPlans' :
                \/ y[1] < v
                \/ y[1] = v /\ y[2] <= c
    BY <2>1, <2>4
  <2>7. \A y \in DOMAIN chapterPlans' : y[2] <= c => y[2] < c + 1
    BY <1>4, <2>1, <2>4
  <2>8. \A y \in DOMAIN chapterPlans' : y[1] < v \/ y[1] = v => y[1] <= v
    BY <1>4, <2>1, <2>4
  <2>9. QED
    BY <1>4, <1>7, <1>10, <2>3, <2>4, <2>5, <2>6, <2>7, <2>8 DEF Placed
<1>13. Written'
  <2>1. DOMAIN scenes =
            {x \in Places :
                /\ <<x[1], x[2]>> \in DOMAIN chapterPlans
                /\ x[3] <= chapterPlans[<<x[1], x[2]>>].scenes
                /\ <<x[1], x[2]>> = <<v, c>> => x[3] < s}
    BY <1>0, <1>2, <1>3 DEF Written
  <2>2. <<v, c, s>> \in Places
    BY <1>2, CommitComesLast DEF Coords
  <2>3. \A x \in Places : /\ x = <<x[1], x[2], x[3]>> /\ x[3] \in Nat
                          /\ <<x[1], x[2]>> = <<v, c>> <=> x[1] = v /\ x[2] = c
    BY DEF Places, Positive
  <2>4. DOMAIN scenes' =
            {x \in Places :
                /\ <<x[1], x[2]>> \in DOMAIN chapterPlans
                /\ x[3] <= chapterPlans[<<x[1], x[2]>>].scenes
                /\ <<x[1], x[2]>> = <<v, c>> => x[3] < s + 1}
    BY <1>3, <1>4, <1>5, <2>1, <2>2, <2>3
  <2>5. UNCHANGED chapterPlans
    BY <1>1 DEF planArtifacts
  <2>6. CASE stage' = "scene_plan"
    BY <1>7, <1>10, <2>4, <2>5, <2>6 DEF Written
  <2>7. CASE s = n /\ stage' # "scene_plan"
    <3>1. \A x \in Places :
            <<x[1], x[2]>> = <<v, c>> =>
                (x[3] <= chapterPlans[<<x[1], x[2]>>].scenes => x[3] < s + 1)
        BY <1>4, <2>3, <2>7
    <3>2. QED
        BY <1>10, <2>4, <2>5, <2>7, <3>1 DEF Written
  <2>8. QED
    BY <1>6, <2>6, <2>7
<1>14. HandedOver'
  <2>1. 1 .. v - 1 \subseteq DOMAIN handoffs /\ UNCHANGED handoffs
    BY <1>0, <1>1, <1>2 DEF HandedOver, endArtifacts
  <2>2. \A x \in DOMAIN scenes' : 1 .. x[1] - 1 \subseteq DOMAIN handoffs
    BY <1>0, <1>5, <2>1 DEF HandedOver
  <2>3. QED
    BY <1>7, <1>10, <2>1, <2>2 DEF HandedOver
<1>15. Lineage'
    BY <1>1, <1>2, CommitContinues DEF planArtifacts
<1>16. (Unpublished /\ PublishedIsWhole)'
    BY <1>0, <1>1 DEF Unpublished, PublishedIsWhole, endArtifacts
<1>17. QED
    BY <1>8, <1>9, <1>11, <1>12, <1>13, <1>14, <1>15, <1>16 DEF Inv

\* A handoff closes its volume; the last one closes the series.
LEMMA HandOffKeeps ==
    ASSUME Inv, HandOff
    PROVE  Inv'
<1> DEFINE v == target.volume
           h == [basis |-> current, scenes |-> PlannedScenes(v)]
<1>0. /\ Located /\ Typed /\ Control /\ Blank /\ Placed /\ Written
      /\ HandedOver /\ Lineage /\ Unpublished
    BY DEF Inv
<1>1. /\ stage = "volume_handoff" /\ pc = "idle" /\ status = "running"
      /\ v \notin DOMAIN handoffs /\ VolumeIsWhole(v)
      /\ handoffs' = Adopting(handoffs, v, h)
      /\ stage' = AfterHandoff(v)[1] /\ target' = AfterHandoff(v)[2]
      /\ UNCHANGED <<status, current, published, planArtifacts, sceneArtifacts,
                     publications, counter, acceptance>>
    BY DEF HandOff, Begin, AtRest, AdvanceTo, Ready, HandoffReady
<1>2. v \in Volumes /\ v \in Nat /\ VolumeCount \in Nat
      /\ stage \in Open /\ stage \in Later /\ stage \notin SceneWork
    BY <1>0, <1>1, BriefAssumption
    DEF Placed, Open, Later, Volumes, SceneWork, SceneStages
<1>3. seriesPlan # NoPlan /\ seriesPlan.count = VolumeCount
    BY <1>0, <1>2 DEF Placed, Typed
<1>4. \/ v < VolumeCount /\ stage' = "volume_plan"
                         /\ target' = At(v + 1, 0, 0, current)
      \/ v = VolumeCount /\ stage' = "completion"
                         /\ target' = At(v, 0, 0, current)
    BY <1>1, <1>2, <1>3 DEF AfterHandoff, Volumes
<1>5. /\ stage' \in Later /\ stage' \notin SceneWork
      /\ stage' \notin {"chapter_plan", "volume_handoff"}
      /\ stage' \in Open <=> stage' = "volume_plan"
      /\ stage' \in Closing <=> stage' = "completion"
    BY <1>4 DEF Later, Open, Closing, SceneWork, SceneStages
<1>6. /\ Located'
      /\ stage' = "volume_plan" => target'.volume = v + 1 /\ v + 1 \in Volumes
    BY <1>0, <1>1, <1>2, <1>4
    DEF Located, At, Targets, None, Volumes, sceneArtifacts
<1>7. /\ DOMAIN handoffs' = DOMAIN handoffs \cup {v} /\ handoffs'[v] = h
      /\ \A u \in DOMAIN handoffs : handoffs'[u] = handoffs[u]
    BY <1>1 DEF Adopting
<1>8. Typed'
  <2>1. h \in [basis : Nat, scenes : SUBSET Places]
    BY <1>0, <1>1 DEF Typed, Located, VolumeIsWhole
  <2>2. /\ DOMAIN handoffs' \subseteq Volumes
        /\ handoffs' \in [DOMAIN handoffs' ->
                          [basis : Nat, scenes : SUBSET Places]]
    BY <1>0, <1>1, <1>2, <2>1 DEF Typed, Adopting
  <2>3. QED
    BY <1>0, <1>1, <2>2 DEF Typed, planArtifacts, sceneArtifacts
<1>9. (Control /\ Blank)'
    BY <1>1, <1>5 DEF Control, Blank, acceptance
<1>10. Placed'
  <2>1. stage' = "volume_plan" =>
            \A y \in DOMAIN chapterPlans : y[1] < v + 1
    BY <1>0, <1>1, <1>2, BriefAssumption DEF Placed, Typed, Volumes
  <2>2. QED
    BY <1>0, <1>1, <1>2, <1>5, <1>6, <2>1 DEF Placed, planArtifacts
<1>11. Written'
    BY <1>0, <1>1, <1>2, <1>5 DEF Written, planArtifacts, sceneArtifacts
<1>12. HandedOver'
  <2>1. 1 .. (v + 1) - 1 = (1 .. v - 1) \cup {v}
    BY <1>2, BriefAssumption DEF Volumes
  <2>2. QED
    BY <1>0, <1>1, <1>2, <1>4, <1>5, <1>6, <1>7, <2>1
    DEF HandedOver, sceneArtifacts
<1>13. Lineage'
    BY <1>0, <1>1 DEF Lineage, LineageOf, planArtifacts, sceneArtifacts
<1>14. (Unpublished /\ PublishedIsWhole)'
    BY <1>0, <1>1 DEF Unpublished, PublishedIsWhole
<1>15. QED
    BY <1>6, <1>8, <1>9, <1>10, <1>11, <1>12, <1>13, <1>14 DEF Inv

\* The verdict is on what is written and handed over.
LEMMA CompleteKeeps ==
    ASSUME Inv, Complete
    PROVE  Inv'
<1>0. /\ Located /\ Typed /\ Control /\ Blank /\ Placed /\ Written
      /\ HandedOver /\ Lineage /\ Unpublished
    BY DEF Inv
<1>1. /\ stage = "completion" /\ pc = "idle" /\ status = "running"
      /\ UNCHANGED <<current, published, planArtifacts, sceneArtifacts,
                     handoffs, publications, counter, acceptance>>
      /\ \/ status' = "blocked" /\ UNCHANGED <<stage, target>>
         \/ /\ status' = "running" /\ stage' = "publication"
            /\ target' = [At(0, 0, 0, current) EXCEPT !.completion = 1]
    BY DEF Complete, Begin, AtRest, AdvanceTo
<1>2. /\ stage \in Closing /\ stage' \in Closing
      /\ stage \in Later /\ stage' \in Later
      /\ stage \notin Open /\ stage' \notin Open
      /\ stage \notin SceneWork /\ stage' \notin SceneWork
      /\ stage' \notin {"chapter_plan", "volume_handoff", "volume_plan"}
    BY <1>1 DEF Later, Open, Closing, SceneWork, SceneStages
<1>3. Located'
    BY <1>0, <1>1 DEF Located, At, Targets, None, sceneArtifacts
<1>4. Typed'
    BY <1>0, <1>1 DEF Typed, planArtifacts, sceneArtifacts
<1>5. (Control /\ Blank /\ Placed /\ Written)'
    BY <1>0, <1>1, <1>2
    DEF Control, Blank, Placed, Written, acceptance, planArtifacts,
        sceneArtifacts
<1>6. (HandedOver /\ Lineage)'
    BY <1>0, <1>1, <1>2
    DEF HandedOver, Lineage, LineageOf, planArtifacts, sceneArtifacts
<1>7. (Unpublished /\ PublishedIsWhole)'
    BY <1>0, <1>1 DEF Unpublished, PublishedIsWhole
<1>8. QED
    BY <1>3, <1>4, <1>5, <1>6, <1>7 DEF Inv

\* What is printed is what is written.
LEMMA PublishKeeps ==
    ASSUME Inv, Publish
    PROVE  Inv'
<1>0. /\ Located /\ Typed /\ Control /\ Blank /\ Placed /\ Written
      /\ HandedOver /\ Lineage /\ Unpublished
    BY DEF Inv
<1>1. /\ stage = "publication" /\ pc = "idle" /\ status = "running"
      /\ Layout /\ PublicationReady
      /\ published' = 1 /\ status' = "completed"
      /\ target' = [target EXCEPT !.publication = 1]
      /\ publications' = Adopting(publications, 1,
            [completion |-> target.completion, basis |-> current,
             scenes |-> UNION {PlannedScenes(v) : v \in LoadedVolumes}])
      /\ UNCHANGED <<stage, current, planArtifacts, sceneArtifacts, handoffs,
                     completions, counter, acceptance>>
    BY DEF Publish, Begin, AtRest, Ready
<1>2. /\ stage \in Closing /\ stage \in Later
      /\ stage \notin Open /\ stage \notin SceneWork
    BY <1>1 DEF Later, Open, Closing, SceneWork, SceneStages
<1>3. Located'
    BY <1>0, <1>1 DEF Located, Targets, sceneArtifacts
<1>4. Typed'
    BY <1>0, <1>1 DEF Typed, planArtifacts, sceneArtifacts
<1>5. (Control /\ Blank /\ Placed /\ Written)'
    BY <1>0, <1>1, <1>2
    DEF Control, Blank, Placed, Written, acceptance, planArtifacts,
        sceneArtifacts
<1>6. (HandedOver /\ Lineage)'
    BY <1>0, <1>1, <1>2
    DEF HandedOver, Lineage, LineageOf, planArtifacts, sceneArtifacts
<1>7. PublishedIsWhole'
  <2> DEFINE p == [completion |-> target.completion, basis |-> current,
                   scenes |-> UNION {PlannedScenes(v) : v \in Volumes}]
  <2>1. seriesPlan.count = VolumeCount /\ LoadedVolumes = Volumes
    BY <1>0, <1>2 DEF Placed, Typed, LoadedVolumes, Volumes
  <2>2. publications'[published'] = p
    BY <1>0, <1>1, <2>1 DEF Unpublished, Adopting
  <2>3. \A v \in Volumes :
            /\ {x \in DOMAIN scenes : x[1] = v} = PlannedScenes(v)
            /\ v \in DOMAIN handoffs /\ handoffs[v].scenes = PlannedScenes(v)
    BY <1>1, <2>1
    DEF PublicationReady, VolumeIsWhole, Layout, HandoffsValid,
        CompletionsValid, Volumes
  <2>4. \A x \in DOMAIN scenes : x[1] \in Volumes
    BY <1>0, <1>2 DEF Written, Typed
  <2>5. p.scenes = DOMAIN scenes
    <3>1. ASSUME NEW x \in DOMAIN scenes
          PROVE  x \in UNION {PlannedScenes(v) : v \in Volumes}
        BY <2>3, <2>4
    <3>2. ASSUME NEW v \in Volumes
          PROVE  PlannedScenes(v) \subseteq DOMAIN scenes
        BY <2>3
    <3>3. UNION {PlannedScenes(v) : v \in Volumes} = DOMAIN scenes
        BY <3>1, <3>2
    <3>4. QED
        BY <3>3
  <2>6. p.scenes = UNION {handoffs[v].scenes : v \in Volumes}
    BY <2>3
  <2>7. /\ completions[p.completion].status # "incomplete"
        /\ completions[p.completion].basis = current
    BY <1>1 DEF PublicationReady
  <2>8. handoffs[VolumeCount].basis = current
    BY <1>0, <1>2 DEF HandedOver
  <2> HIDE DEF p
  <2>9. UNCHANGED <<scenes, handoffs, completions, current>> /\ p.basis = current
    BY <1>1 DEF sceneArtifacts, p
  <2>10. QED
    BY <2>2, <2>5, <2>6, <2>7, <2>8, <2>9 DEF PublishedIsWhole
<1>8. Unpublished'
    BY <1>1 DEF Unpublished
<1>9. QED
    BY <1>3, <1>4, <1>5, <1>6, <1>7, <1>8 DEF Inv

\* The inductive invariant.
THEOREM Invariance == Spec => []Inv
<1>1. Inv /\ [Next]_vars => Inv'
  <2> SUFFICES ASSUME Inv, [Next]_vars PROVE Inv'
    OBVIOUS
  <2>1. CASE AcceptInput \/ AdoptPart
    BY <2>1, BeginningKeeps
  <2>2. CASE Accept \/ Crash
    BY <2>2, AcceptKeeps
  <2>3. CASE Plan
    BY <2>3, PlanSeriesKeeps, PlanVolumeKeeps, PlanChapterKeeps, WritingKeeps
    DEF Plan
  <2>4. CASE WriteScene
    BY <2>4, WritingKeeps, CommitSceneKeeps DEF WriteScene
  <2>5. CASE HandOff \/ Complete \/ Publish
    BY <2>5, HandOffKeeps, CompleteKeeps, PublishKeeps
  <2>6. CASE Block \/ Rest \/ UNCHANGED vars
    BY <2>6, BlockKeeps DEF Rest
  <2>7. QED
    BY <2>1, <2>2, <2>3, <2>4, <2>5, <2>6 DEF Next, Step
<1>2. QED
    BY InitInv, <1>1, PTL DEF Spec
-----------------------------------------------------------------------------
(* What follows for every run.                                              *)

\* A publication prints the scenes of every volume, all of them committed, and
\* rests on the completion and the generation that close the series
\* (PublicationStageService.run on what _load_volumes and the layout admit).
THEOREM WholeIsPublished == Spec => []PublishedIsWhole
<1>1. Inv => PublishedIsWhole
    BY DEF Inv
<1>2. QED
    BY Invariance, <1>1, PTL

\* The committed scenes are the first ones in the order of reading and the
\* generations follow them (determine_scene_commit_transition,
\* determine_volume_handoff_transition and the plans agree on the next place).
THEOREM HistoryIsReadingOrder == Spec => []ReadingOrderIsHistory
<1>1. Inv => ReadingOrderIsHistory
  <2> SUFFICES ASSUME Inv, seriesPlan # NoPlan
               PROVE  LET done == DOMAIN scenes
                          planned == UNION {ScenesOf(x) : x \in DOMAIN chapterPlans}
                      IN  /\ \A x \in done : Earlier(x, planned) \subseteq done
                          /\ \A x \in done : 1 .. x[1] - 1 \subseteq DOMAIN handoffs
                          /\ LineageOf(done)
                          /\ current = IF done = {} THEN seriesPlan.basis
                                       ELSE scenes[LastOf(done)].result
    BY DEF ReadingOrderIsHistory
  <2>0. Typed /\ Blank /\ Placed /\ Written /\ HandedOver /\ Lineage
    BY DEF Inv
  <2>1. stage \in Later
    BY <2>0 DEF Blank
  <2>2. ASSUME NEW x \in DOMAIN scenes, NEW c \in DOMAIN chapterPlans,
               NEW y \in ScenesOf(c), Precedes(y, x)
        PROVE  y \in DOMAIN scenes
    <3>1. /\ y \in Places /\ <<y[1], y[2]>> \in DOMAIN chapterPlans
          /\ y[3] <= chapterPlans[<<y[1], y[2]>>].scenes
      <4>1. PICK s \in 1 .. chapterPlans[c].scenes : y = <<c[1], c[2], s>>
        BY DEF ScenesOf
      <4>2. /\ c = <<c[1], c[2]>> /\ c[1] \in Positive /\ c[2] \in Positive
            /\ chapterPlans[c].scenes \in Nat
        BY <2>0, BriefAssumption DEF Typed, Volumes, Positive
      <4>3. s \in Positive /\ s <= chapterPlans[c].scenes
        BY <4>1, <4>2 DEF Positive
      <4>4. QED
        BY <4>1, <4>2, <4>3 DEF Places
    <3>2. CASE stage \notin SceneWork
        BY <2>0, <2>1, <3>1, <3>2 DEF Written
    <3>3. CASE stage \in SceneWork
      <4>1. x \in Places /\ Precedes(x, Coords) /\ Coords \in Places
        BY <3>3, CommitComesLast
      <4>2. <<y[1], y[2]>> = Chapter => y[3] < target.scene
        BY <2>2, <3>1, <4>1
        DEF Precedes, Coords, Chapter, Places, Positive
      <4>3. QED
        BY <2>0, <2>1, <3>1, <4>2 DEF Written
    <3>4. QED
        BY <3>2, <3>3
  <2>3. QED
    BY <2>0, <2>2 DEF HandedOver, Lineage, Earlier
<1>2. QED
    BY Invariance, <1>1, PTL

-----------------------------------------------------------------------------
(* Totals over a set of plans, the fold of WorkspaceLayout.                 *)

\* The plan that a total counts first.
Chosen(s) == CHOOSE x \in s : TRUE

\* g adds up the revelations of every part of S, one chosen plan at a time.
AddsUp(f, S, g) ==
    g = [s \in SUBSET S |->
            IF s = {} THEN 0
            ELSE f[Chosen(s)].revelations + g[s \ {Chosen(s)}]]

\* A total is the value at S of the function the fold builds for it.
LEMMA TotalUnfolds ==
    ASSUME NEW f, NEW S
    PROVE  TotalOf(f, S) = (CHOOSE g : AddsUp(f, S, g))[S]
BY DEF TotalOf, MapThenSumSet, MapThenFoldSet, AddsUp, Chosen

\* Of the subsets of a finite set, some have nothing smaller beside them.
LEMMA SmallestSet ==
    ASSUME NEW S, IsFiniteSet(S), NEW T \in SUBSET (SUBSET S), T # {}
    PROVE  \E s \in T : \A u \in T : u \subseteq s => u = s
<1>1. IsWellFoundedOn(StrictSubsetOrdering(S), SUBSET S)
    BY FS_StrictSubsetOrderingWellFounded, FS_FiniteSubsetsOfFinite
<1>2. PICK s \in T : \A u \in T : <<u, s>> \notin StrictSubsetOrdering(S)
    BY <1>1, WFMin
<1>3. QED
    BY <1>2 DEF StrictSubsetOrdering

\* What such a function is for each subset.
LEMMA AddsUpAt ==
    ASSUME NEW f, NEW S, NEW g, AddsUp(f, S, g), NEW s \in SUBSET S
    PROVE  g[s] = IF s = {} THEN 0
                  ELSE f[Chosen(s)].revelations + g[s \ {Chosen(s)}]
BY DEF AddsUp

\* There is one such function only, as far as two of them reach.
LEMMA AddsUpOnce ==
    ASSUME NEW f, NEW U, NEW V, NEW g, NEW h, AddsUp(f, U, g), AddsUp(f, V, h),
           NEW s, s \subseteq U, s \subseteq V, IsFiniteSet(s)
    PROVE  g[s] = h[s]
<1> DEFINE T == {t \in SUBSET s : g[t] # h[t]}
<1>1. SUFFICES ASSUME T # {} PROVE FALSE
    OBVIOUS
<1>a. T \in SUBSET (SUBSET s)
    OBVIOUS
<1>2. PICK t \in T : \A u \in T : u \subseteq t => u = t
  <2> HIDE DEF T
  <2>1. QED
    BY <1>1, <1>a, SmallestSet
<1>3. /\ g[t] = IF t = {} THEN 0
                ELSE f[Chosen(t)].revelations + g[t \ {Chosen(t)}]
      /\ h[t] = IF t = {} THEN 0
                ELSE f[Chosen(t)].revelations + h[t \ {Chosen(t)}]
    BY <1>2, AddsUpAt
<1>4. t # {}
    BY <1>2, <1>3
<1>5. g[t \ {Chosen(t)}] = h[t \ {Chosen(t)}]
    BY <1>2, <1>4 DEF Chosen
<1>6. QED
    BY <1>2, <1>3, <1>4, <1>5

\* There is such a function for each finite set: it is put together from those
\* for the smaller ones.
LEMMA SomethingAddsUp ==
    ASSUME NEW f, NEW S, IsFiniteSet(S)
    PROVE  \E g : AddsUp(f, S, g)
<1> DEFINE T == {t \in SUBSET S : ~\E g : AddsUp(f, t, g)}
<1>1. SUFFICES ASSUME T # {} PROVE FALSE
    OBVIOUS
<1>a. T \in SUBSET (SUBSET S)
    OBVIOUS
<1>2. PICK t \in T : \A u \in T : u \subseteq t => u = t
  <2> HIDE DEF T
  <2>1. QED
    BY <1>1, <1>a, SmallestSet
<1> DEFINE part(s) == CHOOSE g : AddsUp(f, s, g)
           g == [s \in SUBSET t |->
                    IF s = {} THEN 0
                    ELSE f[Chosen(s)].revelations
                            + part(s \ {Chosen(s)})[s \ {Chosen(s)}]]
<1>3. \A s \in SUBSET t : s # t => AddsUp(f, s, part(s))
    BY <1>2
<1>4. ASSUME NEW s \in SUBSET t, s # {}
      PROVE  g[s \ {Chosen(s)}] = part(s \ {Chosen(s)})[s \ {Chosen(s)}]
  <2> DEFINE r == s \ {Chosen(s)}
  <2>1. Chosen(s) \in s
    BY <1>4 DEF Chosen
  <2>2. r \in SUBSET t /\ r # t /\ IsFiniteSet(r)
    BY <1>2, <2>1, FS_Subset
  <2>3. AddsUp(f, r, part(r))
    BY <1>3, <2>2
  <2>4. part(r)[r] = IF r = {} THEN 0
                     ELSE f[Chosen(r)].revelations + part(r)[r \ {Chosen(r)}]
    <3> HIDE DEF r, part
    <3>1. r \in SUBSET r
        OBVIOUS
    <3>2. QED
        BY <2>3, <3>1, AddsUpAt
  <2>5. CASE r = {}
    BY <2>2, <2>4, <2>5
  <2>6. CASE r # {}
    <3> DEFINE q == r \ {Chosen(r)}
    <3>1. Chosen(r) \in r
        BY <2>6 DEF Chosen
    <3>2. q \in SUBSET t /\ q # t /\ q \subseteq r /\ IsFiniteSet(q)
        BY <2>2, <3>1, FS_Subset
    <3>3. AddsUp(f, q, part(q))
        BY <1>3, <3>2
    <3>4. part(r)[q] = part(q)[q]
        BY <2>3, <3>2, <3>3, AddsUpOnce
    <3>5. QED
        BY <2>2, <2>4, <2>6, <3>4
  <2>7. QED
    BY <2>5, <2>6
<1>5. AddsUp(f, t, g)
  <2> DEFINE below(s) == part(s \ {Chosen(s)})[s \ {Chosen(s)}]
  <2>1. g = [s \in SUBSET t |-> IF s = {} THEN 0
                                ELSE f[Chosen(s)].revelations + below(s)]
    OBVIOUS
  <2>2. \A s \in SUBSET t : s # {} => g[s \ {Chosen(s)}] = below(s)
    BY <1>4
  <2> HIDE DEF g, part, below
  <2>3. [s \in SUBSET t |-> IF s = {} THEN 0
                            ELSE f[Chosen(s)].revelations + below(s)]
        = [s \in SUBSET t |-> IF s = {} THEN 0
                              ELSE f[Chosen(s)].revelations
                                      + g[s \ {Chosen(s)}]]
    BY <2>2
  <2>4. QED
    BY <2>1, <2>3 DEF AddsUp
<1>6. QED
    BY <1>2, <1>5

\* A total counts one plan, then the rest.
LEMMA TotalAddsUp ==
    ASSUME NEW f, NEW S, IsFiniteSet(S), S # {}
    PROVE  /\ Chosen(S) \in S
           /\ TotalOf(f, S) =
                f[Chosen(S)].revelations + TotalOf(f, S \ {Chosen(S)})
<1> DEFINE R == S \ {Chosen(S)}
           g == CHOOSE g : AddsUp(f, S, g)
           h == CHOOSE h : AddsUp(f, R, h)
<1>1. Chosen(S) \in S
    BY DEF Chosen
<1>2. IsFiniteSet(R) /\ R \subseteq S
    BY FS_Subset
<1>3. AddsUp(f, S, g) /\ AddsUp(f, R, h)
    BY <1>2, SomethingAddsUp
<1>4. g[S] = f[Chosen(S)].revelations + g[R]
    BY <1>3, AddsUpAt
<1>5. g[R] = h[R]
    BY <1>2, <1>3, AddsUpOnce
<1>6. QED
    BY <1>1, <1>4, <1>5, TotalUnfolds

\* Nothing discloses nothing.
LEMMA TotalOfNone == \A f : TotalOf(f, {}) = 0
<1>1. ASSUME NEW f PROVE TotalOf(f, {}) = 0
  <2> DEFINE g == CHOOSE g : AddsUp(f, {}, g)
  <2>1. AddsUp(f, {}, g)
    BY SomethingAddsUp, FS_EmptySet
  <2>2. g[{}] = 0
    BY <2>1, AddsUpAt
  <2>3. QED
    BY <2>2, TotalUnfolds
<1>2. QED
    BY <1>1

\* A set of subsets that holds the empty set and, with all smaller ones, each
\* subset of S, holds S.
LEMMA SetBySet ==
    ASSUME NEW S, IsFiniteSet(S), NEW T, {} \in T,
           \A t \in SUBSET S :
                t # {} /\ (\A u \in SUBSET t : u # t => u \in T) => t \in T
    PROVE  S \in T
<1> DEFINE B == {t \in SUBSET S : t \notin T}
<1>1. SUFFICES ASSUME B # {} PROVE FALSE
    OBVIOUS
<1>2. PICK t \in B : \A u \in B : u \subseteq t => u = t
  <2>1. B \in SUBSET (SUBSET S)
    OBVIOUS
  <2> HIDE DEF B
  <2>2. QED
    BY <1>1, <2>1, SmallestSet
<1>3. \A u \in SUBSET t : u # t => u \in T
    BY <1>2
<1>4. QED
    BY <1>2, <1>3

\* A total is a number.
LEMMA TotalIsNat ==
    ASSUME NEW f, NEW S, IsFiniteSet(S), \A x \in S : f[x].revelations \in Nat
    PROVE  TotalOf(f, S) \in Nat
<1> DEFINE T == {t \in SUBSET S : TotalOf(f, t) \in Nat}
<1>1. {} \in T
    BY TotalOfNone
<1>2. ASSUME NEW t \in SUBSET S, t # {}, \A u \in SUBSET t : u # t => u \in T
      PROVE  t \in T
  <2>1. /\ Chosen(t) \in t
        /\ TotalOf(f, t) = f[Chosen(t)].revelations + TotalOf(f, t \ {Chosen(t)})
    BY <1>2, TotalAddsUp, FS_Subset
  <2>2. TotalOf(f, t \ {Chosen(t)}) \in Nat
    BY <1>2, <2>1
  <2>3. QED
    BY <2>1, <2>2
<1>3. S \in T
  <2> HIDE DEF T
  <2>1. QED
    BY <1>1, <1>2, SetBySet
<1>4. QED
    BY <1>3

\* Equal plans have equal totals.
LEMMA TotalAgrees ==
    ASSUME NEW f, NEW g, NEW S, IsFiniteSet(S), \A x \in S : f[x] = g[x]
    PROVE  TotalOf(f, S) = TotalOf(g, S)
<1> DEFINE T == {t \in SUBSET S : TotalOf(f, t) = TotalOf(g, t)}
<1>1. {} \in T
    BY TotalOfNone
<1>2. ASSUME NEW t \in SUBSET S, t # {}, \A u \in SUBSET t : u # t => u \in T
      PROVE  t \in T
  <2>0. IsFiniteSet(t)
    BY FS_Subset
  <2>1. /\ Chosen(t) \in t
        /\ TotalOf(f, t) = f[Chosen(t)].revelations + TotalOf(f, t \ {Chosen(t)})
        /\ TotalOf(g, t) = g[Chosen(t)].revelations + TotalOf(g, t \ {Chosen(t)})
    BY <1>2, <2>0, TotalAddsUp
  <2>2. TotalOf(f, t \ {Chosen(t)}) = TotalOf(g, t \ {Chosen(t)})
    BY <1>2, <2>1
  <2>3. QED
    BY <2>1, <2>2
<1>3. S \in T
  <2> HIDE DEF T
  <2>1. QED
    BY <1>1, <1>2, SetBySet
<1>4. QED
    BY <1>3

\* Any plan may be counted first.
LEMMA TotalTakes ==
    ASSUME NEW f, NEW S, IsFiniteSet(S), \A x \in S : f[x].revelations \in Nat,
           NEW a \in S
    PROVE  TotalOf(f, S) = f[a].revelations + TotalOf(f, S \ {a})
<1> DEFINE T == {t \in SUBSET S :
                    \A b \in t : TotalOf(f, t)
                                  = f[b].revelations + TotalOf(f, t \ {b})}
<1>1. {} \in T
    OBVIOUS
<1>2. ASSUME NEW t \in SUBSET S, t # {}, \A u \in SUBSET t : u # t => u \in T
      PROVE  t \in T
  <2>1. SUFFICES ASSUME NEW b \in t
                 PROVE  TotalOf(f, t) = f[b].revelations + TotalOf(f, t \ {b})
    OBVIOUS
  <2> DEFINE c == Chosen(t)
  <2>2. /\ IsFiniteSet(t) /\ c \in t
        /\ TotalOf(f, t) = f[c].revelations + TotalOf(f, t \ {c})
    BY <1>2, TotalAddsUp, FS_Subset
  <2>3. CASE b # c
    <3> HIDE DEF c
    <3> DEFINE k == TotalOf(f, (t \ {b}) \ {c})
    <3>1. (t \ {c}) \ {b} = (t \ {b}) \ {c}
        OBVIOUS
    <3>2. TotalOf(f, t \ {c}) = f[b].revelations + k
        BY <1>2, <2>2, <2>3, <3>1
    <3>3. TotalOf(f, t \ {b}) = f[c].revelations + k
        BY <1>2, <2>2, <2>3
    <3>4. k \in Nat
        BY <2>2, FS_Subset, TotalIsNat
    <3>5. f[b].revelations \in Nat /\ f[c].revelations \in Nat
        BY <2>2
    <3> HIDE DEF k
    <3>6. QED
        BY <2>2, <3>2, <3>3, <3>4, <3>5
  <2>4. QED
    BY <2>2, <2>3
<1>3. S \in T
  <2> HIDE DEF T
  <2>1. QED
    BY <1>1, <1>2, SetBySet
<1>4. QED
    BY <1>3

\* The totals of separate plans add up.
LEMMA TotalOfBoth ==
    ASSUME NEW f, NEW S, NEW B, IsFiniteSet(S), IsFiniteSet(B), S \cap B = {},
           \A x \in S \cup B : f[x].revelations \in Nat
    PROVE  TotalOf(f, S \cup B) = TotalOf(f, S) + TotalOf(f, B)
<1> DEFINE T == {t \in SUBSET S :
                    TotalOf(f, t \cup B) = TotalOf(f, t) + TotalOf(f, B)}
<1>0. TotalOf(f, B) \in Nat
    BY TotalIsNat
<1>1. {} \in T
    BY <1>0, TotalOfNone
<1>2. ASSUME NEW t \in SUBSET S, t # {}, \A u \in SUBSET t : u # t => u \in T
      PROVE  t \in T
  <2>1. PICK a \in t : TRUE
    BY <1>2
  <2> DEFINE u == t \ {a}
  <2>2. /\ IsFiniteSet(t) /\ IsFiniteSet(t \cup B) /\ IsFiniteSet(u)
    BY FS_Subset, FS_Union
  <2>3. TotalOf(f, t) = f[a].revelations + TotalOf(f, u)
    BY <2>2, TotalTakes
  <2>4. TotalOf(f, t \cup B) = f[a].revelations + TotalOf(f, u \cup B)
    <3>1. (t \cup B) \ {a} = u \cup B
        BY <2>1
    <3>2. a \in t \cup B /\ \A x \in t \cup B : f[x].revelations \in Nat
        BY <2>1
    <3> HIDE DEF u
    <3>3. QED
        BY <2>2, <3>1, <3>2, TotalTakes
  <2>5. TotalOf(f, u \cup B) = TotalOf(f, u) + TotalOf(f, B)
    BY <1>2, <2>1
  <2>6. TotalOf(f, u) \in Nat /\ f[a].revelations \in Nat
    BY <2>1, <2>2, TotalIsNat
  <2> HIDE DEF u
  <2>7. QED
    BY <1>0, <2>3, <2>4, <2>5, <2>6
<1>3. S \in T
  <2> HIDE DEF T
  <2>1. QED
    BY <1>1, <1>2, SetBySet
<1>4. QED
    BY <1>3

\* Scenes within the budget of their chapters are within that of all of them.
LEMMA TotalWithin ==
    ASSUME NEW f, NEW g, NEW S, NEW P, IsFiniteSet(S), IsFiniteSet(P),
           \A x \in S : f[x].revelations \in Nat /\ <<x[1], x[2]>> \in P,
           \A y \in P :
                /\ g[y].revelations \in Nat
                /\ TotalOf(f, {x \in S : <<x[1], x[2]>> = y})
                        <= g[y].revelations
    PROVE  TotalOf(f, S) <= TotalOf(g, P)
<1> DEFINE In(p) == {x \in S : <<x[1], x[2]>> \in p}
           T == {p \in SUBSET P : TotalOf(f, In(p)) <= TotalOf(g, p)}
<1>1. {} \in T
  <2>1. In({}) = {}
    OBVIOUS
  <2>2. QED
    BY <2>1, TotalOfNone
<1>2. ASSUME NEW p \in SUBSET P, p # {}, \A q \in SUBSET p : q # p => q \in T
      PROVE  p \in T
  <2>1. PICK y \in p : TRUE
    BY <1>2
  <2> DEFINE q == p \ {y}
             A == In(q)
             B == {x \in S : <<x[1], x[2]>> = y}
  <2>2. /\ In(p) = A \cup B /\ A \cap B = {}
        /\ IsFiniteSet(A) /\ IsFiniteSet(B) /\ IsFiniteSet(p)
        /\ IsFiniteSet(q) /\ q \in T
    BY <1>2, <2>1, FS_Subset
  <2>3. \A x \in A \cup B : f[x].revelations \in Nat
    OBVIOUS
  <2>4. TotalOf(f, B) <= g[y].revelations /\ g[y].revelations \in Nat
    BY <2>1
  <2>5. TotalOf(f, A) <= TotalOf(g, q)
    BY <2>2
  <2>6. \A z \in p : g[z].revelations \in Nat
    OBVIOUS
  <2>7. \A z \in q : g[z].revelations \in Nat
    OBVIOUS
  <2>8. TotalOf(g, p) = g[y].revelations + TotalOf(g, q)
    BY <2>1, <2>2, <2>6, TotalTakes
  <2>9. TotalOf(g, q) \in Nat
    <3> HIDE DEF q
    <3>1. QED
        BY <2>2, <2>7, TotalIsNat
  <2>10. /\ TotalOf(f, A \cup B) = TotalOf(f, A) + TotalOf(f, B)
         /\ TotalOf(f, A) \in Nat /\ TotalOf(f, B) \in Nat
    <3> HIDE DEF A, B
    <3>1. QED
        BY <2>2, <2>3, TotalOfBoth, TotalIsNat
  <2>11. TotalOf(f, In(p)) <= TotalOf(g, p)
    <3> HIDE DEF A, B, q, In
    <3>1. QED
        BY <2>2, <2>4, <2>5, <2>8, <2>9, <2>10
  <2>12. QED
    BY <2>11
<1>3. P \in T
  <2> HIDE DEF T
  <2>1. QED
    BY <1>1, <1>2, SetBySet
<1>4. In(P) = S
    OBVIOUS
<1>5. QED
    BY <1>3, <1>4
-----------------------------------------------------------------------------
(* The budgets: what a plan may disclose is within the plan above it.       *)

\* The scenes planned are those written and the one in work.
Drafted ==
    /\ DOMAIN scenePlans \subseteq Places
    /\ scenePlans \in [DOMAIN scenePlans -> [revelations : Nat, basis : Nat]]
    /\ IF stage \in Later
       THEN DOMAIN scenePlans = DOMAIN scenes \cup
                    (IF stage \in SceneStages THEN {Coords} ELSE {})
       ELSE DOMAIN scenePlans = {}

\* There are finitely many plans, so that their revelations have a sum.
Counted == IsFiniteSet(DOMAIN chapterPlans) /\ IsFiniteSet(DOMAIN scenePlans)

\* The chapters of a volume, and the scenes of a chapter.
ChaptersIn(f, v) == {y \in DOMAIN f : y[1] = v}
ScenesIn(f, y) == {x \in DOMAIN f : <<x[1], x[2]>> = y}

\* Each level of the plans keeps to what the level above it gives out.
Budgeted ==
    /\ \A v \in DOMAIN volumePlans :
        /\ volumePlans[v].revelations = seriesPlan.schedule[v]
        /\ TotalOf(chapterPlans, ChaptersIn(chapterPlans, v))
                <= volumePlans[v].revelations
    /\ \A y \in DOMAIN chapterPlans :
        TotalOf(scenePlans, ScenesIn(scenePlans, y))
            <= chapterPlans[y].revelations

\* The invariant behind the revelations.
Budgets == Drafted /\ Counted /\ Budgeted

\* Of the budgets, nothing changes but where a plan is adopted.
LEMMA BudgetsUntouched ==
    ASSUME Inv, Budgets, UNCHANGED planArtifacts, Drafted'
    PROVE  Budgets'
BY DEF Budgets, Counted, Budgeted, ChaptersIn, ScenesIn, planArtifacts

\* A Volume Plan takes over the schedule, and no chapter of it is planned yet.
LEMMA PlanVolumeBudgets ==
    ASSUME Inv, Budgets, PlanVolume
    PROVE  Budgets'
<1> DEFINE v == target.volume
<1>0. /\ Typed /\ Placed /\ Drafted /\ Counted /\ Budgeted
    BY DEF Inv, Budgets
<1>1. /\ stage = "volume_plan" /\ stage' = "chapter_plan"
      /\ v \notin DOMAIN volumePlans
      /\ UNCHANGED <<seriesPlan, chapterPlans, scenePlans, scenes>>
    BY DEF PlanVolume, Begin, AdvanceTo, Ready, VolumePlanReady, sceneArtifacts
<1>2. PICK n \in ChapterNumbers, r \in 0 .. Knowledge :
        /\ r = seriesPlan.schedule[v]
        /\ volumePlans' = Adopting(volumePlans, v,
            [chapters |-> n, revelations |-> r, basis |-> current])
    BY DEF PlanVolume, VolumePlanContract
<1>3. /\ DOMAIN volumePlans' = DOMAIN volumePlans \cup {v}
      /\ volumePlans'[v].revelations = r
      /\ \A u \in DOMAIN volumePlans : volumePlans'[u] = volumePlans[u]
    BY <1>1, <1>2 DEF Adopting
<1>4. Drafted'
    BY <1>0, <1>1
    DEF Drafted, Later, Open, SceneWork, SceneStages
<1>5. ChaptersIn(chapterPlans, v) = {} /\ r \in Nat
    BY <1>0, <1>1, <1>2, BriefAssumption DEF Placed, ChaptersIn, Typed, Volumes
<1>6. TotalOf(chapterPlans, ChaptersIn(chapterPlans, v)) <= r
    BY <1>5, TotalOfNone
<1>7. Budgeted'
  <2>1. \A u \in DOMAIN volumePlans' :
            /\ volumePlans'[u].revelations = seriesPlan'.schedule[u]
            /\ TotalOf(chapterPlans', ChaptersIn(chapterPlans', u))
                    <= volumePlans'[u].revelations
    BY <1>0, <1>1, <1>2, <1>3, <1>6 DEF Budgeted
  <2>2. QED
    BY <1>0, <1>1, <2>1 DEF Budgeted
<1>8. QED
    BY <1>0, <1>1, <1>4, <1>7 DEF Budgets, Counted

\* A total with one more plan.
LEMMA TotalGrows ==
    ASSUME NEW f, NEW S, IsFiniteSet(S), NEW a, a \notin S, NEW g,
           \A x \in S : g[x] = f[x] /\ f[x].revelations \in Nat,
           g[a].revelations \in Nat
    PROVE  TotalOf(g, S \cup {a}) = TotalOf(f, S) + g[a].revelations
<1>1. IsFiniteSet(S \cup {a}) /\ (S \cup {a}) \ {a} = S
    BY FS_AddElement
<1>2. \A x \in S \cup {a} : g[x].revelations \in Nat
    OBVIOUS
<1>3. TotalOf(g, S \cup {a}) = g[a].revelations + TotalOf(g, S)
    BY <1>1, <1>2, TotalTakes
<1>4. TotalOf(g, S) = TotalOf(f, S)
    BY TotalAgrees
<1>5. TotalOf(f, S) \in Nat
    BY TotalIsNat
<1>6. QED
    BY <1>3, <1>4, <1>5

\* A Chapter Plan takes from what the chapters before it left of the volume.
LEMMA PlanChapterBudgets ==
    ASSUME Inv, Budgets, PlanChapter
    PROVE  Budgets'
<1> DEFINE v == target.volume
           c == target.chapter
           x == <<v, c>>
<1>0. /\ Typed /\ Placed /\ Written /\ Drafted /\ Counted /\ Budgeted
    BY DEF Inv, Budgets
<1>1. /\ stage = "chapter_plan" /\ stage' = "scene_plan" /\ Chapter = x
      /\ x \notin DOMAIN chapterPlans
      /\ \A b \in 1 .. c - 1 : <<v, b>> \in DOMAIN chapterPlans
      /\ UNCHANGED <<seriesPlan, volumePlans, scenePlans, scenes>>
    BY DEF PlanChapter, Begin, AdvanceTo, Ready, ChapterPlanReady, Chapter,
           sceneArtifacts
<1>2. v \in Volumes /\ c \in Positive /\ v \in Nat /\ c \in Nat
    BY <1>0, <1>1, BriefAssumption DEF Placed, Open, Volumes, Positive
<1>3. PICK n \in SceneCounts, r \in 0 .. Knowledge :
        /\ ChapterBudget(x, r)
        /\ chapterPlans' = Adopting(chapterPlans, x,
            [scenes |-> n, revelations |-> r, basis |-> current])
    BY <1>1 DEF PlanChapter
<1>4. /\ DOMAIN chapterPlans' = DOMAIN chapterPlans \cup {x}
      /\ chapterPlans'[x].revelations = r /\ r \in Nat
      /\ \A y \in DOMAIN chapterPlans : chapterPlans'[y] = chapterPlans[y]
    BY <1>1, <1>3, BriefAssumption DEF Adopting
<1>5. Drafted'
    BY <1>0, <1>1
    DEF Drafted, Later, Open, SceneWork, SceneStages
<1>6. Counted'
    BY <1>0, <1>1, <1>4, FS_AddElement DEF Counted
<1>7. ChaptersIn(chapterPlans, v) = {<<v, b>> : b \in 1 .. c - 1}
  <2>1. ASSUME NEW y \in ChaptersIn(chapterPlans, v)
        PROVE  y \in {<<v, b>> : b \in 1 .. c - 1}
    <3>1. y = <<v, y[2]>> /\ y[2] \in Positive
        BY <1>0 DEF ChaptersIn, Typed
    <3>2. y[2] < c
        BY <1>0, <1>1, <1>2 DEF Placed, ChaptersIn
    <3>3. y[2] \in 1 .. c - 1
        BY <1>2, <3>1, <3>2 DEF Positive
    <3>4. QED
        BY <3>1, <3>3
  <2>2. ASSUME NEW b \in 1 .. c - 1
        PROVE  <<v, b>> \in ChaptersIn(chapterPlans, v)
    BY <1>1 DEF ChaptersIn
  <2>3. QED
    BY <2>1, <2>2
<1>8. TotalOf(chapterPlans, ChaptersIn(chapterPlans, v)) + r <= volumePlans[v].revelations
    BY <1>3, <1>7 DEF ChapterBudget
<1>9. \A u :
        LET old == ChaptersIn(chapterPlans, u) IN
        /\ IsFiniteSet(old) /\ x \notin old
        /\ \A y \in old : /\ chapterPlans'[y] = chapterPlans[y]
                          /\ chapterPlans[y].revelations \in Nat
        /\ ChaptersIn(chapterPlans', u)
                = IF u = v THEN old \cup {x} ELSE old
    BY <1>0, <1>1, <1>4, FS_Subset DEF ChaptersIn, Counted, Typed
<1>10. TotalOf(chapterPlans', ChaptersIn(chapterPlans', v))
            = TotalOf(chapterPlans, ChaptersIn(chapterPlans, v)) + r
    BY <1>4, <1>9, TotalGrows
<1>11. \A u : u # v => TotalOf(chapterPlans', ChaptersIn(chapterPlans', u))
                            = TotalOf(chapterPlans, ChaptersIn(chapterPlans, u))
    BY <1>9, TotalAgrees
<1>12. \A u \in DOMAIN volumePlans' :
            /\ volumePlans'[u].revelations = seriesPlan'.schedule[u]
            /\ TotalOf(chapterPlans', ChaptersIn(chapterPlans', u))
                    <= volumePlans'[u].revelations
    BY <1>0, <1>1, <1>8, <1>10, <1>11 DEF Budgeted
<1>13. ScenesIn(scenePlans, x) = {}
  <2>1. \A y \in DOMAIN scenes : <<y[1], y[2]>> \in DOMAIN chapterPlans
    BY <1>0, <1>1 DEF Written, Later, Open
  <2>2. DOMAIN scenePlans = DOMAIN scenes
    BY <1>0, <1>1 DEF Drafted, Later, Open, SceneStages
  <2>3. QED
    BY <1>1, <2>1, <2>2 DEF ScenesIn
<1>14. \A y \in DOMAIN chapterPlans' :
            TotalOf(scenePlans', ScenesIn(scenePlans', y))
                <= chapterPlans'[y].revelations
  <2>1. ASSUME NEW y \in DOMAIN chapterPlans
        PROVE  TotalOf(scenePlans, ScenesIn(scenePlans, y))
                    <= chapterPlans'[y].revelations
    BY <1>0, <1>4 DEF Budgeted
  <2>2. TotalOf(scenePlans, ScenesIn(scenePlans, x))
            <= chapterPlans'[x].revelations
    BY <1>4, <1>13, TotalOfNone
  <2> HIDE DEF x
  <2>3. QED
    BY <1>1, <1>4, <2>1, <2>2
<1>15. Budgeted'
    BY <1>12, <1>14 DEF Budgeted
<1>16. QED
    BY <1>5, <1>6, <1>15 DEF Budgets

\* A Scene Plan takes from what the scenes before it left of the chapter.
LEMMA PlanSceneBudgets ==
    ASSUME Inv, Budgets, PlanScene
    PROVE  Budgets'
<1> DEFINE v == target.volume
           c == target.chapter
           s == target.scene
           x == <<v, c, s>>
<1>0. /\ Typed /\ Placed /\ Written /\ Drafted /\ Counted /\ Budgeted
    BY DEF Inv, Budgets
<1>1. /\ stage = "scene_plan" /\ stage' = "scene_card" /\ Coords = x
      /\ x \notin DOMAIN scenePlans
      /\ \A b \in 1 .. s - 1 : <<v, c, b>> \in DOMAIN scenePlans
      /\ UNCHANGED <<target, seriesPlan, volumePlans, chapterPlans, scenes>>
    BY DEF PlanScene, Begin, AdvanceTo, Ready, ScenePlanReady, Coords,
           sceneArtifacts
<1>2. /\ stage \in SceneWork /\ stage \in Later /\ stage \notin SceneStages
      /\ stage' \in SceneStages /\ stage' \in Later
    BY <1>1 DEF Later, Open, SceneWork, SceneStages
<1>3. x \in Places /\ Chapter = <<v, c>> /\ <<v, c>> \in DOMAIN chapterPlans
    BY <1>0, <1>1, <1>2, CommitComesLast DEF Placed, Chapter
<1>4. v \in Nat /\ c \in Nat /\ s \in Nat /\ s \in Positive
    BY <1>3 DEF Places, Positive
<1>5. PICK r \in 0 .. Knowledge :
        /\ SceneBudget(x, r)
        /\ scenePlans' = Adopting(scenePlans, x,
                                  [revelations |-> r, basis |-> current])
    BY <1>1 DEF PlanScene
<1>6. /\ DOMAIN scenePlans' = DOMAIN scenePlans \cup {x}
      /\ scenePlans'[x].revelations = r /\ r \in Nat
      /\ \A y \in DOMAIN scenePlans : scenePlans'[y] = scenePlans[y]
    BY <1>1, <1>5, BriefAssumption DEF Adopting
<1>7. Drafted'
  <2>1. current \in Nat
    BY DEF Inv, Located
  <2>2. /\ DOMAIN scenePlans' \subseteq Places
        /\ scenePlans' \in [DOMAIN scenePlans' ->
                            [revelations : Nat, basis : Nat]]
    BY <1>0, <1>1, <1>3, <1>5, <1>6, <2>1 DEF Drafted, Adopting
  <2>3. DOMAIN scenePlans' = DOMAIN scenes' \cup {Coords'}
    BY <1>0, <1>1, <1>2, <1>6 DEF Drafted, Coords
  <2>4. QED
    BY <1>2, <2>2, <2>3 DEF Drafted
<1>8. Counted'
    BY <1>0, <1>1, <1>6, FS_AddElement DEF Counted
<1>9. ScenesIn(scenePlans, <<v, c>>) = {<<v, c, b>> : b \in 1 .. s - 1}
  <2>1. ASSUME NEW y \in ScenesIn(scenePlans, <<v, c>>)
        PROVE  y \in {<<v, c, b>> : b \in 1 .. s - 1}
    <3>1. y = <<v, c, y[3]>> /\ y[3] \in Positive
        BY <1>0 DEF ScenesIn, Drafted, Places
    <3>2. y \in DOMAIN scenes
        BY <1>0, <1>2 DEF ScenesIn, Drafted
    <3>3. y[3] < s
        BY <1>0, <1>2, <1>3, <3>2 DEF Written, ScenesIn
    <3>4. y[3] \in 1 .. s - 1
        BY <1>4, <3>1, <3>3 DEF Positive
    <3>5. QED
        BY <3>1, <3>4
  <2>2. ASSUME NEW b \in 1 .. s - 1
        PROVE  <<v, c, b>> \in ScenesIn(scenePlans, <<v, c>>)
    BY <1>1 DEF ScenesIn
  <2>3. QED
    BY <2>1, <2>2
<1>10. TotalOf(scenePlans, ScenesIn(scenePlans, <<v, c>>)) + r
            <= chapterPlans[<<v, c>>].revelations
    BY <1>5, <1>9 DEF SceneBudget
<1>11. \A u :
        LET old == ScenesIn(scenePlans, u) IN
        /\ IsFiniteSet(old) /\ x \notin old
        /\ \A y \in old : /\ scenePlans'[y] = scenePlans[y]
                          /\ scenePlans[y].revelations \in Nat
        /\ ScenesIn(scenePlans', u)
                = IF u = <<v, c>> THEN old \cup {x} ELSE old
  <2>1. x[1] = v /\ x[2] = c
    OBVIOUS
  <2> HIDE DEF x
  <2>2. QED
    BY <1>0, <1>1, <1>6, <2>1, FS_Subset DEF ScenesIn, Counted, Drafted
<1>12. TotalOf(scenePlans', ScenesIn(scenePlans', <<v, c>>))
            = TotalOf(scenePlans, ScenesIn(scenePlans, <<v, c>>)) + r
    BY <1>6, <1>11, TotalGrows
<1>13. \A u : u # <<v, c>> => TotalOf(scenePlans', ScenesIn(scenePlans', u))
                                  = TotalOf(scenePlans, ScenesIn(scenePlans, u))
    BY <1>11, TotalAgrees
<1>14. \A y \in DOMAIN chapterPlans' :
            TotalOf(scenePlans', ScenesIn(scenePlans', y))
                <= chapterPlans'[y].revelations
    BY <1>0, <1>1, <1>10, <1>12, <1>13 DEF Budgeted
<1>15. \A u \in DOMAIN volumePlans' :
            /\ volumePlans'[u].revelations = seriesPlan'.schedule[u]
            /\ TotalOf(chapterPlans', ChaptersIn(chapterPlans', u))
                    <= volumePlans'[u].revelations
    BY <1>0, <1>1 DEF Budgeted, ChaptersIn
<1>16. Budgeted'
    BY <1>14, <1>15 DEF Budgeted
<1>17. QED
    BY <1>7, <1>8, <1>16 DEF Budgets

\* The budgets are kept by every run.
THEOREM BudgetsAreKept == Spec => []Budgets
<1>1. Init => Budgets
    BY FS_EmptySet, PartsComeFirst
    DEF Init, Budgets, Drafted, Counted, Budgeted
<1>2. ASSUME Inv, Inv', Budgets, [Next]_vars
      PROVE  Budgets'
  <2>0. /\ Typed /\ Placed /\ Written /\ Drafted /\ Blank /\ Control
    BY <1>2 DEF Inv, Budgets
  <2>1. CASE AcceptInput \/ AdoptPart \/ Accept \/ Crash
    <3>1. stage \notin Later /\ stage' \notin Later /\ UNCHANGED planArtifacts
      <4>1. CASE AcceptInput \/ AdoptPart
        BY <4>1, PartsComeFirst
        DEF AcceptInput, AdoptPart, Begin, AdvanceTo, Later, Open, Closing,
            SceneWork, SceneStages
      <4>2. CASE EnsureDesign
        BY <4>2, PartsComeFirst DEF EnsureDesign, Begin, Accepting
      <4>3. CASE WriteDesign \/ FindInitialGeneration \/ ReserveGeneration
        BY <2>0, <4>3, PartsComeFirst
        DEF WriteDesign, FindInitialGeneration, ReserveGeneration, Control,
            Accepting
      <4>4. CASE StageGeneration \/ PublishGeneration
        BY <2>0, <4>4, PartsComeFirst
        DEF StageGeneration, PublishGeneration, Control, Accepting
      <4>5. CASE AdvanceFromAccept
        BY <2>0, <4>5, PartsComeFirst DEF AdvanceFromAccept, AdvanceTo, Control
      <4>6. CASE Crash
        BY <2>0, <4>6, PartsComeFirst, PipelineAssumption
        DEF Crash, Control, runState, artifacts, AcceptLabels
      <4>7. QED
        BY <2>1, <4>1, <4>2, <4>3, <4>4, <4>5, <4>6 DEF Accept
    <3>2. Drafted'
        BY <2>0, <3>1 DEF Drafted, planArtifacts
    <3>3. QED
        BY <1>2, <3>1, <3>2, BudgetsUntouched
  <2>2. CASE PlanSeries
    <3>1. /\ stage = "series_plan" /\ stage \notin Later
          /\ UNCHANGED <<volumePlans, chapterPlans, scenePlans, scenes>>
        BY <2>2, PartsComeFirst DEF PlanSeries, Begin, sceneArtifacts
    <3>2. /\ DOMAIN volumePlans = {} /\ DOMAIN chapterPlans = {}
          /\ DOMAIN scenes = {} /\ DOMAIN scenePlans = {}
        BY <2>0, <3>1 DEF Blank, Drafted
    <3>3. stage' \notin SceneStages
        BY <2>2 DEF PlanSeries, AdvanceTo, SceneStages
    <3>4. QED
        BY <1>2, <3>1, <3>2, <3>3 DEF Budgets, Drafted, Counted, Budgeted
  <2>3. CASE PlanVolume \/ PlanChapter \/ PlanScene
    BY <1>2, <2>3, PlanVolumeBudgets, PlanChapterBudgets, PlanSceneBudgets
  <2>4. CASE WriteCard \/ WriteProse \/ WriteContinuity
    <3>1. /\ UNCHANGED <<planArtifacts, scenes, Coords>>
          /\ stage \in SceneStages /\ stage' \in SceneStages
      <4>1. /\ UNCHANGED <<planArtifacts, scenes>>
            /\ stage \in SceneStages /\ stage' \in SceneStages
            /\ \/ UNCHANGED target
               \/ target' = [target EXCEPT !.result = counter']
        BY <2>4 DEF WriteCard, WriteProse, WriteContinuity, Begin, AdvanceTo,
                    SceneStages
      <4>2. target \in Targets
        BY <1>2 DEF Inv, Located
      <4>3. QED
        BY <4>1, <4>2 DEF Targets, Coords
    <3>2. Drafted'
        BY <2>0, <3>1 DEF Drafted, planArtifacts, Later, Open, SceneWork
    <3>3. QED
        BY <1>2, <3>1, <3>2, BudgetsUntouched
  <2>5. CASE CommitScene
    <3>1. /\ UNCHANGED planArtifacts /\ stage = "scene_commit"
          /\ DOMAIN scenes' = DOMAIN scenes \cup {Coords}
          /\ stage' \in {"scene_plan", "chapter_plan", "volume_handoff"}
        BY <2>5
        DEF CommitScene, Begin, AdvanceTo, Ready, SceneCommitReady, SceneReady,
            AfterScene, Adopting
    <3>2. /\ stage' \in Later /\ stage \in Later
          /\ stage \in SceneStages /\ stage' \notin SceneStages
        BY <3>1 DEF Later, Open, SceneWork, SceneStages
    <3>3. Drafted'
        BY <2>0, <3>1, <3>2 DEF Drafted, planArtifacts
    <3>4. QED
        BY <1>2, <3>1, <3>3, BudgetsUntouched
  <2>6. CASE HandOff \/ Complete \/ Publish
    <3>1. /\ UNCHANGED <<planArtifacts, scenes>>
          /\ stage \in {"volume_handoff", "completion", "publication"}
          /\ stage' \in {"volume_plan", "completion", "publication"}
        BY <2>6
        DEF HandOff, Complete, Publish, Begin, AdvanceTo, AfterHandoff,
            sceneArtifacts
    <3>2. /\ stage \in Later /\ stage' \in Later
          /\ stage \notin SceneStages /\ stage' \notin SceneStages
        BY <3>1 DEF Later, Open, Closing, SceneWork, SceneStages
    <3>3. Drafted'
        BY <2>0, <3>1, <3>2 DEF Drafted, planArtifacts
    <3>4. QED
        BY <1>2, <3>1, <3>3, BudgetsUntouched
  <2>7. CASE Block \/ Rest \/ UNCHANGED vars
    <3>1. UNCHANGED <<planArtifacts, scenes, stage, target>>
        BY <2>7 DEF Block, Rest, vars, runState, artifacts, sceneArtifacts
    <3>2. Drafted'
        BY <2>0, <3>1 DEF Drafted, planArtifacts, Coords
    <3>3. QED
        BY <1>2, <3>1, <3>2, BudgetsUntouched
  <2>8. QED
    BY <1>2, <2>1, <2>2, <2>3, <2>4, <2>5, <2>6, <2>7
    DEF Next, Step, Plan, WriteScene
<1>3. QED
    BY Invariance, <1>1, <1>2, PTL DEF Spec

\* The scenes planned for a volume disclose no more than the Series Plan
\* scheduled for it (the budgets that the adopters of chapter and scene plans
\* work out from the plans before, and the contract of the volume plan).
THEOREM NoVolumeRevealsTooMuch == Spec => []RevelationsWithinSchedule
<1>1. Inv /\ Budgets => RevelationsWithinSchedule
  <2> SUFFICES ASSUME Inv, Budgets, NEW v \in DOMAIN volumePlans
               PROVE  TotalOf(scenePlans, {x \in DOMAIN scenePlans : x[1] = v})
                        <= seriesPlan.schedule[v]
    BY DEF RevelationsWithinSchedule
  <2> DEFINE S == {x \in DOMAIN scenePlans : x[1] = v}
             P == ChaptersIn(chapterPlans, v)
  <2>0. /\ Typed /\ Placed /\ Blank /\ Written /\ Drafted /\ Counted /\ Budgeted
    BY DEF Inv, Budgets
  <2>1. IsFiniteSet(S) /\ IsFiniteSet(P)
    BY <2>0, FS_Subset DEF Counted, ChaptersIn
  <2>2. stage \in Later
    BY <2>0 DEF Blank
  <2>3. stage \in SceneStages => Chapter \in DOMAIN chapterPlans
    BY <2>0 DEF Placed, SceneWork
  <2>4. \A x \in DOMAIN scenePlans : <<x[1], x[2]>> \in DOMAIN chapterPlans
    <3>1. \A x \in DOMAIN scenes : <<x[1], x[2]>> \in DOMAIN chapterPlans
        BY <2>0, <2>2 DEF Written
    <3>2. <<Coords[1], Coords[2]>> = Chapter
        BY DEF Coords, Chapter
    <3>3. QED
        BY <2>0, <2>2, <2>3, <3>1, <3>2 DEF Drafted
  <2>5. \A x \in S : /\ scenePlans[x].revelations \in Nat
                     /\ <<x[1], x[2]>> \in P
    BY <2>0, <2>4 DEF Drafted, ChaptersIn
  <2>6. ASSUME NEW y \in P
        PROVE  /\ chapterPlans[y].revelations \in Nat
               /\ TotalOf(scenePlans, {x \in S : <<x[1], x[2]>> = y})
                    <= chapterPlans[y].revelations
    <3>1. {x \in S : <<x[1], x[2]>> = y} = ScenesIn(scenePlans, y)
        BY <2>6 DEF ScenesIn, ChaptersIn
    <3>2. QED
        BY <2>0, <2>6, <3>1 DEF ChaptersIn, Typed, Budgeted
  <2>7. TotalOf(scenePlans, S) <= TotalOf(chapterPlans, P)
    <3> HIDE DEF S, P
    <3>1. QED
        BY <2>1, <2>5, <2>6, TotalWithin
  <2>8. TotalOf(chapterPlans, P) <= volumePlans[v].revelations
    BY <2>0 DEF Budgeted
  <2>9. /\ TotalOf(scenePlans, S) \in Nat /\ TotalOf(chapterPlans, P) \in Nat
        /\ volumePlans[v].revelations \in Nat
    <3>1. volumePlans[v].revelations \in Nat
        BY <2>0 DEF Typed
    <3>2. \A y \in P : chapterPlans[y].revelations \in Nat
        BY <2>6
    <3> HIDE DEF S, P
    <3>3. QED
        BY <2>1, <2>5, <3>1, <3>2, TotalIsNat
  <2>10. volumePlans[v].revelations = seriesPlan.schedule[v]
    BY <2>0 DEF Budgeted
  <2> HIDE DEF S, P
  <2>11. TotalOf(scenePlans, S) <= seriesPlan.schedule[v]
    BY <2>7, <2>8, <2>9, <2>10
  <2>12. QED
    BY <2>11 DEF S
<1>2. QED
    BY Invariance, BudgetsAreKept, <1>1, PTL

-----------------------------------------------------------------------------
(* What each stage hands over, and what the next one asks for.              *)

\* The stages from the series plan on, and from initial_accept on; all parts.
AfterAccept == {"series_plan"} \cup Later
FromAccept == {"initial_accept"} \cup AfterAccept
AllParts == {DesignParts[j] : j \in 1 .. 8}

\* The Brief and the parts of the design are there as far as the stage says.
Begun ==
    /\ stage \in Stages
    /\ source = "brief" \/ stage # "input" => brief
    /\ stage = "input" => parts = {}
    /\ \A i \in 1 .. 8 :
            stage = InitialStages[i] => parts = {DesignParts[j] : j \in 1 .. i - 1}
    /\ stage \in FromAccept => parts = AllParts
    /\ stage \notin FromAccept => design = "absent"
    /\ stage \in AfterAccept => design = "complete"
    /\ pc = "design_file" <=> design = "torn"
    /\ pc \notin {"idle", "design_file"} => design = "complete"
    /\ design \in {"absent", "torn", "complete"}

\* There is one Initial Generation at most, whatever crashed, and from then on
\* the target rests on the current generation.
Founded ==
    /\ \A g \in DOMAIN generations :
            /\ g \in 1 .. counter
            /\ generations[g].parent # None =>
                    generations[g].parent \in DOMAIN generations \ {g}
    /\ DOMAIN generations = {} \/ \E g \in DOMAIN generations : InitialGenerations = {g}
    /\ stage \notin AfterAccept => current = None
                                   /\ DOMAIN generations = InitialGenerations
    /\ stage \notin FromAccept \/ design = "absent" => DOMAIN generations = {}
    /\ pc \in {"reserve", "staging", "files"} => DOMAIN generations = {}
    /\ pc \in {"staging", "files"} => counter > 0
    /\ stage \in AfterAccept => current \in DOMAIN generations
                                /\ target.basis = current
    /\ stage = "series_plan" => current \in InitialGenerations
    /\ stage = "scene_commit" =>
            target.result = counter /\ \A g \in DOMAIN generations : g < counter
    /\ stage \in Later /\ DOMAIN scenes # {} =>
            generations[current].source = LastOf(DOMAIN scenes)

\* The plans are there up to the place of the target and meet their contracts.
Scheduled ==
    /\ stage \in Later => SeriesPlanContract(seriesPlan)
                          /\ seriesPlan.basis \in DOMAIN generations
    /\ stage \in Later =>
        DOMAIN volumePlans =
            {u \in Volumes : stage \in Open =>
                                \/ u < target.volume
                                \/ u = target.volume /\ stage # "volume_plan"}
    /\ \A u \in DOMAIN volumePlans :
            /\ volumePlans[u].chapters \in ChapterCounts[u]
            /\ volumePlans[u].basis \in DOMAIN generations
    /\ stage \in Later =>
        DOMAIN chapterPlans =
            {y \in Volumes \X Positive :
                /\ y[1] \in DOMAIN volumePlans
                /\ y[2] <= volumePlans[y[1]].chapters
                /\ y[1] = target.volume =>
                    /\ stage = "chapter_plan" => y[2] < target.chapter
                    /\ stage \in SceneWork => y[2] <= target.chapter}
    /\ stage = "chapter_plan" =>
            target.chapter \in 1 .. volumePlans[target.volume].chapters
    /\ \A y \in DOMAIN chapterPlans :
            /\ chapterPlans[y].basis \in DOMAIN generations
            /\ chapterPlans[y].revelations <= volumePlans[y[1]].revelations
    /\ \A x \in DOMAIN scenePlans :
            /\ scenePlans[x].basis \in DOMAIN generations
            /\ scenePlans[x].revelations
                    <= chapterPlans[<<x[1], x[2]>>].revelations
    /\ stage \in SceneStages => scenePlans[Coords].basis = current

\* The files staged so far when a stage starts.
FilesAt == [s \in SceneStages \ {"scene_card"} |->
                CASE s = "scene_prose" -> {"card"}
                  [] s = "scene_continuity" -> {"card", "prose"}
                  [] s = "scene_commit" -> SceneFiles]

\* The scene in work is the target's, with the files of the stages before.
Staged ==
    /\ active = IF stage \in SceneStages THEN Coords ELSE NoScene
    /\ DOMAIN staging = IF stage \in DOMAIN FilesAt THEN {Coords} ELSE {}
    /\ \A x \in DOMAIN staging : staging[x].basis = current
                                 /\ staging[x].files = FilesAt[stage]

\* The volumes behind the target are handed over, with the generation they
\* ended on; the run is completed and published last.
Closed ==
    /\ stage \in Open => DOMAIN handoffs = 1 .. target.volume - 1
    /\ stage \in Closing => DOMAIN handoffs = Volumes
    /\ stage = "completion" => target.volume = VolumeCount
    /\ \A u \in DOMAIN handoffs :
            /\ handoffs[u].scenes = PlannedScenes(u)
            /\ handoffs[u].basis \in DOMAIN generations
            /\ LastOf(PlannedScenes(u)) \in DOMAIN scenes
            /\ handoffs[u].basis = scenes[LastOf(PlannedScenes(u))].result
    /\ stage = "volume_plan" /\ target.volume > 1 =>
            handoffs[target.volume - 1].basis = current
    /\ status = "running" =>
        /\ published = None
        /\ DOMAIN completions = IF stage = "publication" THEN {1} ELSE {}
        /\ stage = "publication" =>
            /\ target.completion = 1
            /\ completions[1].status # "incomplete"
            /\ completions[1].basis = current

\* What the stages leave for one another.
Handover == Begun /\ Founded /\ Scheduled /\ Staged /\ Closed

\* The names of the stages differ.
LEMMA StagesDiffer ==
    /\ \A i, j \in 1 .. 8 : InitialStages[i] = InitialStages[j] => i = j
    /\ \A i \in 1 .. 8 : InitialStages[i] \notin FromAccept \cup {"input"}
    /\ "input" \notin FromAccept /\ "initial_accept" \notin AfterAccept
BY DEF InitialStages, FromAccept, AfterAccept, Later, Open, Closing, SceneWork,
       SceneStages

\* Before the Series Plan the stages touch the design and the generations only.
LEMMA EarlySteps ==
    ASSUME Inv, AcceptInput \/ AdoptPart \/ Accept \/ Crash
    PROVE  /\ stage \notin AfterAccept
           /\ UNCHANGED <<source, planArtifacts, staging, scenes, endArtifacts,
                          status, published>>
           /\ \/ stage' \notin AfterAccept /\ UNCHANGED <<current, active, target>>
              \/ stage' \notin AfterAccept /\ UNCHANGED current
                 /\ active' = NoScene /\ target' = NoTarget
              \/ AdvanceFromAccept /\ stage' = "series_plan" /\ active' = NoScene
<1>0. Control
    BY DEF Inv
<1>1. CASE AcceptInput
    BY <1>1
    DEF AcceptInput, Begin, AdvanceTo, sceneArtifacts, AfterAccept, Later, Open,
        Closing, SceneWork, SceneStages
<1>2. CASE AdoptPart
  <2>1. PICK i \in 1 .. 8 :
            /\ stage = InitialStages[i]
            /\ stage' = IF i = 8 THEN "initial_accept" ELSE InitialStages[i + 1]
            /\ active' = IF stage' \in SceneStages THEN NoScene ELSE NoScene
            /\ target' = NoTarget
    BY <1>2 DEF AdoptPart, Begin, AdvanceTo
  <2>2. i # 8 => i + 1 \in 1 .. 8
    OBVIOUS
  <2>3. stage \notin AfterAccept /\ stage' \notin AfterAccept
    BY <2>1, <2>2, StagesDiffer DEF FromAccept
  <2>4. QED
    BY <1>2, <2>1, <2>3 DEF AdoptPart, sceneArtifacts
<1>3. CASE EnsureDesign
    BY <1>3, StagesDiffer DEF EnsureDesign, Begin, Accepting
<1>4. CASE WriteDesign \/ FindInitialGeneration \/ ReserveGeneration
    BY <1>0, <1>4, StagesDiffer
    DEF WriteDesign, FindInitialGeneration, ReserveGeneration, Accepting, Control
<1>5. CASE StageGeneration \/ PublishGeneration
    BY <1>0, <1>5, StagesDiffer
    DEF StageGeneration, PublishGeneration, Accepting, Control
<1>6. CASE AdvanceFromAccept
    BY <1>0, <1>6, StagesDiffer
    DEF AdvanceFromAccept, AdvanceTo, Control, initialArtifacts,
        sceneArtifacts, SceneStages
<1>7. CASE Crash
    BY <1>0, <1>7, StagesDiffer, PipelineAssumption
    DEF Crash, Control, runState, artifacts, initialArtifacts, sceneArtifacts,
        AcceptLabels
<1>8. QED
    BY <1>1, <1>2, <1>3, <1>4, <1>5, <1>6, <1>7 DEF Accept

\* From the Series Plan on, nothing of the design changes, and the generations
\* only when a scene is committed.
LEMMA LaterSteps ==
    ASSUME Plan \/ WriteScene \/ HandOff \/ Complete \/ Publish
    PROVE  /\ stage \in AfterAccept /\ stage' \in Later
           /\ pc = "idle" /\ status = "running"
           /\ UNCHANGED <<initialArtifacts, acceptance>>
           /\ CommitScene \/ UNCHANGED <<current, generations, scenes>>
<1>1. CASE Plan
    BY <1>1
    DEF Plan, PlanSeries, PlanVolume, PlanChapter, PlanScene, Begin, AtRest,
        AdvanceTo, sceneArtifacts, AfterAccept, Later, Open, Closing, SceneWork,
        SceneStages
<1>2. CASE WriteCard \/ WriteProse \/ WriteContinuity
    BY <1>2
    DEF WriteCard, WriteProse, WriteContinuity, Begin, AtRest, AdvanceTo,
        AfterAccept, Later, Open, Closing, SceneWork, SceneStages
<1>3. CASE CommitScene
  <2>1. stage = "scene_commit" /\ stage' = AfterScene(target.result)[1]
        /\ pc = "idle" /\ status = "running"
        /\ UNCHANGED <<initialArtifacts, acceptance>>
    BY <1>3 DEF CommitScene, Begin, AtRest, AdvanceTo
  <2>2. stage' \in {"scene_plan", "chapter_plan", "volume_handoff"}
    BY <2>1 DEF AfterScene
  <2>3. QED
    BY <1>3, <2>1, <2>2 DEF AfterAccept, Later, Open, SceneWork, SceneStages
<1>4. CASE HandOff
    BY <1>4
    DEF HandOff, Begin, AtRest, AdvanceTo, AfterHandoff, sceneArtifacts,
        AfterAccept, Later, Open, Closing
<1>5. CASE Complete
    BY <1>5
    DEF Complete, Begin, AtRest, AdvanceTo, sceneArtifacts, AfterAccept, Later,
        Open, Closing
<1>6. CASE Publish
    BY <1>6
    DEF Publish, Begin, AtRest, sceneArtifacts, AfterAccept, Later, Closing
<1>7. QED
    BY <1>1, <1>2, <1>3, <1>4, <1>5, <1>6 DEF WriteScene

\* The rest of the steps change at most whether the run goes on.
LEMMA IdleSteps ==
    ASSUME Block \/ Rest \/ UNCHANGED vars
    PROVE  /\ UNCHANGED <<stage, target, active, current, published, artifacts,
                          counter, acceptance>>
           /\ status' = status \/ status' = "blocked"
BY DEF Block, Rest, vars, runState

\* The parts of the design and the Brief are there when they are asked for; no
\* crash tears the file the parts are put together in.
LEMMA BegunKept ==
    ASSUME Inv, Begun, [Next]_vars, "design_file" \notin CrashAt
    PROVE  Begun'
<1>0. Control /\ stage \in Stages
    BY DEF Inv, Begun
<1>s. /\ {"input", "initial_accept", "series_plan"} \subseteq Stages
      /\ Later \subseteq Stages
      /\ \A i \in 1 .. 8 : InitialStages[i] \in Stages
    BY DEF Stages, Later, Open, Closing, SceneWork, SceneStages
<1>1. CASE AcceptInput
  <2>1. /\ stage = "input" /\ stage' = InitialStages[1] /\ pc = "idle" /\ brief'
        /\ UNCHANGED <<source, parts, design, acceptance>>
    BY <1>1 DEF AcceptInput, Begin, AtRest, AdvanceTo, InitialStages
  <2>2. stage \notin FromAccept /\ stage' \notin FromAccept /\ stage' # "input"
        /\ stage' \in Stages /\ UNCHANGED pc
    BY <2>1, StagesDiffer, <1>s DEF acceptance
  <2>3. 1 \in 1 .. 8 /\ 1 .. 1 - 1 = {} /\ parts' = {}
    BY <2>1 DEF Begun
  <2>4. \A i \in 1 .. 8 : stage' = InitialStages[i] =>
                            parts' = {DesignParts[j] : j \in 1 .. i - 1}
    <3>1. \A i \in 1 .. 8 : stage' = InitialStages[i] => i = 1
        BY <2>1, <2>3, StagesDiffer
    <3>2. {DesignParts[j] : j \in 1 .. 1 - 1} = {}
        BY <2>3
    <3>3. QED
        BY <2>3, <3>1, <3>2
  <2>5. stage' \notin AfterAccept
    BY <2>2 DEF FromAccept
  <2>6. QED
    BY <2>1, <2>2, <2>4, <2>5 DEF Begun
<1>2. CASE AdoptPart
  <2>1. PICK i \in 1 .. 8 :
            /\ stage = InitialStages[i]
            /\ stage' = IF i = 8 THEN "initial_accept" ELSE InitialStages[i + 1]
            /\ parts' = parts \cup {DesignParts[i]}
    BY <1>2 DEF AdoptPart, Begin, AdvanceTo
  <2>2. /\ pc = "idle" /\ UNCHANGED <<pc, source, brief, design>>
    BY <1>2 DEF AdoptPart, Begin, AtRest, acceptance
  <2>3. parts' = {DesignParts[j] : j \in 1 .. i}
    <3>1. parts = {DesignParts[j] : j \in 1 .. i - 1}
        BY <2>1 DEF Begun
    <3>2. 1 .. i = (1 .. i - 1) \cup {i}
        OBVIOUS
    <3>3. {DesignParts[j] : j \in (1 .. i - 1) \cup {i}}
            = {DesignParts[j] : j \in 1 .. i - 1} \cup {DesignParts[i]}
        OBVIOUS
    <3>4. QED
        BY <2>1, <3>1, <3>2, <3>3
  <2>4. stage \notin FromAccept /\ stage # "input" /\ design = "absent" /\ brief
    BY <2>1, StagesDiffer DEF Begun
  <2>5. CASE i = 8
    <3>1. /\ stage' = "initial_accept" /\ stage' \in FromAccept
          /\ stage' \notin AfterAccept /\ stage' # "input"
          /\ \A j \in 1 .. 8 : stage' # InitialStages[j]
        BY <2>1, <2>5, StagesDiffer DEF FromAccept
    <3>2. QED
        BY <2>2, <2>3, <2>4, <2>5, <3>1, <1>s DEF Begun, AllParts
  <2>6. CASE i # 8
    <3>1. i + 1 \in 1 .. 8 /\ stage' = InitialStages[i + 1] /\ (i + 1) - 1 = i
        BY <2>1, <2>6
    <3>2. /\ stage' \notin FromAccept /\ stage' # "input" /\ stage' \in Stages
          /\ stage' \notin AfterAccept
          /\ \A j \in 1 .. 8 : stage' = InitialStages[j] => j = i + 1
        BY <3>1, StagesDiffer, <1>s DEF FromAccept
    <3>3. QED
        BY <2>2, <2>3, <2>4, <3>1, <3>2 DEF Begun
  <2>7. QED
    BY <2>5, <2>6
<1>3. CASE Accept \/ Crash
  <2>1. /\ stage = "initial_accept" /\ stage' \in {"initial_accept", "series_plan"}
        /\ UNCHANGED <<source, brief, parts>>
        /\ \/ /\ UNCHANGED <<stage, design>> /\ design # "torn"
              /\ pc' \in {"idle", "generation", "reserve", "staging", "files",
                          "advance"}
              /\ pc' # "idle" => design = "complete"
           \/ UNCHANGED stage /\ design' = "torn" /\ pc' = "design_file"
           \/ UNCHANGED stage /\ design' = "complete" /\ pc' = "generation"
           \/ stage' = "series_plan" /\ pc' = "idle" /\ design' = "complete"
    <3>1. CASE EnsureDesign \/ WriteDesign \/ FindInitialGeneration
        BY <1>0, <3>1
        DEF EnsureDesign, WriteDesign, FindInitialGeneration, Begin, AtRest,
            Accepting, Control, Begun
    <3>2. CASE ReserveGeneration \/ StageGeneration \/ PublishGeneration
        BY <1>0, <3>2
        DEF ReserveGeneration, StageGeneration, PublishGeneration, Accepting,
            Control, Begun
    <3>3. CASE AdvanceFromAccept
        BY <1>0, <3>3
        DEF AdvanceFromAccept, AdvanceTo, initialArtifacts, Control, Begun
    <3>4. CASE Crash
        BY <1>0, <3>4, PipelineAssumption
        DEF Crash, Control, Begun, runState, artifacts, initialArtifacts,
            AcceptLabels
    <3>5. QED
        BY <1>3, <3>1, <3>2, <3>3, <3>4 DEF Accept
  <2>2. /\ stage \in FromAccept /\ stage' \in FromAccept /\ stage' # "input"
        /\ stage' \in Stages
        /\ \A j \in 1 .. 8 : stage' # InitialStages[j]
        /\ stage' \in AfterAccept <=> stage' = "series_plan"
    BY <2>1, StagesDiffer, <1>s DEF FromAccept, AfterAccept
  <2>3. (source = "brief" \/ stage # "input" => brief)'
    BY <2>1, <2>2, StagesDiffer DEF Begun
  <2>4. (stage \in FromAccept => parts = AllParts)'
    BY <2>1, <2>2, StagesDiffer DEF Begun, AllParts
  <2>5. (stage \in AfterAccept => design = "complete")'
    BY <2>1, <2>2
  <2>6. /\ pc' = "design_file" <=> design' = "torn"
        /\ pc' \notin {"idle", "design_file"} => design' = "complete"
        /\ design' \in {"absent", "torn", "complete"}
    <3>1. design \in {"absent", "torn", "complete"}
        BY DEF Begun
    <3>2. QED
        BY <2>1, <3>1
  <2>7. QED
    BY <2>2, <2>3, <2>4, <2>5, <2>6 DEF Begun
<1>4. CASE Plan \/ WriteScene \/ HandOff \/ Complete \/ Publish
  <2>1. /\ stage \in FromAccept /\ stage' \in FromAccept /\ stage' # "input"
        /\ stage \in AfterAccept /\ stage # "input"
        /\ stage' \in Stages
        /\ \A j \in 1 .. 8 : stage' # InitialStages[j]
        /\ UNCHANGED <<source, brief, parts, design, pc>>
    BY <1>4, LaterSteps, StagesDiffer, <1>s
    DEF FromAccept, AfterAccept, initialArtifacts, acceptance
  <2>2. QED
    BY <2>1 DEF Begun
<1>5. CASE Block \/ Rest \/ UNCHANGED vars
    BY <1>5, IdleSteps DEF Begun, artifacts, initialArtifacts, acceptance
<1>6. QED
    BY <1>1, <1>2, <1>3, <1>4, <1>5 DEF Next, Step

\* Adopting a generation under a new id that is not None.
LEMMA FoundedInitially ==
    ASSUME Inv, Begun, Founded, PublishGeneration
    PROVE  Founded'
<1>0. Control /\ stage = "initial_accept" /\ stage \notin AfterAccept
    BY StagesDiffer DEF Inv, Control, PublishGeneration
<1>1. /\ DOMAIN generations = {} /\ counter > 0 /\ design = "complete"
      /\ pc' = "advance" /\ counter \in Nat /\ current = None
    BY <1>0 DEF Founded, Begun, Inv, Located, PublishGeneration
<1>2. /\ UNCHANGED <<stage, current, counter, design, target, scenes>>
      /\ generations' = [z \in {counter} |->
                [parent |-> None, source |-> NoScene, evidence |-> {}]]
    BY <1>1 DEF PublishGeneration, Accepting, Adopting
<1>3. /\ DOMAIN generations' = {counter} /\ generations'[counter].parent = None
      /\ InitialGenerations' = {counter}
    BY <1>2 DEF InitialGenerations
<1>4. \A g \in DOMAIN generations' :
            g \in 1 .. counter' /\ generations'[g].parent = None
    BY <1>1, <1>2, <1>3
<1>5. QED
    BY <1>0, <1>1, <1>2, <1>3, <1>4 DEF Founded, AfterAccept, FromAccept, Later

\* A commit founds the generation its scene results in.
LEMMA FoundedByCommit ==
    ASSUME Inv, Founded, CommitScene
    PROVE  Founded'
<1> DEFINE g == target.result
           new == generations'[g]
<1>1. /\ stage = "scene_commit" /\ stage \in SceneWork /\ active = Coords
      /\ stage' \in {"scene_plan", "chapter_plan", "volume_handoff"}
      /\ target' = AfterScene(g)[2] /\ current' = g
      /\ UNCHANGED <<counter, pc, design>>
      /\ scenes' = Adopting(scenes, Coords, [parent |-> current, result |-> g])
    BY DEF CommitScene, Begin, AdvanceTo, Ready, SceneCommitReady, SceneReady,
           AfterScene, initialArtifacts, acceptance, SceneWork, SceneStages
<1>2. /\ stage \in AfterAccept /\ stage' \in AfterAccept /\ stage' \in FromAccept
      /\ stage' \notin {"series_plan", "scene_commit"}
    BY <1>1 DEF AfterAccept, FromAccept, Later, Open, SceneWork, SceneStages
<1>3. /\ g = counter /\ counter \in Nat /\ current \in DOMAIN generations
      /\ \A h \in DOMAIN generations : h \in 1 .. counter /\ h < g
    BY <1>1, <1>2 DEF Inv, Located, Founded
<1>4. g \notin DOMAIN generations /\ g # current /\ current # None /\ g \in 1 .. counter
    BY <1>3 DEF None
<1>5. /\ DOMAIN generations' = DOMAIN generations \cup {g}
      /\ \A h \in DOMAIN generations : generations'[h] = generations[h]
      /\ new.parent = current /\ new.source = active
  <2>1. \E e : generations' = Adopting(generations, g,
                    [parent |-> current, source |-> active, evidence |-> e])
    BY DEF CommitScene
  <2>2. QED
    BY <1>4, <2>1 DEF Adopting
<1>6. InitialGenerations' = InitialGenerations
    BY <1>4, <1>5 DEF InitialGenerations
<1>7. \A h \in DOMAIN generations' :
            /\ h \in 1 .. counter
            /\ generations'[h].parent # None =>
                    generations'[h].parent \in DOMAIN generations' \ {h}
    BY <1>3, <1>4, <1>5 DEF Founded
<1>8. target'.basis = g
    BY <1>1 DEF AfterScene, At
<1>9. LastOf(DOMAIN scenes') = Coords
  <2>1. DOMAIN scenes' = DOMAIN scenes \cup {Coords}
    BY <1>1 DEF Adopting
  <2>2. /\ Coords \in Places /\ DOMAIN scenes \subseteq Places
        /\ \A y \in DOMAIN scenes : Precedes(y, Coords)
    BY <1>1, CommitComesLast
  <2> HIDE DEF Coords
  <2>3. QED
    BY <2>1, <2>2, LastIs
<1>10. DOMAIN generations # {} /\ design # "absent"
            /\ pc \notin {"reserve", "staging", "files"}
    BY <1>2, <1>3 DEF Founded
<1>11. DOMAIN generations' # {} /\ \E h \in DOMAIN generations' :
                                        InitialGenerations' = {h}
    BY <1>5, <1>6, <1>10 DEF Founded
<1>12. (stage \in Later /\ DOMAIN scenes # {} =>
            generations[current].source = LastOf(DOMAIN scenes))'
    BY <1>1, <1>5, <1>9
<1>13. QED
    BY <1>1, <1>2, <1>5, <1>7, <1>8, <1>10, <1>11, <1>12 DEF Founded

\* Initial_accept makes one generation, however often it dies and starts again,
\* and no later stage leaves the target on another one than the current.
LEMMA FoundedKept ==
    ASSUME Inv, Begun, Founded, [Next]_vars
    PROVE  Founded'
<1>0. Control /\ Located /\ Blank
    BY DEF Inv
<1>1. CASE AcceptInput \/ AdoptPart
  <2>1. /\ stage \notin FromAccept /\ stage' \notin AfterAccept
        /\ UNCHANGED <<current, generations, counter, pc>> /\ pc = "idle"
    <3>1. stage' \notin AfterAccept /\ UNCHANGED current
        BY <1>1, EarlySteps
        DEF AdvanceFromAccept, AcceptInput, AdoptPart, Begin, AtRest
    <3>2. CASE AcceptInput
        BY <3>1, <3>2, StagesDiffer
        DEF AcceptInput, Begin, AtRest, sceneArtifacts, acceptance
    <3>3. CASE AdoptPart
        BY <3>1, <3>3, StagesDiffer
        DEF AdoptPart, Begin, AtRest, sceneArtifacts, acceptance
    <3>4. QED
        BY <1>1, <3>2, <3>3
  <2>2. DOMAIN generations = {} /\ stage \notin AfterAccept
    BY <2>1 DEF Founded, FromAccept
  <2>3. InitialGenerations = {} /\ InitialGenerations' = {}
    BY <2>1, <2>2 DEF InitialGenerations
  <2>4. stage' # "series_plan" /\ stage' # "scene_commit" /\ stage' \notin Later
    BY <2>1 DEF AfterAccept, Later, Open, SceneWork, SceneStages
  <2>5. QED
    BY <2>1, <2>2, <2>3, <2>4 DEF Founded
<1>2. CASE Accept \/ Crash
  <2>1. CASE EnsureDesign \/ WriteDesign \/ FindInitialGeneration
               \/ ReserveGeneration \/ StageGeneration \/ Crash
    <3>1. /\ stage = "initial_accept" /\ stage \notin AfterAccept
          /\ stage \in FromAccept /\ stage \notin Later
          /\ UNCHANGED <<stage, current, generations, target, scenes>>
          /\ \/ UNCHANGED counter
                /\ pc' \in {"idle", "design_file", "generation", "advance"}
             \/ /\ UNCHANGED counter /\ InitialGenerations = {}
                /\ pc' = "reserve"
             \/ pc = "reserve" /\ counter' = counter + 1 /\ pc' = "staging"
             \/ pc = "staging" /\ UNCHANGED counter /\ pc' = "files"
      <4>1. CASE EnsureDesign \/ WriteDesign
        BY <1>0, <4>1, StagesDiffer
        DEF EnsureDesign, WriteDesign, Begin, Accepting, Control, FromAccept,
            AfterAccept
      <4>2. CASE FindInitialGeneration
        BY <1>0, <4>2, StagesDiffer
        DEF FindInitialGeneration, FoundInitial, Accepting, Control, FromAccept,
            AfterAccept
      <4>3. CASE ReserveGeneration \/ StageGeneration
        BY <1>0, <4>3, StagesDiffer
        DEF ReserveGeneration, StageGeneration, Accepting, Control, FromAccept,
            AfterAccept
      <4>4. CASE Crash
        BY <1>0, <4>4, StagesDiffer, PipelineAssumption
        DEF Crash, Control, runState, artifacts, sceneArtifacts, FromAccept,
            AfterAccept, AcceptLabels
      <4>5. QED
        BY <2>1, <4>1, <4>2, <4>3, <4>4
    <3>2. current = None /\ DOMAIN generations = InitialGenerations
          /\ UNCHANGED InitialGenerations
        BY <3>1 DEF Founded, InitialGenerations
    <3>3. design' = "absent" => DOMAIN generations = {}
      <4>1. design' = design \/ design' # "absent"
        BY <2>1
        DEF EnsureDesign, WriteDesign, FindInitialGeneration, ReserveGeneration,
            StageGeneration, Crash, artifacts, initialArtifacts
      <4>2. QED
        BY <4>1 DEF Founded
    <3>4. \A g \in DOMAIN generations : g \in 1 .. counter'
        BY <1>0, <3>1 DEF Founded, Located
    <3>5. /\ pc' \in {"reserve", "staging", "files"} => DOMAIN generations = {}
          /\ pc' \in {"staging", "files"} => counter' > 0
        BY <1>0, <3>1, <3>2 DEF Founded, Located
    <3>6. QED
        BY <3>1, <3>2, <3>3, <3>4, <3>5 DEF Founded, AfterAccept
  <2>2. CASE PublishGeneration
    BY <2>2, FoundedInitially
  <2>3. CASE AdvanceFromAccept
    <3>1. /\ stage \notin AfterAccept /\ stage' = "series_plan" /\ pc' = "idle"
          /\ current' \in InitialGenerations /\ target' = At(0, 0, 0, current')
          /\ UNCHANGED <<generations, counter, scenes, design>>
          /\ design = "complete"
        BY <1>0, <2>3, StagesDiffer
        DEF AdvanceFromAccept, AdvanceTo, Control, sceneArtifacts,
            initialArtifacts, Begun
    <3>2. /\ stage' \in AfterAccept /\ stage' \in FromAccept /\ stage' \notin Later
          /\ stage' # "scene_commit"
        BY <3>1, PartsComeFirst DEF AfterAccept, FromAccept
    <3>3. target'.basis = current' /\ current' \in DOMAIN generations
          /\ UNCHANGED InitialGenerations
        BY <3>1 DEF At, InitialGenerations
    <3>4. QED
        BY <3>1, <3>2, <3>3 DEF Founded
  <2>4. QED
    BY <1>2, <2>1, <2>2, <2>3 DEF Accept
<1>3. CASE Plan \/ HandOff \/ Complete \/ Publish \/ WriteCard \/ WriteProse
             \/ WriteContinuity
  <2>1. /\ stage \in AfterAccept /\ stage' \in Later
        /\ UNCHANGED <<current, generations, scenes, pc, design>>
        /\ pc = "idle"
    <3>1. ~CommitScene \/ (stage \in AfterAccept /\ stage' \in Later)
        BY <1>3, LaterSteps DEF WriteScene
    <3>2. UNCHANGED <<current, generations, scenes>>
        BY <1>3
        DEF Plan, PlanSeries, PlanVolume, PlanChapter, PlanScene, WriteCard,
            WriteProse, WriteContinuity, HandOff, Complete, Publish,
            sceneArtifacts
    <3>3. QED
        BY <1>3, <3>2, LaterSteps DEF WriteScene, initialArtifacts, acceptance
  <2>2. /\ stage' \in AfterAccept /\ stage' \in FromAccept
        /\ stage' # "series_plan"
    BY <2>1, PartsComeFirst DEF AfterAccept, FromAccept
  <2>3. /\ target'.basis = current
        /\ UNCHANGED counter \/ counter' = counter + 1
        /\ stage' = "scene_commit" => counter' = counter + 1
                                      /\ target'.result = counter'
    <3>0. target \in Targets /\ target.basis = current
        BY <1>0, <2>1 DEF Located, Founded
    <3>1. CASE PlanSeries \/ PlanVolume \/ PlanChapter \/ HandOff
        BY <3>1
        DEF PlanSeries, PlanVolume, PlanChapter, HandOff, AdvanceTo,
            AfterHandoff, At
    <3>2. CASE PlanScene \/ WriteCard \/ WriteProse
        BY <3>0, <3>2 DEF PlanScene, WriteCard, WriteProse, AdvanceTo
    <3>3. CASE WriteContinuity
        BY <3>0, <3>3 DEF WriteContinuity, AdvanceTo, Targets
    <3>4. CASE Complete
        BY <3>0, <3>4 DEF Complete, AdvanceTo, At, Begin
    <3>5. CASE Publish
        BY <3>0, <3>5 DEF Publish, Begin, Targets
    <3>6. QED
        BY <1>3, <3>1, <3>2, <3>3, <3>4, <3>5 DEF Plan
  <2>4. \A g \in DOMAIN generations :
            /\ g \in 1 .. counter'
            /\ stage' = "scene_commit" => g < counter'
    BY <1>0, <2>3 DEF Founded, Located
  <2>5. UNCHANGED InitialGenerations
    BY <2>1 DEF InitialGenerations
  <2>6. stage \notin Later => DOMAIN scenes = {}
    BY <1>0 DEF Blank
  <2>7. QED
    BY <2>1, <2>2, <2>3, <2>4, <2>5, <2>6 DEF Founded
<1>4. CASE CommitScene
    BY <1>4, FoundedByCommit
<1>5. CASE Block \/ Rest \/ UNCHANGED vars
  <2>1. UNCHANGED <<stage, target, current, design, scenes, generations,
                    counter, pc>>
    BY <1>5, IdleSteps
    DEF artifacts, initialArtifacts, sceneArtifacts, acceptance
  <2>2. UNCHANGED InitialGenerations
    BY <2>1 DEF InitialGenerations
  <2>3. QED
    BY <2>1, <2>2 DEF Founded
<1>6. QED
    BY <1>1, <1>2, <1>3, <1>4, <1>5 DEF Next, Step, Plan, WriteScene

\* The Series Plan met its contract when it was adopted, and does not change.
LEMMA ContractStays ==
    ASSUME \/ SeriesPlanContract(seriesPlan')
           \/ SeriesPlanContract(seriesPlan) /\ seriesPlan' = seriesPlan
    PROVE  SeriesPlanContract(seriesPlan)'
<1>1. CASE SeriesPlanContract(seriesPlan')
    BY <1>1 DEF SeriesPlanContract, MapThenSumSet, MapThenFoldSet
<1>2. CASE SeriesPlanContract(seriesPlan) /\ seriesPlan' = seriesPlan
    BY <1>2 DEF SeriesPlanContract, MapThenSumSet, MapThenFoldSet
<1>3. QED
    BY <1>1, <1>2

\* A step that adopts no plan and stays in its place keeps the schedule, as
\* the generations it rests on stay.
LEMMA ScheduledInPlace ==
    ASSUME Scheduled, Drafted, UNCHANGED planArtifacts,
           DOMAIN generations \subseteq DOMAIN generations',
           UNCHANGED <<target.volume, target.chapter, target.scene>>,
           \/ UNCHANGED <<stage, current>>
           \/ /\ stage \in SceneStages /\ stage' \in SceneStages
              /\ UNCHANGED current
           \/ stage \in Closing /\ stage' \in Closing
           \/ stage \notin Later /\ stage' \notin Later
    PROVE  Scheduled'
<1>1. UNCHANGED Coords
    BY DEF Coords
<1>2. /\ SceneStages \cap (Closing \cup {"volume_plan", "chapter_plan"}) = {}
      /\ SceneStages \subseteq SceneWork /\ SceneWork \subseteq Open
      /\ Open \cap Closing = {} /\ Later = Open \cup Closing
      /\ {"volume_plan", "chapter_plan"} \subseteq Open
    BY DEF Later, Open, Closing, SceneWork, SceneStages
<1>3. /\ seriesPlan' = seriesPlan /\ volumePlans' = volumePlans
      /\ chapterPlans' = chapterPlans /\ scenePlans' = scenePlans
    BY DEF planArtifacts
<1>4. /\ stage' \in Later <=> stage \in Later
      /\ stage' \in Open <=> stage \in Open
      /\ stage' \in SceneWork <=> stage \in SceneWork
      /\ stage' \in SceneStages <=> stage \in SceneStages
      /\ stage \in Later => (stage' = "volume_plan" <=> stage = "volume_plan")
      /\ stage' = "chapter_plan" <=> stage = "chapter_plan"
      /\ stage \in SceneStages => current' = current
    BY <1>2
<1>5. (stage \in Later =>
        DOMAIN volumePlans =
            {u \in Volumes : stage \in Open =>
                                \/ u < target.volume
                                \/ u = target.volume /\ stage # "volume_plan"})'
    BY <1>3, <1>4 DEF Scheduled
<1>6. (stage \in Later =>
        DOMAIN chapterPlans =
            {y \in Volumes \X Positive :
                /\ y[1] \in DOMAIN volumePlans
                /\ y[2] <= volumePlans[y[1]].chapters
                /\ y[1] = target.volume =>
                    /\ stage = "chapter_plan" => y[2] < target.chapter
                    /\ stage \in SceneWork => y[2] <= target.chapter})'
    BY <1>3, <1>4 DEF Scheduled
<1>7. (stage \in Later => SeriesPlanContract(seriesPlan)
                          /\ seriesPlan.basis \in DOMAIN generations)'
    BY ContractStays, <1>3, <1>4 DEF Scheduled
<1>8. QED
    BY <1>1, <1>3, <1>4, <1>5, <1>6, <1>7 DEF Scheduled

\* The Series Plan is adopted when none of the volumes is planned.
LEMMA SeriesScheduled ==
    ASSUME Inv, Budgets, Founded, PlanSeries
    PROVE  Scheduled'
<1>0. Located /\ Blank /\ Drafted
    BY DEF Inv, Budgets
<1>1. /\ stage = "series_plan" /\ stage' = "volume_plan"
      /\ target' = At(1, 0, 0, current)
      /\ UNCHANGED <<volumePlans, chapterPlans, scenePlans, generations>>
      /\ SeriesPlanContract(seriesPlan') /\ seriesPlan'.basis = current
    BY DEF PlanSeries, Begin, AdvanceTo, sceneArtifacts
<1>2. /\ stage \notin Later /\ stage' \in Later /\ stage \in AfterAccept
      /\ stage' \notin SceneWork /\ stage' \notin SceneStages
      /\ stage' # "chapter_plan"
    BY <1>1, PartsComeFirst
    DEF AfterAccept, Later, Open, SceneWork, SceneStages
<1>3. /\ DOMAIN volumePlans = {} /\ DOMAIN chapterPlans = {}
      /\ DOMAIN scenePlans = {}
    BY <1>0, <1>2 DEF Blank, Drafted
<1>4. current \in DOMAIN generations
    BY <1>2 DEF Founded
<1>5. {u \in Volumes : stage' \in Open =>
                            \/ u < target'.volume
                            \/ u = target'.volume /\ stage' # "volume_plan"} = {}
    BY <1>1, BriefAssumption DEF Volumes, At, Open
<1>6. (SeriesPlanContract(seriesPlan))'
    BY ContractStays, <1>1
<1>7. QED
    BY <1>1, <1>2, <1>3, <1>4, <1>5, <1>6 DEF Scheduled

\* The Volume Plan of the target is adopted when all before it are.
LEMMA VolumeScheduled ==
    ASSUME Inv, Budgets, Founded, Scheduled, PlanVolume
    PROVE  Scheduled'
<1> DEFINE v == target.volume
<1>0. Located /\ Placed /\ Typed
    BY DEF Inv
<1>1. /\ stage = "volume_plan" /\ stage' = "chapter_plan"
      /\ target' = At(v, 1, 0, current) /\ v \notin DOMAIN volumePlans
      /\ UNCHANGED <<seriesPlan, chapterPlans, scenePlans, generations>>
    BY DEF PlanVolume, Begin, AdvanceTo, sceneArtifacts, Ready, VolumePlanReady
<1>2. PICK n \in ChapterNumbers, r \in 0 .. Knowledge :
        /\ n \in ChapterCounts[v]
        /\ volumePlans' = Adopting(volumePlans, v,
            [chapters |-> n, revelations |-> r, basis |-> current])
    BY DEF PlanVolume, VolumePlanContract
<1>3. /\ stage \in Later /\ stage' \in Later /\ stage \in AfterAccept
      /\ stage \in Open /\ stage' \in Open
      /\ stage' \notin SceneWork /\ stage' \notin SceneStages
      /\ stage \notin SceneWork
    BY <1>1 DEF AfterAccept, Later, Open, SceneWork, SceneStages
<1>4. /\ v \in Volumes /\ v \in Nat /\ target'.volume = v
      /\ target'.chapter = 1 /\ current \in DOMAIN generations
    BY <1>0, <1>1, <1>3 DEF Placed, Founded, Volumes, At
<1>5. /\ DOMAIN volumePlans' = DOMAIN volumePlans \cup {v}
      /\ volumePlans'[v].chapters = n /\ volumePlans'[v].basis = current
      /\ \A u \in DOMAIN volumePlans : volumePlans'[u] = volumePlans[u]
    BY <1>1, <1>2 DEF Adopting
<1>6. n \in Positive
    BY <1>2, <1>4, BriefAssumption DEF Volumes, Positive
<1>7. DOMAIN volumePlans = {u \in Volumes : u < v}
    BY <1>1, <1>3 DEF Scheduled
<1>8. DOMAIN volumePlans' = {u \in Volumes : u < v \/ u = v}
    BY <1>4, <1>5, <1>7
<1>9. DOMAIN chapterPlans = {y \in Volumes \X Positive :
                                /\ y[1] \in DOMAIN volumePlans
                                /\ y[2] <= volumePlans[y[1]].chapters}
    BY <1>1, <1>3 DEF Scheduled
<1>10. DOMAIN chapterPlans' = {y \in Volumes \X Positive :
                                /\ y[1] \in DOMAIN volumePlans'
                                /\ y[2] <= volumePlans'[y[1]].chapters
                                /\ y[1] = v => y[2] < 1}
  <2>1. \A y \in Volumes \X Positive : ~(y[2] < 1)
    BY DEF Positive
  <2>2. QED
    BY <1>1, <1>5, <1>9, <2>1
<1>11. \A y \in DOMAIN chapterPlans : y[1] \in DOMAIN volumePlans
    BY <1>9
<1>12. (SeriesPlanContract(seriesPlan))' /\ seriesPlan'.basis \in DOMAIN generations'
    BY ContractStays, <1>1, <1>3 DEF Scheduled
<1>13. (/\ \A u \in DOMAIN volumePlans :
            /\ volumePlans[u].chapters \in ChapterCounts[u]
            /\ volumePlans[u].basis \in DOMAIN generations
        /\ \A y \in DOMAIN chapterPlans :
            /\ chapterPlans[y].basis \in DOMAIN generations
            /\ chapterPlans[y].revelations <= volumePlans[y[1]].revelations
        /\ \A x \in DOMAIN scenePlans :
            /\ scenePlans[x].basis \in DOMAIN generations
            /\ scenePlans[x].revelations
                    <= chapterPlans[<<x[1], x[2]>>].revelations)'
    BY <1>1, <1>2, <1>4, <1>5, <1>11 DEF Scheduled
<1>14. 1 \in 1 .. n
    BY <1>6 DEF Positive
<1>15. QED
    BY <1>1, <1>3, <1>4, <1>5, <1>8, <1>10, <1>12, <1>13, <1>14 DEF Scheduled

\* The Chapter Plan of the target, its revelations within those of the volume.
LEMMA ChapterScheduled ==
    ASSUME Inv, Budgets, Founded, Scheduled, PlanChapter
    PROVE  Scheduled'
<1> DEFINE v == target.volume
           c == target.chapter
           x == <<v, c>>
<1>0. Located /\ Placed /\ Typed /\ Written /\ Drafted
    BY DEF Inv, Budgets
<1>1. /\ stage = "chapter_plan" /\ stage' = "scene_plan" /\ Chapter = x
      /\ target' = At(v, c, 1, current) /\ x \notin DOMAIN chapterPlans
      /\ UNCHANGED <<seriesPlan, volumePlans, scenePlans, generations>>
    BY DEF PlanChapter, Begin, AdvanceTo, sceneArtifacts, Ready,
           ChapterPlanReady, Chapter
<1>2. PICK n \in SceneCounts, r \in 0 .. Knowledge :
        /\ r <= volumePlans[v].revelations
        /\ chapterPlans' = Adopting(chapterPlans, x,
            [scenes |-> n, revelations |-> r, basis |-> current])
    BY <1>1 DEF PlanChapter, ChapterPlanContract
<1>3. /\ stage \in Later /\ stage' \in Later /\ stage \in AfterAccept
      /\ stage \in Open /\ stage' \in Open
      /\ stage' \in SceneWork /\ stage' \notin SceneStages
      /\ stage \notin SceneWork /\ stage \notin SceneStages
    BY <1>1 DEF AfterAccept, Later, Open, SceneWork, SceneStages
<1>4. /\ v \in Volumes /\ v \in Nat /\ target'.volume = v /\ c \in Positive
      /\ target'.chapter = c /\ current \in DOMAIN generations /\ c \in Nat
    BY <1>0, <1>1, <1>3 DEF Placed, Founded, Volumes, At, Positive
<1>5. /\ DOMAIN chapterPlans' = DOMAIN chapterPlans \cup {x}
      /\ chapterPlans'[x].basis = current /\ chapterPlans'[x].revelations = r
      /\ \A y \in DOMAIN chapterPlans : chapterPlans'[y] = chapterPlans[y]
    BY <1>1, <1>2 DEF Adopting
<1>6. c \in 1 .. volumePlans[v].chapters /\ v \in DOMAIN volumePlans
    BY <1>1, <1>3, <1>4 DEF Scheduled
<1>7. DOMAIN chapterPlans = {y \in Volumes \X Positive :
                                /\ y[1] \in DOMAIN volumePlans
                                /\ y[2] <= volumePlans[y[1]].chapters
                                /\ y[1] = v => y[2] < c}
    BY <1>1, <1>3 DEF Scheduled
<1>8. DOMAIN chapterPlans' = {y \in Volumes \X Positive :
                                /\ y[1] \in DOMAIN volumePlans
                                /\ y[2] <= volumePlans[y[1]].chapters
                                /\ y[1] = v => y[2] <= c}
  <2>1. x \in Volumes \X Positive /\ x[1] = v /\ x[2] = c
    BY <1>4
  <2>2. \A y \in Volumes \X Positive :
            y[1] = v => (y[2] <= c <=> y[2] < c \/ y = x)
    BY <1>4 DEF Positive
  <2>3. c <= volumePlans[v].chapters
    BY <1>6
  <2> HIDE DEF x
  <2>4. \A y \in Volumes \X Positive :
            (/\ y[1] \in DOMAIN volumePlans
             /\ y[2] <= volumePlans[y[1]].chapters
             /\ y[1] = v => y[2] <= c)
            <=> y \in DOMAIN chapterPlans \/ y = x
    BY <1>6, <1>7, <2>1, <2>2, <2>3
  <2>5. DOMAIN chapterPlans \subseteq Volumes \X Positive
    BY <1>0 DEF Typed
  <2>6. QED
    BY <1>5, <2>1, <2>4, <2>5
<1>9. (/\ \A u \in DOMAIN volumePlans :
            /\ volumePlans[u].chapters \in ChapterCounts[u]
            /\ volumePlans[u].basis \in DOMAIN generations
       /\ \A y \in DOMAIN chapterPlans :
            /\ chapterPlans[y].basis \in DOMAIN generations
            /\ chapterPlans[y].revelations <= volumePlans[y[1]].revelations)'
  <2>1. x[1] = v
    OBVIOUS
  <2> HIDE DEF x
  <2>2. QED
    BY <1>1, <1>2, <1>4, <1>5, <2>1 DEF Scheduled
<1>10. (\A z \in DOMAIN scenePlans :
            /\ scenePlans[z].basis \in DOMAIN generations
            /\ scenePlans[z].revelations
                    <= chapterPlans[<<z[1], z[2]>>].revelations)'
  <2>1. \A z \in DOMAIN scenePlans : <<z[1], z[2]>> \in DOMAIN chapterPlans
    BY <1>0, <1>3 DEF Drafted, Written
  <2>2. QED
    BY <1>1, <1>5, <2>1 DEF Scheduled
<1>11. (SeriesPlanContract(seriesPlan))' /\ seriesPlan'.basis \in DOMAIN generations'
    BY ContractStays, <1>1, <1>3 DEF Scheduled
<1>12. (DOMAIN volumePlans =
            {u \in Volumes : stage \in Open =>
                                \/ u < target.volume
                                \/ u = target.volume /\ stage # "volume_plan"})'
    BY <1>1, <1>3, <1>4 DEF Scheduled
<1>13. QED
    BY <1>1, <1>3, <1>4, <1>8, <1>9, <1>10, <1>11, <1>12 DEF Scheduled

\* The Scene Plan of the target, its revelations within those of the chapter.
LEMMA SceneScheduled ==
    ASSUME Inv, Budgets, Founded, Scheduled, PlanScene
    PROVE  Scheduled'
<1>0. Located /\ Placed /\ Typed
    BY DEF Inv
<1>1. /\ stage = "scene_plan" /\ stage' = "scene_card"
      /\ Coords \notin DOMAIN scenePlans
      /\ UNCHANGED <<target, current, seriesPlan, volumePlans, chapterPlans,
                     generations>>
    BY DEF PlanScene, Begin, AdvanceTo, sceneArtifacts, Ready, ScenePlanReady
<1>2. PICK r \in 0 .. Knowledge :
        /\ r <= chapterPlans[Chapter].revelations
        /\ scenePlans' = Adopting(scenePlans, Coords,
                                  [revelations |-> r, basis |-> current])
    BY DEF PlanScene, ScenePlanContract, Coords, Chapter
<1>3. /\ stage \in Later /\ stage' \in Later /\ stage \in AfterAccept
      /\ stage \in Open /\ stage' \in Open
      /\ stage' \in SceneWork /\ stage \in SceneWork
    BY <1>1 DEF AfterAccept, Later, Open, SceneWork, SceneStages
<1>4. /\ UNCHANGED Coords /\ current \in DOMAIN generations
      /\ <<Coords[1], Coords[2]>> = Chapter
    BY <1>1, <1>3 DEF Coords, Chapter, Founded
<1>5. /\ DOMAIN scenePlans' = DOMAIN scenePlans \cup {Coords}
      /\ scenePlans'[Coords].basis = current
      /\ scenePlans'[Coords].revelations = r
      /\ \A y \in DOMAIN scenePlans : scenePlans'[y] = scenePlans[y]
    BY <1>1, <1>2 DEF Adopting
<1>6. (\A z \in DOMAIN scenePlans :
            /\ scenePlans[z].basis \in DOMAIN generations
            /\ scenePlans[z].revelations
                    <= chapterPlans[<<z[1], z[2]>>].revelations)'
    BY <1>1, <1>2, <1>4, <1>5 DEF Scheduled
<1>7. (SeriesPlanContract(seriesPlan))'
    BY ContractStays, <1>1, <1>3 DEF Scheduled
<1>8. QED
    BY <1>1, <1>3, <1>4, <1>5, <1>6, <1>7 DEF Scheduled

\* After a commit or a handoff the place of the target is the next one.
LEMMA ScheduledAfterScene ==
    ASSUME Inv, Budgets, Founded, Scheduled, CommitScene
    PROVE  Scheduled'
<1> DEFINE v == target.volume
           c == target.chapter
           g == target.result
<1>0. Placed /\ Typed /\ Drafted
    BY DEF Inv, Budgets
<1>1. /\ stage = "scene_commit"
      /\ stage' = AfterScene(g)[1] /\ target' = AfterScene(g)[2]
      /\ UNCHANGED planArtifacts
      /\ DOMAIN generations \subseteq DOMAIN generations'
    BY DEF CommitScene, Begin, AdvanceTo, Adopting
<1>2. /\ stage \in Later /\ stage \in SceneWork /\ stage \in Open
    BY <1>1 DEF Later, Open, SceneWork, SceneStages
<1>3. /\ v \in Volumes /\ v \in Nat /\ <<v, c>> \in DOMAIN chapterPlans
      /\ c \in Positive /\ c \in Nat
    BY <1>0, <1>2 DEF Placed, Typed, Chapter, Volumes, Positive
<1>4. v \in DOMAIN volumePlans /\ c <= volumePlans[v].chapters
            /\ volumePlans[v].chapters \in Nat
  <2>1. <<v, c>>[1] \in DOMAIN volumePlans
            /\ <<v, c>>[2] <= volumePlans[<<v, c>>[1]].chapters
    BY <1>2, <1>3 DEF Scheduled
  <2>2. QED
    BY <1>0, <2>1 DEF Typed, Positive
<1>5. \/ stage' = "scene_plan" /\ target'.volume = v /\ target'.chapter = c
      \/ /\ stage' = "chapter_plan" /\ target'.volume = v
         /\ target'.chapter = c + 1 /\ c < volumePlans[v].chapters
      \/ /\ stage' = "volume_handoff" /\ target'.volume = v
         /\ c = volumePlans[v].chapters
    BY <1>1, <1>3, <1>4 DEF AfterScene, At
<1>6. /\ stage' \in Later /\ stage' \in Open /\ stage' \notin SceneStages
      /\ stage' \in SceneWork <=> stage' = "scene_plan"
      /\ stage' # "volume_plan" /\ target'.volume = v
    BY <1>5 DEF Later, Open, SceneWork, SceneStages
<1>7. /\ seriesPlan' = seriesPlan /\ volumePlans' = volumePlans
      /\ chapterPlans' = chapterPlans /\ scenePlans' = scenePlans
    BY <1>1 DEF planArtifacts
<1>8. (DOMAIN volumePlans =
            {u \in Volumes : stage \in Open =>
                                \/ u < target.volume
                                \/ u = target.volume /\ stage # "volume_plan"})'
    BY <1>1, <1>2, <1>6, <1>7 DEF Scheduled
<1>9. DOMAIN chapterPlans = {y \in Volumes \X Positive :
                                /\ y[1] \in DOMAIN volumePlans
                                /\ y[2] <= volumePlans[y[1]].chapters
                                /\ y[1] = v => y[2] <= c}
    BY <1>1, <1>2 DEF Scheduled
<1>10. \A y \in Volumes \X Positive :
            y[2] \in Nat /\ (y[2] <= c <=> y[2] < c + 1)
    BY <1>3 DEF Positive
<1>11. (DOMAIN chapterPlans =
            {y \in Volumes \X Positive :
                /\ y[1] \in DOMAIN volumePlans
                /\ y[2] <= volumePlans[y[1]].chapters
                /\ y[1] = target.volume =>
                    /\ stage = "chapter_plan" => y[2] < target.chapter
                    /\ stage \in SceneWork => y[2] <= target.chapter})'
    BY <1>5, <1>6, <1>7, <1>9, <1>10
<1>12. (SeriesPlanContract(seriesPlan))' /\ seriesPlan'.basis \in DOMAIN generations'
    BY ContractStays, <1>1, <1>2, <1>7 DEF Scheduled
<1>13. stage' = "chapter_plan" =>
            target'.chapter \in 1 .. volumePlans[v].chapters
    BY <1>3, <1>4, <1>5
<1>14. QED
    BY <1>1, <1>6, <1>7, <1>8, <1>11, <1>12, <1>13 DEF Scheduled

\* A handoff moves the target on, behind plans that are complete.
LEMMA ScheduledAfterHandoff ==
    ASSUME Inv, Budgets, Founded, Scheduled, HandOff
    PROVE  Scheduled'
<1> DEFINE v == target.volume
<1>0. Placed /\ Typed
    BY DEF Inv
<1>1. /\ stage = "volume_handoff"
      /\ stage' = AfterHandoff(v)[1] /\ target' = AfterHandoff(v)[2]
      /\ UNCHANGED <<planArtifacts, generations>>
    BY DEF HandOff, Begin, AdvanceTo, sceneArtifacts
<1>2. /\ stage \in Later /\ stage \in Open /\ stage \notin SceneWork
    BY <1>1 DEF Later, Open, SceneWork, SceneStages
<1>3. /\ v \in Volumes /\ v \in Nat /\ seriesPlan.count = VolumeCount
    BY <1>0, <1>2 DEF Placed, Typed, Volumes
<1>4. \/ stage' = "volume_plan" /\ target'.volume = v + 1
      \/ stage' = "completion" /\ v = VolumeCount
    BY <1>1, <1>3, BriefAssumption DEF AfterHandoff, At, Volumes
<1>5. /\ stage' \in Later /\ stage' \notin SceneWork /\ stage' \notin SceneStages
      /\ stage' # "chapter_plan"
      /\ stage' \in Open <=> stage' = "volume_plan"
    BY <1>4 DEF Later, Open, Closing, SceneWork, SceneStages
<1>6. /\ seriesPlan' = seriesPlan /\ volumePlans' = volumePlans
      /\ chapterPlans' = chapterPlans /\ scenePlans' = scenePlans
      /\ generations' = generations
    BY <1>1 DEF planArtifacts
<1>7. DOMAIN volumePlans = {u \in Volumes : u < v \/ u = v}
    BY <1>1, <1>2 DEF Scheduled
<1>8. \A u \in Volumes : /\ u < v + 1 <=> u < v \/ u = v
                         /\ v = VolumeCount => u < v \/ u = v
    BY <1>3, BriefAssumption DEF Volumes
<1>9. (DOMAIN volumePlans =
            {u \in Volumes : stage \in Open =>
                                \/ u < target.volume
                                \/ u = target.volume /\ stage # "volume_plan"})'
    BY <1>4, <1>5, <1>6, <1>7, <1>8
<1>10. (DOMAIN chapterPlans =
            {y \in Volumes \X Positive :
                /\ y[1] \in DOMAIN volumePlans
                /\ y[2] <= volumePlans[y[1]].chapters
                /\ y[1] = target.volume =>
                    /\ stage = "chapter_plan" => y[2] < target.chapter
                    /\ stage \in SceneWork => y[2] <= target.chapter})'
    BY <1>1, <1>2, <1>5, <1>6 DEF Scheduled
<1>11. (SeriesPlanContract(seriesPlan))'
    BY ContractStays, <1>2, <1>6 DEF Scheduled
<1>12. QED
    BY <1>2, <1>5, <1>6, <1>9, <1>10, <1>11 DEF Scheduled

\* Every step keeps the plans complete up to the place of the target.
LEMMA ScheduledKept ==
    ASSUME Inv, Budgets, Founded, Scheduled, [Next]_vars
    PROVE  Scheduled'
<1>0. Drafted /\ Located /\ Blank
    BY DEF Inv, Budgets
<1>1. CASE AcceptInput \/ AdoptPart \/ Accept \/ Crash
  <2>1. /\ stage \notin Later /\ stage' \notin Later /\ UNCHANGED planArtifacts
        /\ stage' # "chapter_plan" /\ stage' \notin SceneStages
    BY <1>1, EarlySteps
    DEF AfterAccept, Later, Open, Closing, SceneWork, SceneStages
  <2>2. /\ DOMAIN volumePlans = {} /\ DOMAIN chapterPlans = {}
        /\ DOMAIN scenePlans = {}
    BY <1>0, <2>1 DEF Blank, Drafted
  <2>3. QED
    BY <2>1, <2>2 DEF Scheduled, planArtifacts
<1>2. CASE Plan
    BY <1>2, SeriesScheduled, VolumeScheduled, ChapterScheduled, SceneScheduled
    DEF Plan
<1>3. CASE WriteCard \/ WriteProse \/ WriteContinuity
  <2>1. /\ stage \in SceneStages /\ stage' \in SceneStages
        /\ UNCHANGED <<planArtifacts, generations, current>>
        /\ \/ UNCHANGED target
           \/ target' = [target EXCEPT !.result = counter']
    BY <1>3
    DEF WriteCard, WriteProse, WriteContinuity, Begin, AdvanceTo, SceneStages
  <2>2. UNCHANGED <<target.volume, target.chapter, target.scene>>
    BY <1>0, <2>1 DEF Located, Targets
  <2>3. QED
    BY <1>0, <2>1, <2>2, ScheduledInPlace
<1>4. CASE CommitScene
    BY <1>4, ScheduledAfterScene
<1>5. CASE HandOff
    BY <1>5, ScheduledAfterHandoff
<1>6. CASE Complete \/ Publish
  <2>1. /\ stage \in Closing /\ stage' \in Closing /\ stage' \notin Open
        /\ stage \notin Open
        /\ UNCHANGED <<planArtifacts, generations>>
    BY <1>6
    DEF Complete, Publish, Begin, AdvanceTo, sceneArtifacts, Closing, Open,
        SceneWork, SceneStages
  <2>2. /\ stage \in Later /\ stage' \in Later /\ stage' # "chapter_plan"
        /\ stage' \notin SceneWork /\ stage' \notin SceneStages
        /\ stage # "chapter_plan" /\ stage \notin SceneWork
    BY <2>1 DEF Later, Open, SceneWork
  <2>3. /\ seriesPlan' = seriesPlan /\ volumePlans' = volumePlans
        /\ chapterPlans' = chapterPlans /\ scenePlans' = scenePlans
        /\ generations' = generations
    BY <2>1 DEF planArtifacts
  <2>4. (SeriesPlanContract(seriesPlan))'
    BY ContractStays, <2>2, <2>3 DEF Scheduled
  <2>5. QED
    BY <2>1, <2>2, <2>3, <2>4 DEF Scheduled
<1>7. CASE Block \/ Rest \/ UNCHANGED vars
  <2>1. UNCHANGED <<stage, current, target, artifacts>>
    BY <1>7, IdleSteps
  <2>2. UNCHANGED <<planArtifacts, generations>>
    BY <2>1 DEF artifacts, sceneArtifacts
  <2>3. QED
    BY <1>0, <2>1, <2>2, ScheduledInPlace
<1>8. QED
    BY <1>1, <1>2, <1>3, <1>4, <1>5, <1>6, <1>7 DEF Next, Step, WriteScene

\* The scene stages, one after the other.
LEMMA SceneStagesDiffer ==
    /\ DOMAIN FilesAt = {"scene_prose", "scene_continuity", "scene_commit"}
    /\ FilesAt["scene_prose"] = {"card"}
    /\ FilesAt["scene_continuity"] = {"card", "prose"}
    /\ FilesAt["scene_commit"] = SceneFiles
    /\ SceneStages \cap (AfterAccept \ SceneStages) = {}
    /\ SceneStages \subseteq AfterAccept
    /\ {"series_plan", "volume_plan", "chapter_plan", "scene_plan",
        "volume_handoff", "completion", "publication"} \cap SceneStages = {}
    /\ DOMAIN FilesAt \subseteq SceneStages
<1>1. SceneStages \ {"scene_card"}
            = {"scene_prose", "scene_continuity", "scene_commit"}
    BY DEF SceneStages
<1>2. QED
    BY <1>1
    DEF FilesAt, SceneStages, AfterAccept, Later, Open, Closing, SceneWork

\* One more file is staged with the scene in work.
LEMMA FileStaged ==
    ASSUME Staged, active = Coords, NEW file, NEW evidence,
           StageFile(file, evidence),
           stage \in SceneStages, stage' \in DOMAIN FilesAt,
           FilesAt[stage'] = (IF stage \in DOMAIN FilesAt THEN FilesAt[stage]
                              ELSE {}) \cup {file},
           active' = active, UNCHANGED <<current, Coords>>
    PROVE  Staged'
<1> DEFINE old == IF active \in DOMAIN staging THEN staging[active].files ELSE {}
           new == [files |-> old \cup {file}, basis |-> current,
                   evidence |-> evidence]
<1>1. staging' = [x \in DOMAIN staging \cup {active} |->
                        IF x = active THEN new ELSE staging[x]]
    BY DEF StageFile
<1>2. DOMAIN staging \cup {active} = {active}
    BY DEF Staged
<1>3. DOMAIN staging' = {active} /\ staging'[active] = new
    BY <1>1, <1>2
<1>4. old = IF stage \in DOMAIN FilesAt THEN FilesAt[stage] ELSE {}
    BY DEF Staged
<1>5. new.files = FilesAt[stage'] /\ new.basis = current
    BY <1>4
<1> HIDE DEF new
<1>6. QED
    BY <1>3, <1>5, SceneStagesDiffer DEF Staged

\* Each stage of a scene adds its file to those of the stages before it.
LEMMA StagedKept ==
    ASSUME Inv, Staged, [Next]_vars
    PROVE  Staged'
<1>0. Located
    BY DEF Inv
<1>1. CASE AcceptInput \/ AdoptPart \/ Accept \/ Crash
  <2>1. /\ stage \notin SceneStages /\ stage' \notin SceneStages
        /\ staging' = staging
        /\ active' = active \/ active' = NoScene
    BY <1>1, EarlySteps, SceneStagesDiffer DEF AfterAccept
  <2>2. QED
    BY <2>1, SceneStagesDiffer DEF Staged
<1>2. CASE PlanSeries \/ PlanVolume \/ PlanChapter \/ HandOff
  <2>1. /\ stage \in {"series_plan", "volume_plan", "chapter_plan",
                      "volume_handoff"}
        /\ stage' \in {"volume_plan", "chapter_plan", "scene_plan",
                       "completion"}
        /\ staging' = staging
        /\ active' = IF stage' \in SceneStages THEN NoScene ELSE NoScene
    BY <1>2
    DEF PlanSeries, PlanVolume, PlanChapter, HandOff, Begin, AdvanceTo,
        AfterHandoff, sceneArtifacts
  <2>2. QED
    BY <2>1, SceneStagesDiffer DEF Staged
<1>3. CASE PlanScene
  <2>1. /\ stage = "scene_plan" /\ stage' = "scene_card"
        /\ UNCHANGED <<staging, target>> /\ active' = Coords
    BY <1>3 DEF PlanScene, Begin, AdvanceTo, sceneArtifacts, SceneStages
  <2>2. UNCHANGED Coords /\ stage' \in SceneStages
    BY <2>1 DEF Coords, SceneStages
  <2>3. QED
    BY <2>1, <2>2, SceneStagesDiffer DEF Staged
<1>4. CASE WriteCard
  <2>1. /\ stage = "scene_card" /\ stage' = "scene_prose"
        /\ UNCHANGED <<current, target, active>> /\ StageFile("card", FALSE)
    BY <1>4 DEF WriteCard, Begin, AdvanceTo, SceneStages
  <2>2. UNCHANGED Coords /\ stage \in SceneStages /\ active = Coords
    BY <2>1 DEF Coords, SceneStages, Staged
  <2>3. QED
    BY <2>1, <2>2, SceneStagesDiffer, FileStaged
<1>5. CASE WriteProse
  <2>1. /\ stage = "scene_prose" /\ stage' = "scene_continuity"
        /\ UNCHANGED <<current, target, active>> /\ StageFile("prose", FALSE)
    BY <1>5 DEF WriteProse, Begin, AdvanceTo, SceneStages
  <2>2. UNCHANGED Coords /\ stage \in SceneStages /\ active = Coords
    BY <2>1 DEF Coords, SceneStages, Staged
  <2>3. {"card", "prose"} = {"card"} \cup {"prose"}
    OBVIOUS
  <2>4. QED
    BY <2>1, <2>2, <2>3, SceneStagesDiffer, FileStaged
<1>6. CASE WriteContinuity
  <2>1. /\ stage = "scene_continuity" /\ stage' = "scene_commit"
        /\ UNCHANGED <<current, active>>
        /\ target' = [target EXCEPT !.result = counter']
        /\ \E evidence \in BOOLEAN : StageFile("continuity", evidence)
    BY <1>6 DEF WriteContinuity, Begin, AdvanceTo, SceneStages
  <2>2. UNCHANGED Coords
    BY <1>0, <2>1 DEF Coords, Located, Targets
  <2>3. stage \in SceneStages /\ active = Coords
    BY <2>1 DEF SceneStages, Staged
  <2>4. SceneFiles = {"card", "prose"} \cup {"continuity"}
    BY DEF SceneFiles
  <2>5. QED
    BY <2>1, <2>2, <2>3, <2>4, SceneStagesDiffer, FileStaged
<1>7. CASE CommitScene
  <2>1. /\ stage = "scene_commit"
        /\ stage' \in {"scene_plan", "chapter_plan", "volume_handoff"}
        /\ staging' = [x \in DOMAIN staging \ {active} |-> staging[x]]
        /\ active' = IF stage' \in SceneStages THEN NoScene ELSE NoScene
    BY <1>7 DEF CommitScene, Begin, AdvanceTo, AfterScene
  <2>2. active = Coords /\ DOMAIN staging = {Coords}
    BY <2>1, SceneStagesDiffer DEF Staged
  <2>3. DOMAIN staging' = {}
    BY <2>1, <2>2
  <2>4. QED
    BY <2>1, <2>3, SceneStagesDiffer DEF Staged
<1>8. CASE Complete \/ Publish
  <2>1. /\ stage \in {"completion", "publication"}
        /\ stage' \in {"completion", "publication"}
        /\ staging' = staging
        /\ active' = active \/ active' = NoScene
    BY <1>8 DEF Complete, Publish, Begin, AdvanceTo, sceneArtifacts
  <2>2. QED
    BY <2>1, SceneStagesDiffer DEF Staged
<1>9. CASE Block \/ Rest \/ UNCHANGED vars
  <2>1. UNCHANGED <<stage, target, active, current, staging>>
    BY <1>9, IdleSteps DEF artifacts, sceneArtifacts
  <2>2. QED
    BY <2>1 DEF Staged, Coords
<1>10. QED
    BY <1>1, <1>2, <1>3, <1>4, <1>5, <1>6, <1>7, <1>8, <1>9
    DEF Next, Step, Plan, WriteScene

\* Once a volume is planned its scenes are settled.
LEMMA PlannedStays ==
    ASSUME NEW u, volumePlans'[u].chapters = volumePlans[u].chapters,
           \A y \in ChaptersOf(u) : chapterPlans'[y] = chapterPlans[y]
    PROVE  PlannedScenes(u)' = PlannedScenes(u)
<1>1. ChaptersOf(u)' = ChaptersOf(u)
    BY DEF ChaptersOf
<1>2. \A y \in ChaptersOf(u) : ScenesOf(y)' = ScenesOf(y)
    BY DEF ScenesOf
<1>3. QED
    BY <1>1, <1>2 DEF PlannedScenes

\* A volume that is handed over is planned to its last chapter.
LEMMA HandedOverIsPlanned ==
    ASSUME Inv, Scheduled, Closed, NEW u \in DOMAIN handoffs
    PROVE  /\ u \in Volumes /\ u \in DOMAIN volumePlans
           /\ ChaptersOf(u) \subseteq DOMAIN chapterPlans
<1>0. Typed /\ Blank
    BY DEF Inv
<1>1. u \in Volumes /\ stage \in Later
    BY <1>0 DEF Typed, Blank
<1>2. stage \in Open \/ stage \in Closing
    BY <1>1 DEF Later
<1>3. stage \in Open => u < target.volume /\ u # target.volume
  <2>1. ASSUME stage \in Open PROVE u \in 1 .. target.volume - 1
    BY <2>1 DEF Closed
  <2>2. target.volume \in Nat
    BY DEF Inv, Located, Targets
  <2>3. QED
    BY <2>1, <2>2
<1>4. stage \in Closing => stage \notin Open /\ stage # "chapter_plan"
                           /\ stage \notin SceneWork
    BY DEF Closing, Open, SceneWork, SceneStages
<1>5. u \in DOMAIN volumePlans
    BY <1>1, <1>2, <1>3, <1>4 DEF Scheduled
<1>6. ASSUME NEW c \in 1 .. volumePlans[u].chapters
      PROVE  <<u, c>> \in DOMAIN chapterPlans
  <2>1. /\ <<u, c>> \in Volumes \X Positive /\ c <= volumePlans[u].chapters
        /\ <<u, c>>[1] = u /\ <<u, c>>[2] = c
    <3>1. volumePlans[u].chapters \in Nat
        BY <1>0, <1>5 DEF Typed, Positive
    <3>2. QED
        BY <1>1, <3>1 DEF Positive
  <2>2. DOMAIN chapterPlans =
            {y \in Volumes \X Positive :
                /\ y[1] \in DOMAIN volumePlans
                /\ y[2] <= volumePlans[y[1]].chapters
                /\ y[1] = target.volume =>
                    /\ stage = "chapter_plan" => y[2] < target.chapter
                    /\ stage \in SceneWork => y[2] <= target.chapter}
    BY <1>1 DEF Scheduled
  <2>3. QED
    BY <1>2, <1>3, <1>4, <1>5, <2>1, <2>2
<1>7. QED
    BY <1>1, <1>5, <1>6 DEF ChaptersOf

\* What is handed over stays as it is while the next volume is in work.
LEMMA ClosedInPlace ==
    ASSUME Inv, Scheduled, Closed, stage \in Open, stage' \in Open,
           stage' # "volume_plan", target'.volume = target.volume,
           UNCHANGED <<handoffs, completions, published, status>>,
           DOMAIN generations \subseteq DOMAIN generations',
           \A x \in DOMAIN scenes : x \in DOMAIN scenes'
                                    /\ scenes'[x] = scenes[x],
           \A v \in DOMAIN volumePlans : volumePlans'[v] = volumePlans[v],
           \A y \in DOMAIN chapterPlans : chapterPlans'[y] = chapterPlans[y]
    PROVE  Closed'
<1>1. ASSUME NEW u \in DOMAIN handoffs
      PROVE  /\ handoffs[u].scenes = PlannedScenes(u)'
             /\ handoffs[u].basis \in DOMAIN generations'
             /\ LastOf(PlannedScenes(u)') \in DOMAIN scenes'
             /\ handoffs[u].basis = scenes'[LastOf(PlannedScenes(u)')].result
  <2>1. u \in DOMAIN volumePlans /\ ChaptersOf(u) \subseteq DOMAIN chapterPlans
    BY HandedOverIsPlanned
  <2>2. PlannedScenes(u)' = PlannedScenes(u)
    BY <2>1, PlannedStays
  <2>3. QED
    BY <2>2 DEF Closed
<1>2. /\ stage \notin Closing /\ stage' \notin Closing
      /\ stage' # "completion" /\ stage' # "publication" /\ stage # "publication"
    BY DEF Open, Closing, SceneWork, SceneStages
<1>3. \A u \in DOMAIN handoffs' :
            (/\ handoffs[u].scenes = PlannedScenes(u)
             /\ handoffs[u].basis \in DOMAIN generations
             /\ LastOf(PlannedScenes(u)) \in DOMAIN scenes
             /\ handoffs[u].basis = scenes[LastOf(PlannedScenes(u))].result)'
  <2>1. SUFFICES ASSUME NEW u \in DOMAIN handoffs
        PROVE  (/\ handoffs[u].scenes = PlannedScenes(u)
                /\ handoffs[u].basis \in DOMAIN generations
                /\ LastOf(PlannedScenes(u)) \in DOMAIN scenes
                /\ handoffs[u].basis = scenes[LastOf(PlannedScenes(u))].result)'
    OBVIOUS
  <2>2. LastOf(PlannedScenes(u))' = LastOf(PlannedScenes(u)')
    BY DEF LastOf, Precedes
  <2>3. QED
    BY <1>1, <2>2
<1>4. QED
    BY <1>2, <1>3 DEF Closed

\* The last scene of a finished volume is the last one written.
LEMMA LastOfVolume ==
    ASSUME Inv, stage = "volume_handoff", NEW S \in SUBSET Places,
           S = {x \in DOMAIN scenes : x[1] = target.volume}, S # {}
    PROVE  /\ LastOf(S) = LastOf(DOMAIN scenes)
           /\ LastOf(DOMAIN scenes) \in DOMAIN scenes
<1>0. Lineage /\ Placed /\ Written /\ Typed /\ stage \in Later
    BY DEF Inv, Later, Open
<1>1. seriesPlan # NoPlan
    BY <1>0 DEF Placed
<1> DEFINE l == LastOf(DOMAIN scenes)
<1>2. /\ l \in DOMAIN scenes
      /\ \A y \in DOMAIN scenes : l = y \/ Precedes(y, l)
    BY <1>0, <1>1 DEF Lineage, HasLast
<1> HIDE DEF l
<1>3. PICK z \in S : TRUE
    OBVIOUS
<1>4. /\ DOMAIN scenes \subseteq Places
      /\ \A y \in DOMAIN scenes : y[1] <= target.volume
  <2>1. ASSUME NEW y \in DOMAIN scenes PROVE y[1] <= target.volume
    <3>1. <<y[1], y[2]>> \in DOMAIN chapterPlans
        BY <1>0 DEF Written
    <3>2. <<y[1], y[2]>>[1] <= target.volume
        BY <1>0, <3>1 DEF Placed
    <3>3. QED
        BY <3>2
  <2>2. QED
    BY <1>0, <2>1 DEF Typed
<1>5. /\ z \in DOMAIN scenes /\ z[1] = target.volume /\ z \in Places
      /\ l \in Places /\ l[1] <= target.volume
      /\ l = z \/ Precedes(z, l)
    BY <1>2, <1>3, <1>4
<1>6. l[1] = target.volume
  <2>1. z[1] <= l[1]
    BY <1>5 DEF Precedes, Places, Positive
  <2>2. l[1] \in Nat /\ target.volume \in Nat
    BY <1>5 DEF Places, Positive, Inv, Located, Targets
  <2>3. QED
    BY <1>5, <2>1, <2>2
<1>7. l \in S /\ \A y \in S : l = y \/ Precedes(y, l)
    BY <1>2, <1>6
<1>8. LastOf(S) = l
    BY <1>7, LastIs
<1>9. QED
    BY <1>2, <1>8 DEF l

\* A finished volume has a first scene.
LEMMA VolumeIsNotEmpty ==
    ASSUME Typed, NEW v, VolumeIsWhole(v)
    PROVE  /\ PlannedScenes(v) = {x \in DOMAIN scenes : x[1] = v}
           /\ PlannedScenes(v) # {}
<1>1. v \in DOMAIN volumePlans /\ ChaptersOf(v) \subseteq DOMAIN chapterPlans
    BY DEF VolumeIsWhole
<1>2. 1 \in 1 .. volumePlans[v].chapters
    BY <1>1 DEF Typed, Positive
<1>3. <<v, 1>> \in ChaptersOf(v)
    BY <1>2 DEF ChaptersOf
<1>4. 1 \in 1 .. chapterPlans[<<v, 1>>].scenes
    BY <1>1, <1>3 DEF Typed, Positive
<1>5. ScenesOf(<<v, 1>>) # {}
    BY <1>4 DEF ScenesOf
<1>6. QED
    BY <1>3, <1>5 DEF PlannedScenes, VolumeIsWhole

\* A handoff names the scenes of its volume, whole, and the generation they
\* end on.
LEMMA ClosedByHandoff ==
    ASSUME Inv, Founded, Scheduled, Closed, HandOff
    PROVE  Closed'
<1> DEFINE v == target.volume
           h == [basis |-> current, scenes |-> PlannedScenes(v)]
<1>0. Placed /\ Typed /\ Lineage
    BY DEF Inv
<1>1. /\ stage = "volume_handoff" /\ VolumeIsWhole(v)
      /\ TerminalSource(PlannedScenes(v)) /\ v \notin DOMAIN handoffs
      /\ stage' = AfterHandoff(v)[1] /\ target' = AfterHandoff(v)[2]
      /\ handoffs' = Adopting(handoffs, v, h)
      /\ UNCHANGED <<current, planArtifacts, scenes, generations, completions,
                     published, status>>
    BY DEF HandOff, Begin, AdvanceTo, sceneArtifacts, Ready, HandoffReady
<1>2. /\ stage \in Later /\ stage \in Open /\ stage \in AfterAccept
    BY <1>1 DEF Later, Open, AfterAccept
<1>3. /\ v \in Volumes /\ v \in Nat /\ seriesPlan.count = VolumeCount
      /\ seriesPlan # NoPlan
    BY <1>0, <1>2 DEF Placed, Typed, Volumes
<1>4. \/ stage' = "volume_plan" /\ target'.volume = v + 1
      \/ stage' = "completion" /\ v = VolumeCount /\ target'.volume = v
    BY <1>1, <1>3, BriefAssumption DEF AfterHandoff, At, Volumes
<1>5. /\ stage' \in Open <=> stage' = "volume_plan"
      /\ stage' \in Closing <=> stage' = "completion"
      /\ stage' # "publication" /\ stage # "publication"
    BY <1>1, <1>4 DEF Open, Closing, SceneWork, SceneStages
<1>6. /\ DOMAIN handoffs' = DOMAIN handoffs \cup {v} /\ handoffs'[v] = h
      /\ \A u \in DOMAIN handoffs : handoffs'[u] = handoffs[u]
    BY <1>1 DEF Adopting
<1>7. DOMAIN handoffs' = 1 .. v
  <2>1. DOMAIN handoffs = 1 .. v - 1
    BY <1>2 DEF Closed
  <2>2. QED
    BY <1>3, <1>6, <2>1 DEF Volumes
<1>8. /\ volumePlans' = volumePlans /\ chapterPlans' = chapterPlans
      /\ seriesPlan' = seriesPlan
    BY <1>1 DEF planArtifacts
<1>9. /\ LastOf(PlannedScenes(v)) = LastOf(DOMAIN scenes)
      /\ LastOf(DOMAIN scenes) \in DOMAIN scenes
  <2>1. /\ PlannedScenes(v) = {x \in DOMAIN scenes : x[1] = target.volume}
        /\ PlannedScenes(v) # {}
    BY <1>0, <1>1, VolumeIsNotEmpty
  <2>2. PlannedScenes(v) \in SUBSET Places
    BY <1>0, <2>1 DEF Typed
  <2> HIDE DEF v
  <2>3. QED
    BY <1>1, <2>1, <2>2, LastOfVolume
<1>10. current = scenes[LastOf(DOMAIN scenes)].result
    BY <1>0, <1>3, <1>9 DEF Lineage
<1>11. current \in DOMAIN generations
    BY <1>2 DEF Founded
<1>12. ASSUME NEW u \in DOMAIN handoffs'
       PROVE  (/\ handoffs[u].scenes = PlannedScenes(u)
               /\ handoffs[u].basis \in DOMAIN generations
               /\ LastOf(PlannedScenes(u)) \in DOMAIN scenes
               /\ handoffs[u].basis = scenes[LastOf(PlannedScenes(u))].result)'
  <2>1. PlannedScenes(u)' = PlannedScenes(u)
    BY <1>8 DEF PlannedScenes, ChaptersOf, ScenesOf
  <2>2. LastOf(PlannedScenes(u))' = LastOf(PlannedScenes(u))
    BY <2>1 DEF LastOf, Precedes
  <2>3. CASE u = v
    <3>1. handoffs'[u] = h /\ PlannedScenes(u) = PlannedScenes(v)
        BY <1>6, <2>3
    <3>2. QED
        BY <1>1, <1>9, <1>10, <1>11, <2>1, <2>2, <3>1
  <2>4. CASE u # v
    <3>1. u \in DOMAIN handoffs /\ handoffs'[u] = handoffs[u]
        BY <1>6, <2>4
    <3>2. QED
        BY <1>1, <2>1, <2>2, <3>1 DEF Closed
  <2>5. QED
    BY <2>3, <2>4
<1>13. stage' \in Closing => DOMAIN handoffs' = Volumes
    BY <1>4, <1>5, <1>7 DEF Volumes
<1>14. stage' \in Open => DOMAIN handoffs' = 1 .. target'.volume - 1
    BY <1>3, <1>4, <1>5, <1>7
<1>15. stage' = "volume_plan" /\ target'.volume > 1 =>
            handoffs'[target'.volume - 1].basis = current'
  <2>1. (v + 1) - 1 = v
    BY <1>3
  <2>2. QED
    BY <1>1, <1>4, <1>6, <2>1
<1>16. QED
    BY <1>1, <1>4, <1>5, <1>12, <1>13, <1>14, <1>15 DEF Closed

\* Every step keeps the handoffs those of the volumes behind the target, and the
\* completion on the generation the last of them ends on.
LEMMA ClosedKept ==
    ASSUME Inv, Founded, Scheduled, Closed, [Next]_vars
    PROVE  Closed'
<1>0. Located /\ Blank /\ Typed /\ Placed
    BY DEF Inv
<1>1. CASE AcceptInput \/ AdoptPart \/ Accept \/ Crash
  <2>1. /\ stage \notin Later /\ stage' \notin Later
        /\ stage' \notin Open /\ stage' \notin Closing
        /\ stage' \notin {"completion", "volume_plan", "publication"}
        /\ stage # "publication"
        /\ UNCHANGED <<endArtifacts, published, status>>
    BY <1>1, EarlySteps
    DEF AfterAccept, Later, Open, Closing, SceneWork, SceneStages
  <2>2. DOMAIN handoffs = {} /\ UNCHANGED <<handoffs, completions>>
    BY <1>0, <2>1 DEF Blank, endArtifacts
  <2>3. QED
    BY <2>1, <2>2 DEF Closed
<1>2. CASE PlanSeries
  <2>1. /\ stage = "series_plan" /\ stage' = "volume_plan"
        /\ target' = At(1, 0, 0, current)
        /\ UNCHANGED <<endArtifacts, published, status>>
    BY <1>2 DEF PlanSeries, Begin, AdvanceTo
  <2>2. stage \notin Later /\ stage' \notin Closing
    BY <2>1, PartsComeFirst DEF Closing
  <2>3. DOMAIN handoffs = {} /\ UNCHANGED <<handoffs, completions>>
    BY <1>0, <2>1, <2>2 DEF Blank, endArtifacts
  <2>4. target'.volume = 1 /\ 1 .. 1 - 1 = {} /\ ~(1 > 1)
    BY <2>1 DEF At
  <2>5. QED
    BY <2>1, <2>2, <2>3, <2>4 DEF Closed
<1>3. CASE PlanVolume \/ PlanChapter \/ PlanScene
  <2>1. /\ stage \in {"volume_plan", "chapter_plan", "scene_plan"}
        /\ stage' \in {"chapter_plan", "scene_plan", "scene_card"}
        /\ UNCHANGED <<handoffs, completions, published, status, scenes,
                       generations>>
    BY <1>3
    DEF PlanVolume, PlanChapter, PlanScene, Begin, AdvanceTo, endArtifacts,
        sceneArtifacts
  <2>2. target'.volume = target.volume
    BY <1>3
    DEF PlanVolume, PlanChapter, PlanScene, AdvanceTo, At, Chapter
  <2>3. stage \in Open /\ stage' \in Open /\ stage' # "volume_plan"
    BY <2>1 DEF Open, SceneWork, SceneStages
  <2>4. \A v \in DOMAIN volumePlans : volumePlans'[v] = volumePlans[v]
    BY <1>3 DEF PlanVolume, PlanChapter, PlanScene, Adopting
  <2>5. \A y \in DOMAIN chapterPlans : chapterPlans'[y] = chapterPlans[y]
    BY <1>3 DEF PlanVolume, PlanChapter, PlanScene, Adopting
  <2>6. QED
    BY <2>1, <2>2, <2>3, <2>4, <2>5, ClosedInPlace
<1>4. CASE WriteCard \/ WriteProse \/ WriteContinuity
  <2>1. /\ stage \in SceneStages /\ stage' \in SceneStages
        /\ UNCHANGED <<planArtifacts, endArtifacts, published, status, scenes,
                       generations>>
        /\ \/ UNCHANGED target
           \/ target' = [target EXCEPT !.result = counter']
    BY <1>4
    DEF WriteCard, WriteProse, WriteContinuity, Begin, AdvanceTo, SceneStages
  <2>2. target'.volume = target.volume
    BY <1>0, <2>1 DEF Located, Targets
  <2>3. stage \in Open /\ stage' \in Open /\ stage' # "volume_plan"
    BY <2>1 DEF Open, SceneWork, SceneStages
  <2>4. UNCHANGED <<handoffs, completions, volumePlans, chapterPlans>>
    BY <2>1 DEF planArtifacts, endArtifacts
  <2>5. QED
    BY <2>1, <2>2, <2>3, <2>4, ClosedInPlace
<1>5. CASE CommitScene
  <2>1. /\ stage = "scene_commit"
        /\ stage' = AfterScene(target.result)[1]
        /\ target' = AfterScene(target.result)[2]
        /\ UNCHANGED <<planArtifacts, endArtifacts, published, status>>
        /\ DOMAIN generations \subseteq DOMAIN generations'
        /\ \A x \in DOMAIN scenes : x \in DOMAIN scenes'
                                    /\ scenes'[x] = scenes[x]
    BY <1>5 DEF CommitScene, Begin, AdvanceTo, Adopting
  <2>2. /\ target'.volume = target.volume
        /\ stage' \in {"scene_plan", "chapter_plan", "volume_handoff"}
    BY <2>1 DEF AfterScene, At
  <2>3. stage \in Open /\ stage' \in Open /\ stage' # "volume_plan"
    BY <2>1, <2>2 DEF Open, SceneWork, SceneStages
  <2>4. UNCHANGED <<handoffs, completions, volumePlans, chapterPlans>>
    BY <2>1 DEF planArtifacts, endArtifacts
  <2>5. QED
    BY <2>1, <2>2, <2>3, <2>4, ClosedInPlace
<1>6. CASE HandOff
    BY <1>6, ClosedByHandoff
<1>7. CASE Complete \/ Publish \/ Block \/ Rest \/ UNCHANGED vars
  <2>1. UNCHANGED <<planArtifacts, scenes, generations, current, handoffs>>
    <3>1. CASE Complete \/ Publish
        BY <3>1 DEF Complete, Publish, sceneArtifacts
    <3>2. CASE Block \/ Rest \/ UNCHANGED vars
        BY <3>2, IdleSteps DEF artifacts, sceneArtifacts, endArtifacts
    <3>3. QED
        BY <1>7, <3>1, <3>2
  <2>2. \A u \in DOMAIN handoffs' :
            (/\ handoffs[u].scenes = PlannedScenes(u)
             /\ handoffs[u].basis \in DOMAIN generations
             /\ LastOf(PlannedScenes(u)) \in DOMAIN scenes
             /\ handoffs[u].basis = scenes[LastOf(PlannedScenes(u))].result)'
    <3>1. \A u : PlannedScenes(u)' = PlannedScenes(u)
        BY <2>1 DEF PlannedScenes, ChaptersOf, ScenesOf, planArtifacts
    <3>2. \A u : LastOf(PlannedScenes(u))' = LastOf(PlannedScenes(u))
        BY <3>1 DEF LastOf, Precedes
    <3>3. QED
        BY <2>1, <3>1, <3>2 DEF Closed
  <2>3. CASE Complete
    <3>1. /\ stage = "completion" /\ status = "running"
          /\ UNCHANGED published
          /\ \/ /\ status' = "blocked" /\ UNCHANGED <<stage, target>>
             \/ /\ status' = status /\ stage' = "publication"
                /\ target' = [At(0, 0, 0, current) EXCEPT !.completion = 1]
                /\ \E verdict \in CompletionStatus :
                    /\ verdict # "incomplete"
                    /\ completions' = Adopting(completions, 1,
                            [status |-> verdict, basis |-> current])
        BY <2>3 DEF Complete, Begin, AtRest, AdvanceTo
    <3>2. /\ stage \in Closing /\ stage' \in Closing
          /\ stage \notin Open /\ stage' \notin Open /\ stage' # "volume_plan"
        BY <3>1 DEF Closing, Open, SceneWork, SceneStages
    <3>3. CASE status' = "blocked" /\ UNCHANGED <<stage, target>>
        BY <2>1, <2>2, <3>1, <3>2, <3>3 DEF Closed
    <3>4. CASE stage' = "publication"
      <4>1. PICK verdict \in CompletionStatus :
                /\ verdict # "incomplete"
                /\ completions' = Adopting(completions, 1,
                        [status |-> verdict, basis |-> current])
        BY <3>1, <3>4
      <4>2. DOMAIN completions = {}
        BY <3>1 DEF Closed
      <4>3. /\ DOMAIN completions' = {1} /\ completions'[1].basis = current
            /\ completions'[1].status # "incomplete"
        BY <4>1, <4>2 DEF Adopting
      <4>4. target'.completion = 1
        BY <3>1, <3>4 DEF At
      <4>5. published' = None
        BY <3>1 DEF Closed
      <4>6. QED
        BY <2>1, <2>2, <3>2, <3>4, <4>3, <4>4, <4>5 DEF Closed
    <3>5. QED
        BY <3>1, <3>3, <3>4
  <2>4. CASE Publish
    <3>1. stage = "publication" /\ stage' = stage /\ status' = "completed"
        BY <2>4 DEF Publish, Begin
    <3>2. stage \in Closing /\ stage \notin Open
        BY <3>1 DEF Closing, Open, SceneWork, SceneStages
    <3>3. QED
        BY <2>1, <2>2, <3>1, <3>2 DEF Closed
  <2>5. CASE Block \/ Rest \/ UNCHANGED vars
    <3>1. /\ UNCHANGED <<stage, target, published, artifacts>>
          /\ status' = status \/ status' = "blocked"
        BY <2>5, IdleSteps
    <3>2. UNCHANGED completions
        BY <3>1 DEF artifacts, endArtifacts
    <3>3. QED
        BY <2>1, <2>2, <3>1, <3>2 DEF Closed
  <2>6. QED
    BY <1>7, <2>3, <2>4, <2>5
<1>8. QED
    BY <1>1, <1>2, <1>3, <1>4, <1>5, <1>6, <1>7
    DEF Next, Step, Plan, WriteScene

\* What the runs leave is kept by every step.
THEOREM HandoversAreKept ==
    ASSUME "design_file" \notin CrashAt
    PROVE  Spec => []Handover
<1>1. Init => Handover
  <2> SUFFICES ASSUME Init PROVE Handover
    OBVIOUS
  <2>1. /\ stage = "input" /\ stage \notin FromAccept /\ stage \notin AfterAccept
        /\ stage \notin Later /\ stage \notin SceneStages
        /\ stage \notin Open /\ stage \notin Closing
        /\ stage \notin DOMAIN FilesAt /\ stage # "series_plan"
        /\ stage \notin {"scene_commit", "completion", "volume_plan",
                         "publication", "chapter_plan"}
        /\ \A i \in 1 .. 8 : stage # InitialStages[i]
        /\ stage \in Stages
    BY StagesDiffer, SceneStagesDiffer
    DEF Init, FromAccept, AfterAccept, Later, Open, Closing, SceneWork,
        SceneStages, Stages
  <2>2. Begun
    BY <2>1 DEF Init, Begun
  <2>3. Founded
    BY <2>1 DEF Init, Founded, InitialGenerations
  <2>4. Scheduled
    BY <2>1 DEF Init, Scheduled
  <2>5. Staged /\ Closed
    BY <2>1 DEF Init, Staged, Closed
  <2>6. QED
    BY <2>2, <2>3, <2>4, <2>5 DEF Handover
<1>2. Inv /\ Budgets /\ Handover /\ [Next]_vars => Handover'
    BY BegunKept, FoundedKept, ScheduledKept, StagedKept, ClosedKept
    DEF Handover
<1>3. QED
    BY Invariance, BudgetsAreKept, <1>1, <1>2, PTL DEF Spec

\* A volume is finished when the run stands at its handoff or behind it.
LEMMA FinishedIsWhole ==
    ASSUME Inv, Budgets, Scheduled, NEW v \in DOMAIN volumePlans,
           stage \in Closing \cup {"volume_handoff"}
    PROVE  VolumeIsWhole(v)
<1>0. Typed /\ Written /\ Drafted
    BY DEF Inv, Budgets
<1>1. /\ stage \in Later /\ stage \notin SceneWork /\ stage \notin SceneStages
      /\ stage # "chapter_plan"
    BY DEF Later, Open, Closing, SceneWork, SceneStages
<1>2. /\ DOMAIN scenePlans = DOMAIN scenes
      /\ DOMAIN scenes =
            {x \in Places :
                /\ <<x[1], x[2]>> \in DOMAIN chapterPlans
                /\ x[3] <= chapterPlans[<<x[1], x[2]>>].scenes}
      /\ DOMAIN chapterPlans =
            {y \in Volumes \X Positive :
                /\ y[1] \in DOMAIN volumePlans
                /\ y[2] <= volumePlans[y[1]].chapters}
    BY <1>0, <1>1 DEF Drafted, Written, Scheduled
<1>3. v \in Volumes /\ volumePlans[v].chapters \in Nat /\ v \in Positive
    BY <1>0, BriefAssumption DEF Typed, Positive, Volumes
<1>4. ASSUME NEW c \in 1 .. volumePlans[v].chapters
      PROVE  <<v, c>> \in DOMAIN chapterPlans
  <2>1. /\ <<v, c>> \in Volumes \X Positive /\ c <= volumePlans[v].chapters
        /\ <<v, c>>[1] = v /\ <<v, c>>[2] = c
    BY <1>3 DEF Positive
  <2>2. QED
    BY <1>2, <2>1
<1>5. ChaptersOf(v) \subseteq DOMAIN chapterPlans
    BY <1>4 DEF ChaptersOf
<1>6. ASSUME NEW x \in DOMAIN scenes, x[1] = v
      PROVE  x \in PlannedScenes(v)
  <2>1. /\ x = <<v, x[2], x[3]>> /\ x[2] \in Positive /\ x[3] \in Positive
        /\ <<v, x[2]>> \in DOMAIN chapterPlans
        /\ x[3] <= chapterPlans[<<v, x[2]>>].scenes
    BY <1>2, <1>6 DEF Places
  <2>2. <<v, x[2]>>[2] <= volumePlans[<<v, x[2]>>[1]].chapters
    BY <1>2, <2>1
  <2>3. x[2] \in 1 .. volumePlans[v].chapters
    BY <1>3, <2>1, <2>2 DEF Positive
  <2>4. chapterPlans[<<v, x[2]>>].scenes \in Nat
    BY <1>0, <2>1 DEF Typed, Positive
  <2>5. x[3] \in 1 .. chapterPlans[<<v, x[2]>>].scenes
    BY <2>1, <2>4 DEF Positive
  <2>6. x \in ScenesOf(<<v, x[2]>>)
    BY <2>1, <2>5 DEF ScenesOf
  <2>7. QED
    BY <2>3, <2>6 DEF PlannedScenes, ChaptersOf
<1>7. ASSUME NEW x \in PlannedScenes(v)
      PROVE  x \in DOMAIN scenes /\ x[1] = v
  <2>1. PICK c \in 1 .. volumePlans[v].chapters : x \in ScenesOf(<<v, c>>)
    BY DEF PlannedScenes, ChaptersOf
  <2>2. PICK s \in 1 .. chapterPlans[<<v, c>>].scenes : x = <<v, c, s>>
    BY <2>1 DEF ScenesOf
  <2>3. <<v, c>> \in DOMAIN chapterPlans /\ c \in Positive
    BY <1>3, <1>4 DEF Positive
  <2>4. chapterPlans[<<v, c>>].scenes \in Nat
    BY <1>0, <2>3 DEF Typed, Positive
  <2>5. s \in Positive /\ s <= chapterPlans[<<v, c>>].scenes
    BY <2>4 DEF Positive
  <2>6. x \in Places /\ x[1] = v /\ x[2] = c /\ x[3] = s
    BY <1>3, <2>2, <2>3, <2>5 DEF Places
  <2>7. QED
    BY <1>2, <2>3, <2>5, <2>6
<1>8. {x \in DOMAIN scenes : x[1] = v} = PlannedScenes(v)
    BY <1>6, <1>7
<1>9. QED
    BY <1>2, <1>5, <1>8 DEF VolumeIsWhole

\* What every stage asks of the workspace before it starts.
LEMMA LayoutHolds ==
    ASSUME Inv, Budgets, Handover, AtRest
    PROVE  Layout
<1>0. /\ Located /\ Typed /\ Blank /\ Placed /\ Written /\ Unpublished
      /\ Drafted /\ Budgeted
      /\ Begun /\ Founded /\ Scheduled /\ Staged /\ Closed
      /\ status = "running" /\ pc = "idle"
    BY DEF Inv, Budgets, Handover, AtRest
<1>s. Later \subseteq AfterAccept /\ AfterAccept \subseteq FromAccept
      /\ "input" \notin FromAccept /\ "initial_accept" \notin AfterAccept
    BY StagesDiffer DEF AfterAccept, FromAccept
<1>1. InputValid
    BY <1>0 DEF Begun, InputValid
<1>2. DesignPartsValid
  <2>1. parts # {} => brief
    BY <1>0 DEF Begun
  <2>2. ASSUME NEW i \in 2 .. Len(DesignParts), DesignParts[i] \in parts
        PROVE  DesignParts[i - 1] \in parts
    <3>1. i \in 2 .. 8 /\ i - 1 \in 1 .. 8
        BY <2>2 DEF DesignParts
    <3>2. CASE stage \in FromAccept
        BY <1>0, <3>1, <3>2 DEF Begun, AllParts
    <3>3. CASE stage = "input"
        BY <1>0, <2>2, <3>3 DEF Begun
    <3>4. CASE stage \notin FromAccept /\ stage # "input"
      <4>1. PICK k \in 1 .. 8 : stage = InitialStages[k]
        BY <1>0, <3>4
        DEF Begun, Stages, FromAccept, AfterAccept, Later, Open, Closing,
            SceneWork
      <4>2. parts = {DesignParts[j] : j \in 1 .. k - 1}
        BY <1>0, <4>1 DEF Begun
      <4>3. PICK j \in 1 .. k - 1 : DesignParts[i] = DesignParts[j]
        BY <2>2, <4>2
      <4>4. i = j
        BY <3>1, <4>3 DEF DesignParts
      <4>5. i - 1 \in 1 .. k - 1
        BY <3>1, <4>4
      <4>6. QED
        BY <4>2, <4>5
    <3>5. QED
        BY <3>2, <3>3, <3>4
  <2>3. design # "absent" => "integrated" \in parts
    <3>1. "integrated" = DesignParts[8] /\ 8 \in 1 .. 8
        BY DEF DesignParts
    <3>2. QED
        BY <1>0, <3>1 DEF Begun, AllParts
  <2>4. design # "torn"
    BY <1>0 DEF Begun
  <2>5. QED
    BY <2>1, <2>2, <2>3, <2>4 DEF DesignPartsValid
<1>3. GenerationsValid
  <2>1. design = "absent" => current = None /\ DOMAIN generations = {}
    BY <1>0 DEF Begun, Founded
  <2>2. DOMAIN generations # {} => Cardinality(InitialGenerations) = 1
    BY <1>0, FS_Singleton DEF Founded
  <2>3. \A g \in DOMAIN generations \ InitialGenerations :
            generations[g].parent \in DOMAIN generations \ {g}
    BY <1>0 DEF Founded, InitialGenerations
  <2>4. CASE stage \in AfterAccept
    <3>1. current \in DOMAIN generations /\ current # None
        BY <1>0, <2>4 DEF Founded, None
    <3>2. QED
        BY <2>1, <2>2, <2>3, <3>1 DEF GenerationsValid
  <2>5. CASE stage \notin AfterAccept
    <3>1. current = None
        BY <1>0, <2>5 DEF Founded
    <3>2. stage # "initial_accept" => DOMAIN generations = {}
        BY <1>0, <2>5 DEF Founded, FromAccept
    <3>3. QED
        BY <2>1, <2>2, <2>3, <3>1, <3>2 DEF GenerationsValid
  <2>6. QED
    BY <2>4, <2>5
<1>4. SeriesPlanValid
  <2>1. seriesPlan # NoPlan => stage \in Later
    BY <1>0 DEF Blank
  <2>2. QED
    BY <1>0, <1>s, <2>1 DEF SeriesPlanValid, Begun, Scheduled
<1>5. VolumePlansValid
  <2>1. ASSUME NEW v \in DOMAIN volumePlans
        PROVE  seriesPlan # NoPlan /\ seriesPlan.count = VolumeCount
               /\ v <= VolumeCount
    BY <1>0, BriefAssumption DEF Blank, Placed, Typed, Volumes
  <2>2. QED
    BY <1>0, <2>1
    DEF VolumePlansValid, VolumePlanContract, Scheduled, Budgeted
<1>6. ChapterPlansValid
  <2>1. ASSUME NEW y \in DOMAIN chapterPlans
        PROVE  /\ y[1] \in DOMAIN volumePlans
               /\ y[2] > 1 => <<y[1], y[2] - 1>> \in DOMAIN chapterPlans
    <3>1. stage \in Later
        BY <1>0 DEF Blank
    <3>2. DOMAIN chapterPlans =
            {z \in Volumes \X Positive :
                /\ z[1] \in DOMAIN volumePlans
                /\ z[2] <= volumePlans[z[1]].chapters
                /\ z[1] = target.volume =>
                    /\ stage = "chapter_plan" => z[2] < target.chapter
                    /\ stage \in SceneWork => z[2] <= target.chapter}
        BY <1>0, <3>1 DEF Scheduled
    <3>3. ASSUME y[2] > 1
          PROVE  <<y[1], y[2] - 1>> \in DOMAIN chapterPlans
      <4> DEFINE z == <<y[1], y[2] - 1>>
      <4>1. /\ y[1] \in Volumes /\ y[2] \in Nat
            /\ y[1] \in DOMAIN volumePlans
            /\ volumePlans[y[1]].chapters \in Nat /\ target.chapter \in Nat
        BY <1>0, <3>2 DEF Typed, Positive, Located, Targets
      <4>2. z \in Volumes \X Positive /\ z[1] = y[1] /\ z[2] = y[2] - 1
        BY <3>3, <4>1 DEF Positive
      <4>3. \A n \in Nat : /\ y[2] <= n => y[2] - 1 <= n
                           /\ y[2] < n => y[2] - 1 < n
        BY <4>1
      <4> HIDE DEF z
      <4>4. z \in DOMAIN chapterPlans
        BY <3>2, <4>1, <4>2, <4>3
      <4>5. QED
        BY <4>4 DEF z
    <3>4. QED
        BY <3>2, <3>3
  <2>2. \A v \in DOMAIN volumePlans :
            TotalOf(chapterPlans, {x \in DOMAIN chapterPlans : x[1] = v})
                <= volumePlans[v].revelations
    BY <1>0 DEF Budgeted, ChaptersIn
  <2>3. QED
    BY <1>0, <2>1, <2>2
    DEF ChapterPlansValid, ChapterPlanContract, Scheduled
<1>7. ScenePlansValid
  <2>1. ASSUME NEW x \in DOMAIN scenePlans
        PROVE  /\ x[1] \in DOMAIN volumePlans
               /\ <<x[1], x[2]>> \in DOMAIN chapterPlans
               /\ x[3] > 1 => <<x[1], x[2], x[3] - 1>> \in DOMAIN scenePlans
    <3>1. stage \in Later
        BY <1>0 DEF Drafted
    <3>2. stage \in SceneStages => stage \in SceneWork
        BY DEF SceneWork
    <3>3. <<x[1], x[2]>> \in DOMAIN chapterPlans /\ x \in Places
          /\ x[3] <= chapterPlans[<<x[1], x[2]>>].scenes
          /\ chapterPlans[<<x[1], x[2]>>].scenes \in Nat
      <4>1. CASE x \in DOMAIN scenes
        BY <1>0, <3>1, <4>1 DEF Written, Typed, Positive
      <4>2. CASE x = Coords /\ stage \in SceneStages
        <5>1. /\ Chapter \in DOMAIN chapterPlans
              /\ target.scene \in 1 .. chapterPlans[Chapter].scenes
            BY <1>0, <3>2, <4>2 DEF Placed
        <5>2. <<x[1], x[2]>> = Chapter /\ x[3] = target.scene
            BY <4>2 DEF Coords, Chapter
        <5>3. chapterPlans[Chapter].scenes \in Nat /\ x \in Places
            BY <1>0, <5>1 DEF Typed, Positive, Drafted
        <5>4. QED
            BY <5>1, <5>2, <5>3
      <4>3. QED
        BY <1>0, <3>1, <4>1, <4>2 DEF Drafted
    <3>4. x[1] \in DOMAIN volumePlans
      <4>1. <<x[1], x[2]>>[1] \in DOMAIN volumePlans
        BY <1>0, <3>1, <3>3 DEF Scheduled
      <4>2. QED
        BY <4>1
    <3>5. ASSUME x[3] > 1
          PROVE  <<x[1], x[2], x[3] - 1>> \in DOMAIN scenePlans
      <4> DEFINE z == <<x[1], x[2], x[3] - 1>>
      <4>1. x[3] \in Nat /\ target.scene \in Nat
        BY <1>0, <3>3 DEF Places, Positive, Located, Targets
      <4>2. /\ z \in Places /\ <<z[1], z[2]>> = <<x[1], x[2]>>
            /\ z[3] = x[3] - 1
        BY <3>3, <3>5, <4>1 DEF Places, Positive
      <4>3. z[3] <= chapterPlans[<<x[1], x[2]>>].scenes
        BY <3>3, <4>1, <4>2
      <4>4. stage \in SceneWork /\ <<x[1], x[2]>> = Chapter =>
                z[3] < target.scene
        <5>1. SUFFICES ASSUME stage \in SceneWork, <<x[1], x[2]>> = Chapter
                       PROVE  z[3] < target.scene
            OBVIOUS
        <5>2. x[3] <= target.scene
          <6>1. CASE x \in DOMAIN scenes
            BY <1>0, <3>1, <4>1, <5>1, <6>1 DEF Written
          <6>2. CASE x = Coords
            BY <4>1, <6>2 DEF Coords
          <6>3. QED
            BY <1>0, <3>1, <6>1, <6>2 DEF Drafted
        <5>3. QED
            BY <4>1, <4>2, <5>2
      <4> HIDE DEF z
      <4>5. z \in DOMAIN scenes
        BY <1>0, <3>1, <3>3, <4>2, <4>3, <4>4 DEF Written
      <4>6. QED
        BY <1>0, <3>1, <4>5 DEF Drafted, z
    <3>6. QED
        BY <3>3, <3>4, <3>5
  <2>2. \A y \in DOMAIN chapterPlans :
            TotalOf(scenePlans,
                    {x \in DOMAIN scenePlans : <<x[1], x[2]>> = y})
                <= chapterPlans[y].revelations
    BY <1>0 DEF Budgeted, ScenesIn
  <2>3. QED
    BY <1>0, <2>1, <2>2 DEF ScenePlansValid, ScenePlanContract, Scheduled
<1>8. HandoffsValid
  <2>1. \E n \in Nat : DOMAIN handoffs = 1 .. n
    <3>1. CASE stage \in Open
      <4>1. target.volume \in Nat \ {0}
        BY <1>0, <3>1, BriefAssumption DEF Placed, Volumes
      <4>2. target.volume - 1 \in Nat
        BY <4>1
      <4>3. QED
        BY <1>0, <3>1, <4>2 DEF Closed
    <3>2. CASE stage \in Closing
        BY <1>0, <3>2, BriefAssumption DEF Closed, Volumes
    <3>3. CASE stage \notin Later
      <4>1. DOMAIN handoffs = 1 .. 0
        BY <1>0, <3>3 DEF Blank
      <4>2. QED
        BY <4>1
    <3>4. QED
        BY <3>1, <3>2, <3>3 DEF Later
  <2>2. DOMAIN handoffs = 1 .. Cardinality(DOMAIN handoffs)
    <3>1. PICK n \in Nat : DOMAIN handoffs = 1 .. n
        BY <2>1
    <3>2. Cardinality(1 .. n) = n
        BY FS_Interval
    <3>3. QED
        BY <3>1, <3>2
  <2>3. ASSUME NEW v \in DOMAIN handoffs
        PROVE  /\ seriesPlan # NoPlan /\ v <= seriesPlan.count
               /\ v \in DOMAIN volumePlans
               /\ ChaptersOf(v) \subseteq DOMAIN chapterPlans
    <3>1. /\ v \in Volumes /\ v \in DOMAIN volumePlans
          /\ ChaptersOf(v) \subseteq DOMAIN chapterPlans
        BY <1>0, HandedOverIsPlanned
    <3>2. seriesPlan # NoPlan /\ seriesPlan.count = VolumeCount
        BY <1>0 DEF Blank, Placed, Typed
    <3>3. QED
        BY <3>1, <3>2, BriefAssumption DEF Volumes
  <2>4. QED
    BY <1>0, <2>2, <2>3 DEF HandoffsValid, Closed
<1>9. CompletionsValid
  <2>1. SUFFICES ASSUME stage = "publication"
                 PROVE  CompletionsValid
    BY <1>0 DEF Closed, CompletionsValid
  <2>2. stage \in Closing /\ stage \in Later /\ stage \in AfterAccept
    BY <2>1 DEF Closing, Later, AfterAccept
  <2>3. seriesPlan # NoPlan /\ seriesPlan.count = VolumeCount
    BY <1>0, <2>2 DEF Placed, Typed
  <2>4. DOMAIN completions = {1} /\ completions[1].basis \in DOMAIN generations
    BY <1>0, <2>1, <2>2 DEF Closed, Founded
  <2>5. QED
    BY <1>0, <2>2, <2>3, <2>4 DEF CompletionsValid, Closed, Volumes
<1>10. PublicationsValid
    BY <1>0 DEF Unpublished, Closed, PublicationsValid
<1>11. SceneStagingValid
  <2>1. ASSUME NEW x \in DOMAIN staging
        PROVE  /\ "card" \in staging[x].files
               /\ x \in DOMAIN scenePlans
               /\ staging[x].basis \in DOMAIN generations
               /\ "continuity" \in staging[x].files =>
                        "prose" \in staging[x].files
    <3>1. stage \in DOMAIN FilesAt /\ x = Coords
        BY <1>0 DEF Staged
    <3>2. stage \in SceneStages /\ stage \in AfterAccept /\ stage \in Later
        BY <3>1, SceneStagesDiffer DEF Later, Open, SceneWork
    <3>3. x \in DOMAIN scenePlans
        BY <1>0, <3>1, <3>2 DEF Drafted
    <3>4. staging[x].basis \in DOMAIN generations
        BY <1>0, <3>2 DEF Staged, Founded
    <3>5. /\ "card" \in FilesAt[stage]
          /\ "continuity" \in FilesAt[stage] => "prose" \in FilesAt[stage]
        BY <3>1, SceneStagesDiffer DEF SceneFiles
    <3>6. QED
        BY <1>0, <3>3, <3>4, <3>5 DEF Staged
  <2>2. QED
    BY <2>1 DEF SceneStagingValid
<1>12. QED
    BY <1>1, <1>2, <1>3, <1>4, <1>5, <1>6, <1>7, <1>8, <1>9, <1>10, <1>11
    DEF Layout
-----------------------------------------------------------------------------
(* Every stage finds what it asks for.                                      *)

\* The stages up to the Series Plan.
LEMMA DesignIsReady ==
    ASSUME Inv, Begun, Founded, pc = "idle", stage \notin Later
    PROVE  Ready
<1>1. CASE stage = "input"
    BY <1>1 DEF Ready
<1>2. CASE stage = "initial_accept"
    BY <1>2 DEF Ready, AcceptReady, Begun, FromAccept, AllParts
<1>3. CASE stage = "series_plan"
  <2>1. design = "complete" /\ current \in InitialGenerations
    BY <1>3 DEF Begun, Founded, AfterAccept
  <2>2. seriesPlan = NoPlan
    BY DEF Inv, Blank
  <2>3. QED
    BY <1>3, <2>1, <2>2 DEF Ready, SeriesPlanReady
<1>4. CASE \E i \in 1 .. 8 : stage = InitialStages[i]
  <2>1. PICK i \in 1 .. 8 : stage = InitialStages[i]
    BY <1>4
  <2>2. PartNumber = i
    BY <2>1, StagesDiffer DEF PartNumber
  <2>3. brief /\ parts = {DesignParts[j] : j \in 1 .. i - 1}
    BY <2>1, StagesDiffer DEF Begun
  <2>4. DesignParts[i] \notin parts
    BY <2>3 DEF DesignParts
  <2>5. PartReady
    BY <2>2, <2>3, <2>4 DEF PartReady
  <2>6. stage \notin FromAccept \cup {"input"}
    BY <2>1, StagesDiffer
  <2>7. QED
    BY <2>5, <2>6
    DEF Ready, FromAccept, AfterAccept, Later, Open, Closing, SceneWork,
        SceneStages
<1>5. QED
    BY <1>1, <1>2, <1>3, <1>4
    DEF Begun, Stages, Later, Open, Closing, SceneWork

\* From the Series Plan on, a stage runs on the current generation.
LEMMA BasisHolds ==
    ASSUME Founded, stage \in Later
    PROVE  BasisIsCurrent
BY DEF Founded, AfterAccept, BasisIsCurrent

\* The chapters planned when a stage of a volume starts.
LEMMA ChaptersPlanned ==
    ASSUME Scheduled, stage \in Later
    PROVE  DOMAIN chapterPlans =
            {y \in Volumes \X Positive :
                /\ y[1] \in DOMAIN volumePlans
                /\ y[2] <= volumePlans[y[1]].chapters
                /\ y[1] = target.volume =>
                    /\ stage = "chapter_plan" => y[2] < target.chapter
                    /\ stage \in SceneWork => y[2] <= target.chapter}
BY DEF Scheduled

\* A Volume Plan follows the handoff of the volume before it.
LEMMA VolumePlanIsReady ==
    ASSUME Inv, Founded, Scheduled, Closed, stage = "volume_plan"
    PROVE  Ready
<1>0. stage \in Open /\ stage \in Later
    BY DEF Open, Later
<1>1. target.volume \in Volumes /\ seriesPlan # NoPlan
    BY <1>0 DEF Inv, Placed
<1>2. target.volume \notin DOMAIN volumePlans
    BY <1>0, <1>1, BriefAssumption DEF Scheduled, Volumes
<1>3. target.volume > 1 =>
            target.volume - 1 \in DOMAIN handoffs
            /\ handoffs[target.volume - 1].basis = current
    BY <1>0, <1>1, BriefAssumption DEF Closed, Volumes
<1>4. VolumePlanReady
    BY <1>0, <1>1, <1>2, <1>3, BasisHolds DEF VolumePlanReady
<1>5. QED
    BY <1>4 DEF Ready

\* A Chapter Plan follows those of the chapters before it in the volume.
LEMMA ChapterPlanIsReady ==
    ASSUME Inv, Founded, Scheduled, stage = "chapter_plan"
    PROVE  Ready
<1> DEFINE v == target.volume
           c == target.chapter
<1>0. /\ stage \in Open /\ stage \in Later /\ stage \notin SceneWork
      /\ Placed /\ Typed /\ Located
    BY DEF Inv, Open, Later, SceneWork, SceneStages
<1>1. v \in Volumes /\ v \in Nat /\ c \in Positive
    BY <1>0, BriefAssumption DEF Placed, Volumes
<1>2. v \in DOMAIN volumePlans
    BY <1>0, <1>1 DEF Scheduled
<1>3. c \in 1 .. volumePlans[v].chapters /\ volumePlans[v].chapters \in Nat
    BY <1>0, <1>2 DEF Scheduled, Typed, Positive
<1>4. Chapter \in ChaptersOf(v)
    BY <1>3 DEF Chapter, ChaptersOf
<1>5. ASSUME NEW d \in 1 .. c - 1
      PROVE  <<v, d>> \in DOMAIN chapterPlans
  <2>1. d \in Positive /\ d < c /\ d <= volumePlans[v].chapters
    BY <1>1, <1>3 DEF Positive
  <2>2. /\ <<v, d>> \in Volumes \X Positive
        /\ <<v, d>>[1] = v /\ <<v, d>>[2] = d
    BY <1>1, <2>1
  <2>3. QED
    BY <1>0, <1>2, <2>1, <2>2, ChaptersPlanned
<1>6. Chapter \notin DOMAIN chapterPlans
  <2>1. Chapter[1] = v /\ Chapter[2] = c /\ ~(c < c)
    BY <1>1 DEF Chapter, Positive
  <2>2. QED
    BY <1>0, <2>1, ChaptersPlanned
<1>7. ChapterPlanReady
    BY <1>0, <1>2, <1>4, <1>5, <1>6, BasisHolds DEF ChapterPlanReady
<1>8. QED
    BY <1>7 DEF Ready

\* The scenes of the chapter in work that are written are those before the
\* target.
LEMMA ChapterInWork ==
    ASSUME Inv, stage \in SceneWork
    PROVE  /\ {x \in DOMAIN scenes : <<x[1], x[2]>> = Chapter}
                = {<<target.volume, target.chapter, s>> :
                        s \in 1 .. target.scene - 1}
           /\ Coords \notin DOMAIN scenes
           /\ Coords \in ScenesOf(Chapter)
<1> DEFINE v == target.volume
           c == target.chapter
           n == target.scene
<1>0. Placed /\ Written /\ Typed /\ stage \in Later
    BY DEF Inv, Later, Open
<1>1. /\ Chapter \in DOMAIN chapterPlans
      /\ n \in 1 .. chapterPlans[Chapter].scenes
      /\ chapterPlans[Chapter].scenes \in Nat
      /\ v \in Positive /\ c \in Positive /\ n \in Nat
  <2>1. Chapter \in DOMAIN chapterPlans /\ n \in 1 .. chapterPlans[Chapter].scenes
    BY <1>0 DEF Placed
  <2>2. Chapter \in Volumes \X Positive /\ chapterPlans[Chapter].scenes \in Nat
    BY <1>0, <2>1 DEF Typed, Positive
  <2>3. v \in Volumes /\ c \in Positive
    BY <2>2 DEF Chapter
  <2>4. QED
    BY <2>1, <2>2, <2>3, BriefAssumption DEF Volumes, Positive
<1>2. DOMAIN scenes =
        {x \in Places :
            /\ <<x[1], x[2]>> \in DOMAIN chapterPlans
            /\ x[3] <= chapterPlans[<<x[1], x[2]>>].scenes
            /\ <<x[1], x[2]>> = Chapter => x[3] < n}
    BY <1>0 DEF Written
<1>3. Chapter = <<v, c>> /\ Coords = <<v, c, n>>
    BY DEF Chapter, Coords
<1>4. ASSUME NEW x \in DOMAIN scenes, <<x[1], x[2]>> = Chapter
      PROVE  \E s \in 1 .. n - 1 : x = <<v, c, s>>
  <2>1. x \in Places /\ x[3] < n /\ x[1] = v /\ x[2] = c
    BY <1>2, <1>3, <1>4
  <2>2. x = <<v, c, x[3]>> /\ x[3] \in 1 .. n - 1
    BY <1>1, <2>1 DEF Places, Positive
  <2>3. QED
    BY <2>2
<1>5. ASSUME NEW s \in 1 .. n - 1
      PROVE  <<v, c, s>> \in DOMAIN scenes
  <2>1. s \in Positive /\ s < n /\ s <= chapterPlans[Chapter].scenes
    BY <1>1 DEF Positive
  <2>2. /\ <<v, c, s>> \in Places
        /\ <<v, c, s>>[1] = v /\ <<v, c, s>>[2] = c /\ <<v, c, s>>[3] = s
    BY <1>1, <2>1 DEF Places
  <2>3. QED
    BY <1>1, <1>2, <1>3, <2>1, <2>2
<1>6. {x \in DOMAIN scenes : <<x[1], x[2]>> = Chapter}
            = {<<v, c, s>> : s \in 1 .. n - 1}
  <2>1. \A s \in 1 .. n - 1 :
            <<<<v, c, s>>[1], <<v, c, s>>[2]>> = Chapter
    BY <1>3
  <2>2. QED
    BY <1>4, <1>5, <2>1
<1>7. Coords \notin DOMAIN scenes
  <2>1. /\ <<Coords[1], Coords[2]>> = Chapter /\ Coords[3] = n
        /\ ~(n < n)
    BY <1>1, <1>3
  <2>2. QED
    BY <1>2, <2>1
<1>8. Coords \in ScenesOf(Chapter)
  <2>1. Chapter[1] = v /\ Chapter[2] = c
    BY <1>3
  <2>2. QED
    BY <1>1, <1>3, <2>1 DEF ScenesOf
<1>9. QED
    BY <1>6, <1>7, <1>8

\* A Scene Plan follows those of the scenes before it in the chapter, all of
\* them written.
LEMMA ScenePlanIsReady ==
    ASSUME Inv, Budgets, Founded, stage = "scene_plan"
    PROVE  Ready
<1>0. /\ stage \in SceneWork /\ stage \in Later /\ stage \notin SceneStages
      /\ Placed
    BY DEF Inv, Open, Later, SceneWork, SceneStages
<1>1. DOMAIN scenePlans = DOMAIN scenes
    BY <1>0 DEF Budgets, Drafted
<1>2. Chapter \in DOMAIN chapterPlans
    BY <1>0 DEF Placed
<1>3. \A s \in 1 .. target.scene - 1 :
            <<target.volume, target.chapter, s>> \in DOMAIN scenes
    BY <1>0, ChapterInWork
<1>4. Coords \in ScenesOf(Chapter) /\ Coords \notin DOMAIN scenes
    BY <1>0, ChapterInWork
<1>5. ScenePlanReady
    BY <1>0, <1>1, <1>2, <1>3, <1>4, BasisHolds DEF ScenePlanReady
<1>6. QED
    BY <1>5 DEF Ready

\* A scene stage finds its plan, the files of the stages before it and no
\* commit of the scene.
LEMMA SceneIsReady ==
    ASSUME Inv, Budgets, Founded, Scheduled, Staged, stage \in SceneStages,
           NEW files,
           stage = "scene_card" => files = {},
           stage # "scene_card" => files # {} /\ files = FilesAt[stage]
    PROVE  SceneReady(files)
<1>0. stage \in SceneWork /\ stage \in Later
    BY DEF Open, Later, SceneWork
<1>1. active = Coords
    BY DEF Staged
<1>2. Coords \in DOMAIN scenePlans /\ scenePlans[Coords].basis = current
    BY <1>0 DEF Budgets, Drafted, Scheduled
<1>3. Coords \notin DOMAIN scenes
    BY <1>0, ChapterInWork
<1>4. DOMAIN FilesAt = SceneStages \ {"scene_card"}
    BY DEF FilesAt
<1>5. CASE stage = "scene_card"
  <2>1. DOMAIN staging = {}
    BY <1>4, <1>5 DEF Staged
  <2>2. QED
    BY <1>0, <1>1, <1>2, <1>3, <1>5, <2>1, BasisHolds DEF SceneReady
<1>6. CASE stage # "scene_card"
  <2>1. DOMAIN staging = {Coords}
    BY <1>4, <1>6 DEF Staged
  <2>2. staging[Coords].files = files /\ staging[Coords].basis = current
    BY <1>6, <2>1 DEF Staged
  <2>3. QED
    BY <1>0, <1>1, <1>2, <1>3, <1>6, <2>1, <2>2, BasisHolds DEF SceneReady
<1>7. QED
    BY <1>5, <1>6

\* The four stages of a scene.
LEMMA SceneStagesAreReady ==
    ASSUME Inv, Budgets, Handover, stage \in SceneStages
    PROVE  Ready
<1>0. Founded /\ Scheduled /\ Staged /\ Located
    BY DEF Handover, Inv
<1>1. CASE stage = "scene_card"
  <2>1. SceneReady({})
    BY <1>0, <1>1, SceneIsReady
  <2>2. QED
    BY <1>1, <2>1 DEF Ready
<1>2. CASE stage = "scene_prose"
  <2>1. SceneReady({"card"})
    BY <1>0, <1>2, SceneIsReady DEF FilesAt, SceneStages
  <2>2. QED
    BY <1>2, <2>1 DEF Ready
<1>3. CASE stage = "scene_continuity"
  <2>1. SceneReady({"card", "prose"})
    BY <1>0, <1>3, SceneIsReady DEF FilesAt, SceneStages
  <2>2. QED
    BY <1>3, <2>1 DEF Ready
<1>4. CASE stage = "scene_commit"
  <2>1. SceneReady(SceneFiles)
    BY <1>0, <1>4, SceneIsReady DEF FilesAt, SceneStages, SceneFiles
  <2>2. target.result > current /\ target.result \notin DOMAIN generations
    <3>1. /\ target.result = counter /\ \A g \in DOMAIN generations : g < counter
          /\ current \in DOMAIN generations
        BY <1>0, <1>4 DEF Founded, AfterAccept, Later, Open, SceneWork, SceneStages
    <3>2. counter \in Nat /\ current \in Nat /\ current < counter
        BY <1>0, <3>1 DEF Located
    <3>3. ~(counter < counter)
        BY <3>2
    <3>4. QED
        BY <3>1, <3>2, <3>3
  <2>3. {x \in DOMAIN scenes : <<x[1], x[2]>> = Chapter}
            = {<<target.volume, target.chapter, s>> :
                    s \in 1 .. target.scene - 1}
    BY ChapterInWork DEF SceneWork
  <2>4. SceneCommitReady
    BY <2>1, <2>2, <2>3 DEF SceneCommitReady
  <2>5. QED
    BY <1>4, <2>4 DEF Ready
<1>5. QED
    BY <1>1, <1>2, <1>3, <1>4 DEF SceneStages

\* A volume's handoff finds the volume whole; only evidence of an earlier
\* volume may stand in its way.
LEMMA HandoffIsReady ==
    ASSUME Inv, Budgets, Handover, stage = "volume_handoff"
    PROVE  Ready \/ ForeignEvidence
<1> DEFINE v == target.volume
<1>0. /\ stage \in Open /\ stage \in Later
      /\ Placed /\ Typed /\ Founded /\ Scheduled /\ Closed
    BY DEF Open, Later, Inv, Handover
<1>1. v \in Volumes /\ v \in Nat
    BY <1>0, BriefAssumption DEF Placed, Volumes
<1>2. v \in DOMAIN volumePlans
    BY <1>0, <1>1 DEF Scheduled
<1>3. VolumeIsWhole(v)
    BY <1>0, <1>2, FinishedIsWhole
<1>4. /\ PlannedScenes(v) = {x \in DOMAIN scenes : x[1] = v}
      /\ PlannedScenes(v) # {}
    BY <1>0, <1>3, VolumeIsNotEmpty
<1>5. PlannedScenes(v) \in SUBSET Places
    BY <1>0, <1>4 DEF Typed
<1>6. TerminalSource(PlannedScenes(v))
  <2>1. /\ LastOf(PlannedScenes(v)) = LastOf(DOMAIN scenes)
        /\ DOMAIN scenes # {}
    BY <1>4, <1>5, LastOfVolume
  <2>2. QED
    BY <1>0, <2>1 DEF Founded, TerminalSource
<1>7. v \notin DOMAIN handoffs
  <2>1. DOMAIN handoffs = 1 .. v - 1
    BY <1>0 DEF Closed
  <2>2. QED
    BY <1>1, <2>1
<1>8. BasisIsCurrent
    BY <1>0, BasisHolds
<1>9. CASE generations[current].evidence \subseteq PlannedScenes(v)
  <2>1. HandoffReady
    BY <1>3, <1>6, <1>7, <1>8, <1>9 DEF HandoffReady
  <2>2. QED
    BY <2>1 DEF Ready
<1>10. CASE ~(generations[current].evidence \subseteq PlannedScenes(v))
    BY <1>10 DEF ForeignEvidence
<1>11. QED
    BY <1>9, <1>10

\* At the end every volume is whole, and nothing else is written.
LEMMA SeriesIsWhole ==
    ASSUME Inv, Budgets, Handover, stage \in Closing
    PROVE  /\ seriesPlan.count = VolumeCount /\ seriesPlan # NoPlan
           /\ \A v \in Volumes : VolumeIsWhole(v)
           /\ AllPlanned = DOMAIN scenes
           /\ DOMAIN scenes # {}
<1>0. /\ stage \in Later /\ stage \notin Open
      /\ Placed /\ Typed /\ Written /\ Scheduled
    BY DEF Closing, Open, SceneWork, SceneStages, Later, Inv, Handover
<1>1. seriesPlan.count = VolumeCount /\ seriesPlan # NoPlan
    BY <1>0 DEF Placed, Typed
<1>2. DOMAIN volumePlans = Volumes
    BY <1>0 DEF Scheduled
<1>3. \A v \in Volumes : VolumeIsWhole(v)
    BY <1>0, <1>2, FinishedIsWhole
<1>4. \A v \in Volumes : /\ PlannedScenes(v) = {x \in DOMAIN scenes : x[1] = v}
                         /\ PlannedScenes(v) # {}
    BY <1>0, <1>3, VolumeIsNotEmpty
<1>5. \A x \in DOMAIN scenes : x[1] \in Volumes
  <2>1. SUFFICES ASSUME NEW x \in DOMAIN scenes
                 PROVE  x[1] \in Volumes
    OBVIOUS
  <2>2. <<x[1], x[2]>> \in DOMAIN chapterPlans
    BY <1>0 DEF Written
  <2>3. <<x[1], x[2]>> \in Volumes \X Positive
    BY <1>0, <2>2 DEF Typed
  <2>4. QED
    BY <2>3
<1>6. AllPlanned = DOMAIN scenes
  <2>1. 1 .. seriesPlan.count = Volumes
    BY <1>1 DEF Volumes
  <2>2. AllPlanned = UNION {PlannedScenes(v) : v \in Volumes}
    BY <2>1 DEF AllPlanned
  <2>3. QED
    BY <1>4, <1>5, <2>2
<1>7. VolumeCount \in Volumes
    BY BriefAssumption DEF Volumes
<1>8. DOMAIN scenes # {}
    BY <1>4, <1>7
<1>9. QED
    BY <1>1, <1>3, <1>6, <1>8

\* The completion finds the series whole; only what a dead initial_accept left
\* may stand in its way.
LEMMA CompletionIsReady ==
    ASSUME Inv, Budgets, Handover, stage = "completion", leftovers \in Nat
    PROVE  Ready \/ LeftStaging
<1>0. /\ stage \in Closing /\ stage \in Later /\ stage \notin SceneStages
      /\ stage \notin DOMAIN FilesAt
      /\ Lineage /\ Founded /\ Staged /\ Closed
    BY DEF Closing, Later, SceneStages, FilesAt, Inv, Handover
<1>1. /\ seriesPlan.count = VolumeCount /\ seriesPlan # NoPlan
      /\ \A v \in Volumes : VolumeIsWhole(v)
      /\ AllPlanned = DOMAIN scenes
      /\ DOMAIN scenes # {}
    BY <1>0, SeriesIsWhole
<1>2. 1 .. seriesPlan.count = Volumes
    BY <1>1 DEF Volumes
<1>3. BasisIsCurrent
    BY <1>0, BasisHolds
<1>4. target.volume = seriesPlan.count /\ active = NoScene
      /\ DOMAIN handoffs = Volumes /\ DOMAIN staging = {}
    BY <1>0, <1>1 DEF Closed, Staged
<1>5. LineageOf(AllPlanned)
    BY <1>0, <1>1 DEF Lineage
<1>6. \A v \in DOMAIN handoffs :
            /\ handoffs[v].scenes = PlannedScenes(v)
            /\ handoffs[v].basis = scenes[LastOf(PlannedScenes(v))].result
    BY <1>0 DEF Closed
<1>7. TerminalSource(AllPlanned)
    BY <1>0, <1>1 DEF Founded, TerminalSource
<1>8. CASE leftovers = 0
  <2>1. CompletionReady
    BY <1>1, <1>2, <1>3, <1>4, <1>5, <1>6, <1>7, <1>8 DEF CompletionReady
  <2>2. QED
    BY <2>1 DEF Ready
<1>9. CASE leftovers # 0
    BY <1>9 DEF LeftStaging
<1>10. QED
    BY <1>8, <1>9

\* The publication finds the completion and every volume of the manuscript.
LEMMA PublicationIsReady ==
    ASSUME Inv, Budgets, Handover, stage = "publication", status = "running"
    PROVE  Ready
<1>0. /\ stage \in Closing /\ stage \in Later /\ stage \notin SceneStages
      /\ Founded /\ Staged /\ Closed
    BY DEF Closing, Later, SceneStages, Handover
<1>1. LoadedVolumes = Volumes /\ \A v \in Volumes : VolumeIsWhole(v)
    BY <1>0, SeriesIsWhole DEF LoadedVolumes, Volumes
<1>2. active = NoScene /\ published = None
    BY <1>0 DEF Staged, Closed
<1>3. /\ target.completion \in DOMAIN completions
      /\ completions[target.completion].basis = current
      /\ completions[target.completion].status # "incomplete"
    BY <1>0 DEF Closed
<1>4. PublicationReady
    BY <1>0, <1>1, <1>2, <1>3, BasisHolds DEF PublicationReady
<1>5. QED
    BY <1>4 DEF Ready

\* The staging directories a dead initial_accept may leave are counted.
Leavings == leftovers \in Nat /\ (pc = "files" => leftovers > 0)

\* A directory of initial_accept is gone only after it was there.
LEMMA LeavingsAreCounted == Spec => []Leavings
<1>1. Init => Leavings
    BY DEF Init, Leavings
<1>2. Leavings /\ [Next]_vars => Leavings'
  <2> SUFFICES ASSUME Leavings, [Next]_vars PROVE Leavings'
    OBVIOUS
  <2>1. CASE EnsureDesign \/ WriteDesign \/ FindInitialGeneration
             \/ ReserveGeneration
    BY <2>1
    DEF EnsureDesign, WriteDesign, FindInitialGeneration, ReserveGeneration,
        Leavings
  <2>2. CASE StageGeneration
    BY <2>2 DEF StageGeneration, Leavings
  <2>3. CASE PublishGeneration
    BY <2>3 DEF PublishGeneration, Leavings
  <2>4. CASE AdvanceFromAccept \/ Crash
    BY <2>4 DEF AdvanceFromAccept, Crash, Leavings
  <2>5. CASE AcceptInput \/ AdoptPart
    BY <2>5 DEF AcceptInput, AdoptPart, acceptance, Leavings
  <2>6. CASE Plan \/ WriteScene \/ HandOff \/ Complete \/ Publish
    BY <2>6, LaterSteps DEF acceptance, Leavings
  <2>7. CASE Block \/ Rest \/ UNCHANGED vars
    BY <2>7, IdleSteps DEF acceptance, Leavings
  <2>8. QED
    BY <2>1, <2>2, <2>3, <2>4, <2>5, <2>6, <2>7 DEF Next, Step, Accept
<1>3. QED
    BY <1>1, <1>2, PTL DEF Spec

\* RefusedOnlyForLeftovers, whatever the plans and wherever initial_accept
\* dies, but between creating initial-design.json and filling it: a file torn
\* there is refused for good.  What each stage hands over is what the next one
\* asks for, and what every validator of the layout accepts.
THEOREM OnlyLeftoversRefuse ==
    ASSUME "design_file" \notin CrashAt
    PROVE  Spec => []RefusedOnlyForLeftovers
<1>1. Inv /\ Budgets /\ Handover /\ Leavings => RefusedOnlyForLeftovers
  <2>1. SUFFICES ASSUME Inv, Budgets, Handover, Leavings, AtRest
                 PROVE  Layout /\ (Ready \/ ForeignEvidence \/ LeftStaging)
    BY DEF RefusedOnlyForLeftovers, Refused
  <2>2. Begun /\ Founded /\ Scheduled /\ Closed
        /\ status = "running" /\ pc = "idle" /\ leftovers \in Nat
    BY <2>1 DEF Handover, AtRest, Leavings
  <2>3. Layout
    BY <2>1, LayoutHolds
  <2>4. CASE stage \notin Later
    BY <2>1, <2>2, <2>3, <2>4, DesignIsReady
  <2>5. CASE stage \in {"volume_plan", "chapter_plan", "scene_plan"}
    BY <2>1, <2>2, <2>3, <2>5, VolumePlanIsReady, ChapterPlanIsReady,
       ScenePlanIsReady
  <2>6. CASE stage \in SceneStages
    BY <2>1, <2>3, <2>6, SceneStagesAreReady
  <2>7. CASE stage = "volume_handoff"
    BY <2>1, <2>3, <2>7, HandoffIsReady
  <2>8. CASE stage \in Closing
    BY <2>1, <2>2, <2>3, <2>8, CompletionIsReady, PublicationIsReady
    DEF Closing
  <2>9. QED
    BY <2>3, <2>4, <2>5, <2>6, <2>7, <2>8 DEF Later, Open, SceneWork
<1>2. QED
    BY Invariance, BudgetsAreKept, HandoversAreKept, LeavingsAreCounted, <1>1,
       PTL
-----------------------------------------------------------------------------
(* The whole run as an abstract reader sees it: one step for the founding,  *)
(* for each scene, each handoff and the book, and nothing else.             *)

\* What the stages beside Inv keep whatever crashes: there is no generation to
\* go by before initial_accept is through, and no volume is handed over ahead
\* of the run.
Ahead ==
    /\ stage \notin AfterAccept => current = None
    /\ \A u \in DOMAIN handoffs : stage \in Open => u < target.volume

\* A step of the plans and of a scene in work stays in its volume.
LEMMA VolumeStays ==
    ASSUME Inv, PlanVolume \/ PlanChapter \/ PlanScene \/ WriteCard
                \/ WriteProse \/ WriteContinuity \/ CommitScene
    PROVE  /\ stage \in Open /\ stage' \in Open
           /\ target'.volume = target.volume
           /\ UNCHANGED handoffs
<1>0. target \in Targets
    BY DEF Inv, Located
<1>1. CASE PlanVolume \/ PlanChapter
    BY <1>1
    DEF PlanVolume, PlanChapter, Begin, AdvanceTo, At, Chapter, endArtifacts,
        Open, SceneWork, SceneStages
<1>2. CASE PlanScene \/ WriteCard \/ WriteProse
    BY <1>2
    DEF PlanScene, WriteCard, WriteProse, Begin, AdvanceTo, endArtifacts, Open,
        SceneWork, SceneStages
<1>3. CASE WriteContinuity
    BY <1>0, <1>3
    DEF WriteContinuity, Begin, AdvanceTo, endArtifacts, Open, SceneWork,
        SceneStages, Targets
<1>4. CASE CommitScene
  <2>1. /\ stage = "scene_commit" /\ stage' = AfterScene(target.result)[1]
        /\ target' = AfterScene(target.result)[2] /\ UNCHANGED handoffs
    BY <1>4 DEF CommitScene, Begin, AdvanceTo, endArtifacts
  <2>2. /\ stage' \in {"scene_plan", "chapter_plan", "volume_handoff"}
        /\ target'.volume = target.volume
    BY <2>1 DEF AfterScene, At
  <2>3. QED
    BY <2>1, <2>2 DEF Open, SceneWork, SceneStages
<1>5. QED
    BY <1>1, <1>2, <1>3, <1>4

\* No stage writes ahead of the place the run has come to.
LEMMA AheadKept ==
    ASSUME Inv, Ahead, [Next]_vars
    PROVE  Ahead'
<1>0. Located /\ Typed /\ Blank /\ Placed
    BY DEF Inv
<1>1. CASE AcceptInput \/ AdoptPart \/ Accept \/ Crash
  <2>1. /\ stage \notin AfterAccept /\ UNCHANGED endArtifacts
        /\ stage' \notin AfterAccept => current' = current
    BY <1>1, EarlySteps, StagesDiffer DEF AfterAccept
  <2>2. DOMAIN handoffs = {} /\ handoffs' = handoffs
    BY <1>0, <2>1 DEF Blank, AfterAccept, endArtifacts
  <2>3. QED
    BY <2>1, <2>2 DEF Ahead
<1>2. CASE Plan \/ WriteScene \/ HandOff \/ Complete \/ Publish
  <2>0. stage' \in AfterAccept
    BY <1>2, LaterSteps DEF AfterAccept
  <2>1. CASE PlanSeries
    <3>1. stage \notin Later /\ UNCHANGED handoffs
        BY <2>1, PartsComeFirst DEF PlanSeries, Begin, endArtifacts
    <3>2. QED
        BY <1>0, <2>0, <3>1 DEF Blank, Ahead
  <2>2. CASE PlanVolume \/ PlanChapter \/ PlanScene \/ WriteScene
    <3>1. /\ stage \in Open /\ target'.volume = target.volume
          /\ UNCHANGED handoffs
        BY <2>2, VolumeStays DEF WriteScene
    <3>2. QED
        BY <2>0, <3>1 DEF Ahead
  <2>3. CASE HandOff
    <3> DEFINE v == target.volume
    <3>1. /\ stage = "volume_handoff" /\ stage' = AfterHandoff(v)[1]
          /\ target' = AfterHandoff(v)[2]
          /\ DOMAIN handoffs' = DOMAIN handoffs \cup {v}
        BY <2>3 DEF HandOff, Begin, AdvanceTo, Adopting
    <3>2. stage \in Open /\ v \in Nat /\ DOMAIN handoffs \subseteq Nat
        BY <1>0, <3>1 DEF Open, Located, Targets, Typed, Volumes
    <3>3. stage' \in Open => target'.volume = v + 1
        BY <3>1 DEF AfterHandoff, At, Open, SceneWork, SceneStages
    <3>4. \A u \in DOMAIN handoffs' : u < v + 1
        BY <3>1, <3>2 DEF Ahead
    <3>5. QED
        BY <2>0, <3>3, <3>4 DEF Ahead
  <2>4. CASE Complete \/ Publish
    <3>1. stage' \notin Open
        BY <2>4
        DEF Complete, Publish, Begin, AdvanceTo, Open, SceneWork, SceneStages
    <3>2. QED
        BY <2>0, <3>1 DEF Ahead
  <2>5. QED
    BY <1>2, <2>1, <2>2, <2>3, <2>4 DEF Plan
<1>3. CASE Block \/ Rest \/ UNCHANGED vars
  <2>1. UNCHANGED <<stage, target, current, handoffs>>
    BY <1>3, IdleSteps DEF artifacts, endArtifacts
  <2>2. QED
    BY <2>1 DEF Ahead
<1>4. QED
    BY <1>1, <1>2, <1>3 DEF Next, Step

\* What the abstract reader finds, in terms of the run.
LEMMA HandedVolumes == Atomic!VolumesHanded = DOMAIN handoffs
<1>1. \A v \in DOMAIN handoffs : v \in {h.volume : h \in Handed}
  <2> TAKE v \in DOMAIN handoffs
  <2> DEFINE h == [volume |-> v, scenes |-> handoffs[v].scenes,
                   generation |-> handoffs[v].basis]
  <2>1. h \in Handed /\ h.volume = v
    BY DEF Handed
  <2>2. QED
    BY <2>1
<1>2. \A h \in Handed : h.volume \in DOMAIN handoffs
    BY DEF Handed
<1>3. QED
    BY <1>1, <1>2 DEF Atomic!VolumesHanded

\* The history has each committed scene, with its generation, and no other.
LEMMA WrittenScenes ==
    /\ \A r \in History : r.scene \in DOMAIN scenes
    /\ \A x \in DOMAIN scenes : \E r \in History :
            r.scene = x /\ r.generation = scenes[x].result
<1>1. \A x \in DOMAIN scenes : \E r \in History :
            r.scene = x /\ r.generation = scenes[x].result
  <2> TAKE x \in DOMAIN scenes
  <2> DEFINE r == [scene |-> x, generation |-> scenes[x].result,
                   parent |-> scenes[x].parent]
  <2>1. r \in History /\ r.scene = x /\ r.generation = scenes[x].result
    BY DEF History
  <2>2. QED
    BY <2>1
<1>2. QED
    BY <1>1 DEF History

\* The scenes of a volume in the history are those committed in it.
LEMMA WrittenIn ==
    ASSUME NEW v
    PROVE  Atomic!ScenesIn(v) = {x \in DOMAIN scenes : x[1] = v}
<1>1. \A x : x \in Atomic!ScenesIn(v) <=> \E r \in History : r.scene[1] = v /\ x = r.scene
    BY DEF Atomic!ScenesIn
<1>2. QED
    BY <1>1, WrittenScenes

\* A step that touches nothing of the story is none to this reader.
LEMMA StoryStands ==
    ASSUME UNCHANGED <<scenes, current, handoffs, publications>>
    PROVE  UNCHANGED Atomic!seriesVars
BY DEF Atomic!seriesVars, History, Handed, Books

\* initial_accept ends by naming the generation the run goes by from then on.
LEMMA AcceptFounds ==
    ASSUME Inv, Ahead, AdvanceFromAccept
    PROVE  Atomic!Found(current') /\ current' \in Nat
<1>1. /\ current' \in DOMAIN generations /\ stage = "initial_accept"
      /\ UNCHANGED <<scenes, handoffs, publications>>
    BY DEF AdvanceFromAccept, InitialGenerations, sceneArtifacts, endArtifacts,
        Inv, Control
<1>2. current = None /\ current' \in Nat
    BY <1>1, StagesDiffer DEF Ahead, Inv, Located
<1>3. QED
    BY <1>1, <1>2 DEF Atomic!Found, History, Handed, Books

\* The last scene in the order of reading left the current generation.
LEMMA LatestScene ==
    ASSUME Inv, stage \in Later, NEW y \in DOMAIN scenes,
           \A z \in DOMAIN scenes : y = z \/ Precedes(z, y)
    PROVE  scenes[y].result = current
<1>1. DOMAIN scenes \in SUBSET Places /\ seriesPlan # NoPlan
    BY DEF Inv, Typed, Placed
<1>2. LastOf(DOMAIN scenes) = y
    BY <1>1, LastIs
<1>3. QED
    BY <1>1, <1>2 DEF Inv, Lineage

\* The scene that is committed is the next one: after the one before it in the
\* chapter, or as the first of a chapter after the last of the chapter before.
LEMMA CommitFollows ==
    ASSUME Inv, CommitScene
    PROVE  \/ /\ Coords = <<target.volume, 1, 1>>
              /\ {x \in DOMAIN scenes : x[1] = target.volume} = {}
           \/ \E y \in DOMAIN scenes :
                scenes[y].result = current /\ Atomic!Follows(y, Coords)
<1> DEFINE v == target.volume
           c == target.chapter
           s == target.scene
<1>0. Placed /\ Written /\ Typed
    BY DEF Inv
<1>1. /\ stage = "scene_commit" /\ Layout
      /\ {x \in DOMAIN scenes : <<x[1], x[2]>> = <<v, c>>}
            = {<<v, c, z>> : z \in 1 .. s - 1}
    BY DEF CommitScene, Begin, Ready, SceneCommitReady, Chapter
<1>2. stage \in SceneWork /\ stage \in Later
    BY <1>1 DEF Later, Open, SceneWork, SceneStages
<1>3. <<v, c, s>> \in Places
    BY <1>2, CommitComesLast DEF Coords
<1>4. /\ v \in Positive /\ c \in Positive /\ s \in Positive
      /\ v \in Nat /\ c \in Nat /\ s \in Nat /\ v # 0 /\ c # 0 /\ s # 0
    BY <1>3 DEF Places, Positive
<1>5. ASSUME NEW z \in DOMAIN scenes
      PROVE  /\ z[1] \in Nat /\ z[2] \in Nat /\ z[3] \in Nat
             /\ z[2] # 0 /\ z[3] # 0
             /\ z = <<z[1], z[2], z[3]>>
             /\ z[3] <= chapterPlans[<<z[1], z[2]>>].scenes
             /\ \/ z[1] < v
                \/ z[1] = v /\ z[2] < c
                \/ z[1] = v /\ z[2] = c /\ z[3] < s
  <2>1. z \in Places /\ Precedes(z, Coords)
    BY <1>2, CommitComesLast
  <2>2. z[3] <= chapterPlans[<<z[1], z[2]>>].scenes
    BY <1>0, <1>2 DEF Written
  <2>3. QED
    BY <2>1, <2>2 DEF Precedes, Coords, Places, Positive
<1>6. CASE s > 1
  <2> DEFINE y == <<v, c, s - 1>>
  <2>1. y \in DOMAIN scenes
    <3>1. s - 1 \in 1 .. s - 1
        BY <1>4, <1>6
    <3>2. y \in {<<v, c, z>> : z \in 1 .. s - 1}
        BY <3>1
    <3>3. QED
        BY <1>1, <3>2
  <2>2. ASSUME NEW z \in DOMAIN scenes
        PROVE  y = z \/ Precedes(z, y)
    <3>0. z[3] \in Nat /\ z[3] < s => z[3] < s - 1 \/ z[3] = s - 1
        BY <1>4
    <3>1. \/ z[1] < v
          \/ z[1] = v /\ z[2] < c
          \/ z[1] = v /\ z[2] = c /\ (z[3] < s - 1 \/ z[3] = s - 1)
        BY <1>5, <3>0
    <3>2. z = <<z[1], z[2], z[3]>>
        BY <1>5
    <3>3. QED
        BY <3>1, <3>2 DEF Precedes
  <2>3. Atomic!Follows(y, Coords)
    <3>1. (s - 1) + 1 = s
        BY <1>4
    <3>2. QED
        BY <3>1 DEF Atomic!Follows, Coords
  <2>4. scenes[y].result = current
    BY <1>2, <2>1, <2>2, LatestScene
  <2>5. QED
    BY <2>1, <2>3, <2>4
<1>7. CASE s = 1 /\ c > 1
  <2> DEFINE n == chapterPlans[<<v, c - 1>>].scenes
             y == <<v, c - 1, n>>
  <2>1. <<v, c>> \in DOMAIN chapterPlans
    BY <1>0, <1>2 DEF Placed, Chapter
  <2>2. <<v, c - 1>> \in DOMAIN chapterPlans
    BY <1>1, <1>7, <2>1 DEF Layout, ChapterPlansValid
  <2>3. n \in Positive /\ n \in Nat /\ c - 1 \in Positive /\ c - 1 \in Nat
    BY <1>0, <1>4, <1>7, <2>2 DEF Typed, Positive
  <2>4. y \in DOMAIN scenes
    <3>1. y \in Places /\ <<y[1], y[2]>> # <<v, c>>
        BY <1>4, <2>3 DEF Places
    <3>2. n <= n /\ <<y[1], y[2]>> = <<v, c - 1>> /\ y[3] = n
        BY <2>3
    <3>3. QED
        BY <1>0, <1>2, <2>2, <3>1, <3>2 DEF Written, Chapter
  <2>5. ASSUME NEW z \in DOMAIN scenes
        PROVE  y = z \/ Precedes(z, y)
    <3>1. /\ z[2] \in Nat /\ z[3] \in Nat /\ z[3] # 0
          /\ \/ z[1] < v
             \/ z[1] = v /\ z[2] < c
             \/ z[1] = v /\ z[2] = c /\ z[3] < s
        BY <1>5
    <3>2. \/ z[1] < v
          \/ z[1] = v /\ z[2] < c - 1
          \/ z[1] = v /\ z[2] = c - 1
      <4>1. z[2] < c => z[2] < c - 1 \/ z[2] = c - 1
        BY <1>4, <3>1
      <4>2. ~(z[3] < s)
        BY <1>7, <3>1
      <4>3. QED
        BY <3>1, <4>1, <4>2
    <3>3. z[1] = v /\ z[2] = c - 1 => z[3] <= n
        BY <1>5
    <3>4. z[3] <= n => z[3] < n \/ z[3] = n
        BY <2>3, <3>1
    <3>5. z = <<z[1], z[2], z[3]>>
        BY <1>5
    <3>6. y[1] = v /\ y[2] = c - 1 /\ y[3] = n
        OBVIOUS
    <3> HIDE DEF n
    <3>7. QED
        BY <3>2, <3>3, <3>4, <3>5, <3>6 DEF Precedes
  <2>6. Atomic!Follows(y, Coords)
    <3>1. (c - 1) + 1 = c
        BY <1>4
    <3>2. QED
        BY <1>7, <3>1 DEF Atomic!Follows, Coords
  <2>7. scenes[y].result = current
    <3> HIDE DEF y
    <3>1. QED
        BY <1>2, <2>4, <2>5, LatestScene
  <2>8. QED
    BY <2>4, <2>6, <2>7
<1>8. CASE s = 1 /\ c = 1
  <2>1. ASSUME NEW z \in DOMAIN scenes, z[1] = v
        PROVE  FALSE
    <3>1. /\ z[2] \in Nat /\ z[3] \in Nat /\ z[2] # 0 /\ z[3] # 0
          /\ z[1] < v \/ z[2] < c \/ z[3] < s
        BY <1>5
    <3>2. QED
        BY <1>4, <1>8, <2>1, <3>1
  <2>2. QED
    BY <1>8, <2>1 DEF Coords
<1>9. QED
    BY <1>4, <1>6, <1>7, <1>8

\* The commit is where the reader sees a scene appear, with its generation.
LEMMA CommitWrites ==
    ASSUME Inv, Ahead, CommitScene
    PROVE  Atomic!Write(Coords, current') /\ Coords \in Places /\ current' \in Nat
<1> DEFINE v == target.volume
           x == Coords
           r == [scene |-> x, generation |-> current', parent |-> current]
<1>1. /\ stage = "scene_commit" /\ Layout /\ BasisIsCurrent
      /\ current' = target.result /\ target.result > current
      /\ active = x /\ x \notin DOMAIN scenes
      /\ scenes' = Adopting(scenes, x, [parent |-> current, result |-> current'])
      /\ UNCHANGED endArtifacts
    BY DEF CommitScene, Begin, Ready, SceneCommitReady, SceneReady
<1>2. stage \in SceneWork /\ stage \in Open
    BY <1>1 DEF Open, SceneWork, SceneStages
<1>3. x \in Places /\ x[1] = v /\ v \in Volumes /\ current' \in Nat
    BY <1>1, <1>2, CommitComesLast DEF Coords, Inv, Placed, Located, Targets
<1>4. current # None
    BY <1>1 DEF BasisIsCurrent, Layout, GenerationsValid
<1>5. DOMAIN handoffs = 1 .. v - 1
  <2>1. 1 .. v - 1 \subseteq DOMAIN handoffs /\ DOMAIN handoffs \subseteq Volumes
    BY <1>2 DEF Inv, HandedOver, Typed
  <2>2. \A u \in DOMAIN handoffs : u < v
    BY <1>2 DEF Ahead
  <2>3. \A u \in Volumes : u < v => u \in 1 .. v - 1
    BY <1>3, BriefAssumption DEF Volumes
  <2>4. QED
    BY <2>1, <2>2, <2>3
<1>6. \/ x = Atomic!Opens(x[1]) /\ Atomic!ScenesIn(x[1]) = {}
      \/ \E w \in History : w.generation = current /\ Atomic!Follows(w.scene, x)
  <2>1. CASE x = <<v, 1, 1>> /\ {y \in DOMAIN scenes : y[1] = v} = {}
    BY <1>3, <2>1, WrittenIn DEF Atomic!Opens
  <2>2. CASE \E y \in DOMAIN scenes :
                scenes[y].result = current /\ Atomic!Follows(y, Coords)
    BY <2>2, WrittenScenes
  <2>3. QED
    BY <2>1, <2>2, CommitFollows
<1>7. History' = History \cup {r}
  <2>1. /\ DOMAIN scenes' = DOMAIN scenes \cup {x}
        /\ scenes'[x] = [parent |-> current, result |-> current']
        /\ \A y \in DOMAIN scenes : scenes'[y] = scenes[y]
    BY <1>1 DEF Adopting
  <2> HIDE DEF x
  <2>2. QED
    BY <2>1 DEF History
<1>8. UNCHANGED <<Handed, Books>>
    BY <1>1 DEF endArtifacts, Handed, Books
<1>9. QED
    BY <1>1, <1>3, <1>4, <1>5, <1>6, <1>7, <1>8, HandedVolumes DEF Atomic!Write

\* A handoff is what was written of its volume.
LEMMA HandOffHands ==
    ASSUME Inv, Ahead, HandOff
    PROVE  Atomic!HandOver(target.volume) /\ target.volume \in 1 .. VolumeCount
<1> DEFINE v == target.volume
           h == [volume |-> v, scenes |-> PlannedScenes(v),
                 generation |-> current]
<1>1. /\ stage = "volume_handoff" /\ VolumeIsWhole(v) /\ v \notin DOMAIN handoffs
      /\ handoffs' = Adopting(handoffs, v,
                        [basis |-> current, scenes |-> PlannedScenes(v)])
      /\ UNCHANGED <<current, sceneArtifacts, publications>>
    BY DEF HandOff, Begin, Ready, HandoffReady
<1>2. stage \in Open
    BY <1>1 DEF Open
<1>3. v \in Volumes /\ DOMAIN handoffs \subseteq Volumes /\ Typed
    BY <1>2 DEF Inv, Placed, Typed
<1>4. DOMAIN handoffs = 1 .. v - 1
  <2>1. 1 .. v - 1 \subseteq DOMAIN handoffs
    BY <1>2 DEF Inv, HandedOver
  <2>2. \A u \in DOMAIN handoffs : u < v
    BY <1>2 DEF Ahead
  <2>3. \A u \in Volumes : u < v => u \in 1 .. v - 1
    BY <1>3, BriefAssumption DEF Volumes
  <2>4. QED
    BY <1>3, <2>1, <2>2, <2>3
<1>5. /\ Atomic!ScenesIn(v) = PlannedScenes(v)
      /\ Atomic!ScenesIn(v) # {}
    BY <1>1, <1>3, WrittenIn, VolumeIsNotEmpty
<1>6. Handed' = Handed \cup {h}
  <2>1. /\ DOMAIN handoffs' = DOMAIN handoffs \cup {v}
        /\ handoffs'[v].basis = current
        /\ handoffs'[v].scenes = PlannedScenes(v)
        /\ \A u \in DOMAIN handoffs : handoffs'[u] = handoffs[u]
    BY <1>1 DEF Adopting
  <2> HIDE DEF v
  <2>2. QED
    BY <2>1 DEF Handed
<1>7. UNCHANGED <<History, current, Books>>
    BY <1>1 DEF sceneArtifacts, History, Books
<1>8. QED
    BY <1>3, <1>4, <1>5, <1>6, <1>7, HandedVolumes
    DEF Atomic!HandOver, Volumes

\* The publication prints what is written.
LEMMA PublishPrints ==
    ASSUME Inv, Publish
    PROVE  Atomic!PrintBook
<1> DEFINE b == [scenes |-> DOMAIN scenes, generation |-> current]
<1>1. /\ stage = "publication" /\ status = "running" /\ Layout
      /\ PublicationReady /\ status' = "completed" /\ published' = 1
      /\ \E k \in {target.completion}, S \in {UNION {PlannedScenes(v) : v \in LoadedVolumes}} :
            publications' = Adopting(publications, 1,
                [completion |-> k, basis |-> current, scenes |-> S])
      /\ UNCHANGED <<current, sceneArtifacts, handoffs>>
    BY DEF Publish, Begin, AtRest, Ready
<1>2. Unpublished /\ PublishedIsWhole' /\ Typed /\ Placed
    BY PublishKeeps DEF Inv
<1>3. DOMAIN publications = {}
    BY <1>1, <1>2 DEF Unpublished
<1>4. /\ DOMAIN publications' = {1}
      /\ publications'[1].basis = current
      /\ publications'[1].scenes = DOMAIN scenes
    BY <1>1, <1>2, <1>3 DEF Adopting, PublishedIsWhole, sceneArtifacts
<1>5. Books = {} /\ Books' = {b}
    BY <1>1, <1>3, <1>4 DEF Books
<1>6. DOMAIN handoffs = 1 .. VolumeCount
  <2>1. stage \in Later
    BY <1>1 DEF Later, Closing
  <2>2. seriesPlan.count = VolumeCount /\ DOMAIN handoffs \subseteq Volumes
    BY <1>2, <2>1 DEF Typed, Placed
  <2>3. 1 .. seriesPlan.count \subseteq DOMAIN handoffs
    BY <1>1 DEF PublicationReady, Layout, CompletionsValid
  <2>4. QED
    BY <2>2, <2>3 DEF Volumes
<1>7. {r.scene : r \in History} = DOMAIN scenes
    BY WrittenScenes
<1>8. UNCHANGED <<History, current, Handed>>
    BY <1>1 DEF sceneArtifacts, History, Handed
<1>9. QED
    BY <1>5, <1>6, <1>7, <1>8, HandedVolumes DEF Atomic!PrintBook

\* The run starts with nothing to see.
LEMMA NothingWritten ==
    ASSUME Init
    PROVE  Atomic!SeriesInit /\ Ahead
<1>1. Atomic!SeriesInit
    BY DEF Init, Atomic!SeriesInit, History, Handed, Books
<1>2. stage \notin Open /\ current = None
    BY DEF Init, Open, SceneWork, SceneStages
<1>3. QED
    BY <1>1, <1>2 DEF Ahead

\* Every other step leaves the story as it is.
LEMMA OthersStandStill ==
    ASSUME Inv, [Next]_vars, ~AdvanceFromAccept, ~CommitScene, ~HandOff, ~Publish
    PROVE  UNCHANGED Atomic!seriesVars
<1>1. CASE AcceptInput \/ AdoptPart \/ Accept \/ Crash
  <2>1. UNCHANGED <<scenes, endArtifacts, current>>
    BY <1>1, EarlySteps
  <2>2. QED
    BY <2>1, StoryStands DEF endArtifacts
<1>2. CASE Plan \/ WriteScene \/ Complete
  <2>1. UNCHANGED <<scenes, current>>
    BY <1>2, LaterSteps
  <2>2. UNCHANGED <<handoffs, publications>>
    BY <1>2
    DEF Plan, PlanSeries, PlanVolume, PlanChapter, PlanScene, WriteScene,
        WriteCard, WriteProse, WriteContinuity, Complete, endArtifacts
  <2>3. QED
    BY <2>1, <2>2, StoryStands
<1>3. CASE Block \/ Rest \/ UNCHANGED vars
  <2>1. UNCHANGED <<current, artifacts>>
    BY <1>3, IdleSteps
  <2>2. QED
    BY <2>1, StoryStands DEF artifacts, sceneArtifacts, endArtifacts
<1>4. QED
    BY <1>1, <1>2, <1>3 DEF Next, Step

\* From any shape of the series and through any crash of initial_accept, a run
\* is the writing of one series in the order of reading (the services of all
\* stages, seen through run-state.json and the artifacts).
THEOREM SeriesIsAtomic == Spec => ImplementsAtomicSeries
<1>1. Inv /\ Ahead /\ [Next]_vars => [Atomic!SeriesNext]_(Atomic!seriesVars)
  <2> SUFFICES ASSUME Inv, Ahead, [Next]_vars
               PROVE  Atomic!SeriesNext \/ UNCHANGED Atomic!seriesVars
    OBVIOUS
  <2>1. CASE AdvanceFromAccept
    BY <2>1, AcceptFounds DEF Atomic!SeriesNext
  <2>2. CASE CommitScene
    BY <2>2, CommitWrites DEF Atomic!SeriesNext, Places, Positive
  <2>3. CASE HandOff
    BY <2>3, HandOffHands DEF Atomic!SeriesNext
  <2>4. CASE Publish
    BY <2>4, PublishPrints DEF Atomic!SeriesNext
  <2>5. QED
    BY <2>1, <2>2, <2>3, <2>4, OthersStandStill
<1>2. Init => Ahead /\ Atomic!SeriesInit
    BY NothingWritten
<1>3. QED
    BY Invariance, AheadKept, <1>1, <1>2, PTL
    DEF Spec, ImplementsAtomicSeries, Atomic!SeriesSpec
=============================================================================
