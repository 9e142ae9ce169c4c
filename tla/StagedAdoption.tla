--------------------------- MODULE StagedAdoption ---------------------------
(***************************************************************************)
(* How an accepted candidate becomes a file, at the level of single writes *)
(* and of what a dead process leaves in the directories: the brief made    *)
(* from keywords, then for each scene its card, prose and continuity in    *)
(* the scene's staging directory, the scene adoption record, and the       *)
(* commit that moves the staging into place; at the end the volume handoff *)
(* and the completion.  The stages in between (initial design, plans)      *)
(* adopt as CandidateStage says; the loop of review and revision before an *)
(* acceptance is CandidateStage's, the phases after the scene directory is *)
(* checked are SceneCommit's.                                              *)
(*                                                                         *)
(* The content of a file is the number of the candidate it was made from.  *)
(***************************************************************************)
EXTENDS Naturals, Sequences, FiniteSets

CONSTANTS
    SceneCount,     \* scenes of the volume
    Evidence,       \* evidence items in each continuity
    Updates,        \* operations in each continuity
    MaxCrashes,     \* bound on the crashes of one behaviour
    MaxDamages      \* bound on the losses of staged files

ASSUME StagedAdoptionAssumption ==
    /\ SceneCount \in Nat \ {0}
    /\ Evidence \in Nat
    /\ Updates \in Nat
    /\ MaxCrashes \in Nat
    /\ MaxDamages \in Nat

Scenes == 1 .. SceneCount
SceneFiles == {"card", "prose", "continuity"}
Directories == {"handoff", "completion"}
ModelStages == {"brief"} \cup SceneFiles \cup Directories
Stages == ModelStages \cup {"commit", "done"}

\* Where the temporary file or directory of an adoption is made.
Places == {"input", "staging"} \cup Directories
PlaceOf(s) == CASE s = "brief" -> "input"
                [] s \in SceneFiles -> "staging"
                [] OTHER -> s

\* Stages that reserve an id for their result before they ask the Provider.
CounterOf == [continuity |-> "generation", completion |-> "completion"]
Reserving == DOMAIN CounterOf

Nothing == 0
NoFiles == [card |-> Nothing, prose |-> Nothing, continuity |-> Nothing]
NoDirectory == [exists |-> FALSE, files |-> NoFiles, commit |-> "absent"]
NoDraws == [evidence |-> <<>>, update |-> <<>>]
-----------------------------------------------------------------------------
VARIABLES
    (* runtime/run-state.json *)
    stage, scene,
    pending,    \* "none" or the phase of the candidate adoption
    active,     \* active_candidate: the accepted candidate
    reserved,   \* pending_commit.reserved: the result id, or Nothing
    result,     \* current_target.result_generation_id
    (* the other files of the workspace *)
    counters,   \* runtime/counters.json: the last id handed out, by kind
    accepted,   \* accepted candidate versions
    ids,        \* the ids each continuity.json written so far holds
    staging,    \* runtime/staging/scene-<id> of the current scene
    temps,      \* temporary entries left or in use, by place
    records,    \* runtime/candidates/scene_continuity/adopted-<id>-v0001
    scenes,     \* scenes/<id>
    finals,     \* input/brief.json, handoffs/<id>, completion/<id>
    orphans,    \* scene staging directories in runtime/orphans
    (* the running step and its environment *)
    pc, draft, draws, crashes, damages

runState == <<stage, scene, pending, active, reserved, result>>
drafts == <<counters, accepted>>
places == <<staging, temps, orphans>>
adopted == <<ids, records, scenes, finals>>
files == <<drafts, places, adopted>>
memory == <<draft, draws>>
faults == <<crashes, damages>>
vars == <<runState, files, memory, pc, faults>>

Init ==
    /\ stage = "brief" /\ scene = 1
    /\ pending = "none"
    /\ active = Nothing /\ reserved = Nothing /\ result = Nothing
    /\ counters = [candidate |-> 0, generation |-> 0, completion |-> 0,
                   evidence |-> 0, update |-> 0]
    /\ accepted = {}
    /\ ids = [s \in Scenes |-> [result |-> Nothing, drawn |-> NoDraws]]
    /\ staging = NoDirectory
    /\ temps = [p \in Places |-> 0]
    /\ records = [s \in Scenes |-> NoFiles]
    /\ scenes = [s \in Scenes |-> NoFiles]
    /\ finals = [f \in {"brief"} \cup Directories |-> Nothing]
    /\ orphans = 0
    /\ pc = "idle" /\ draft = [content |-> Nothing, result |-> Nothing]
    /\ draws = NoDraws
    /\ crashes = 0 /\ damages = 0

AtRest == pc \in {"idle", "raised"}

\* The adopted file of the current stage, if it is there.
Present == IF stage \in SceneFiles THEN staging.files[stage] ELSE finals[stage]

Missing == {f \in SceneFiles : staging.files[f] = Nothing}

(***************************************************************************)
(* What validate_workspace_layout asks: a scene staging begins with its    *)
(* card and has no continuity without prose, except at scene_commit while  *)
(* a file is missing, which the adoption record can replace; handoffs and  *)
(* completion hold nothing but finished directories.                       *)
(***************************************************************************)
Layout ==
    /\ staging.exists =>
        \/ stage = "commit" /\ Missing # {}
        \/ /\ "card" \notin Missing
           /\ "continuity" \notin Missing => "prose" \notin Missing
    /\ \A d \in Directories : temps[d] = 0

Starts == AtRest /\ stage # "done" /\ Layout

\* An existing continuity.json must carry the reserved generation.
SameAsDraft ==
    /\ Present = draft.content
    /\ stage = "continuity" => ids[scene].result = draft.result

\* The conditions under which the running step raises ContractError.
Refused ==
    \/ AtRest /\ stage # "done" /\ ~Layout
    \/ pc = "adopt" /\ Present # Nothing /\ ~SameAsDraft
    \/ pc = "temp" /\ stage = "brief" /\ temps["input"] > 0
    \/ pc = "record" /\ records[scene] \notin {NoFiles, staging.files}
    \/ pc = "finalize" /\ ~Layout
    \/ AtRest /\ stage = "commit" /\ records[scene] = NoFiles
    \/ pc = "commit_file" /\ staging.commit = "torn"
    \/ pc = "commit_scene" /\ temps["staging"] > 0
-----------------------------------------------------------------------------
(* Before the acceptance *)

\* scene_continuity and completion reserve the id of their result first.
ReserveResult ==
    /\ Starts /\ pending = "none" /\ stage \in Reserving
    /\ counters' = [counters EXCEPT ![CounterOf[stage]] = @ + 1]
    /\ draft' = [draft EXCEPT !.result = counters'[CounterOf[stage]]]
    /\ pc' = "reserve_candidate"
    /\ UNCHANGED <<runState, accepted, places, adopted, draws, faults>>

ReserveCandidate ==
    /\ \/ /\ Starts /\ pending = "none"
          /\ stage \in ModelStages \ Reserving
       \/ pc = "reserve_candidate"
    /\ counters' = [counters EXCEPT !.candidate = @ + 1]
    /\ draft' = [draft EXCEPT !.content = counters'.candidate]
    /\ pc' = "accept"
    /\ UNCHANGED <<runState, accepted, places, adopted, draws, faults>>

\* The candidate is published as accepted, and one save names it in
\* active_candidate and pending_commit, with what was reserved for it.
Accept ==
    /\ pc = "accept"
    /\ accepted' = accepted \cup
            {[stage |-> stage, scene |-> scene, content |-> draft.content]}
    /\ pending' = "prepared"
    /\ active' = draft.content
    /\ reserved' = draft.result
    /\ pc' = "adopt"
    /\ UNCHANGED <<stage, scene, result, counters, places, adopted, memory,
                   faults>>
-----------------------------------------------------------------------------
(* Adoption, first or recovered *)

\* A plausible slip: the recovery reserves a result id of its own.
RecoverWithNewResult ==
    /\ Starts /\ pending # "none"
    /\ IF stage \in Reserving
       THEN counters' = [counters EXCEPT ![CounterOf[stage]] = @ + 1]
       ELSE counters' = counters
    /\ draft' = [content |-> active,
                 result |-> IF stage \in Reserving
                            THEN counters'[CounterOf[stage]] ELSE Nothing]
    /\ pc' = "adopt"
    /\ UNCHANGED <<runState, accepted, places, adopted, draws, faults>>

\* A pending adoption is completed from run-state, without the Provider.
Recover ==
    /\ Starts /\ pending # "none"
    /\ draft' = [content |-> active, result |-> reserved]
    /\ pc' = "adopt"
    /\ UNCHANGED <<runState, files, draws, faults>>

\* The file is there already; a continuity still needs its record.
FindAdopted ==
    /\ pc = "adopt" /\ ~Refused
    /\ Present # Nothing
    /\ pc' = IF stage = "continuity" THEN "record" ELSE "finalize"
    /\ UNCHANGED <<runState, files, memory, faults>>

\* mkdir of the scene staging, by the card and the prose.
OpenStaging ==
    /\ pc = "adopt" /\ stage \in {"card", "prose"}
    /\ Present = Nothing
    /\ staging' = [staging EXCEPT !.exists = TRUE]
    /\ pc' = "temp"
    /\ UNCHANGED <<runState, drafts, temps, orphans, adopted, memory, faults>>

StartElsewhere ==
    /\ pc = "adopt" /\ stage \in {"brief"} \cup Directories
    /\ Present = Nothing
    /\ pc' = "temp"
    /\ UNCHANGED <<runState, files, memory, faults>>

StartContinuity ==
    /\ pc = "adopt" /\ stage = "continuity"
    /\ Present = Nothing
    /\ pc' = "draw"
    /\ UNCHANGED <<runState, files, memory, faults>>

\* A plausible slip: the evidence ids are counted up in memory only.
DrawUnsaved(kind, limit) ==
    /\ Len(draws[kind]) < limit
    /\ draws' = [draws EXCEPT ![kind] =
                    Append(@, counters[kind] + Len(@) + 1)]
    /\ counters' = counters

\* One id at a time, the counter saved before the id is used.
Draw(kind, limit) ==
    /\ Len(draws[kind]) < limit
    /\ counters' = [counters EXCEPT ![kind] = @ + 1]
    /\ draws' = [draws EXCEPT ![kind] = Append(@, counters'[kind])]

DrawId ==
    /\ pc = "draw"
    /\ \/ Draw("evidence", Evidence)
       \/ /\ Len(draws.evidence) = Evidence
          /\ Draw("update", Updates)
    /\ UNCHANGED <<runState, accepted, places, adopted, draft, pc, faults>>

DrawnAll ==
    /\ pc = "draw"
    /\ Len(draws.evidence) = Evidence /\ Len(draws.update) = Updates
    /\ pc' = "temp"
    /\ UNCHANGED <<runState, files, memory, faults>>

\* mkstemp or mkdtemp beside the final name; the brief opens one fixed name.
WriteTemp ==
    /\ pc = "temp" /\ ~Refused
    /\ temps' = [temps EXCEPT ![PlaceOf(stage)] = @ + 1]
    /\ pc' = "rename"
    /\ UNCHANGED <<runState, drafts, staging, orphans, adopted, memory, faults>>

\* A plausible slip: the adopter leaves the file that is in its way.
BriefTempStays ==
    /\ pc = "temp" /\ stage = "brief" /\ temps["input"] > 0
    /\ pc' = "raised"
    /\ UNCHANGED <<runState, files, memory, faults>>

\* The fixed name is taken: the adopter raises, and removes it on the way.
BriefTempInTheWay ==
    /\ pc = "temp" /\ stage = "brief" /\ temps["input"] > 0
    /\ temps' = [temps EXCEPT !["input"] = 0]
    /\ pc' = "raised"
    /\ UNCHANGED <<runState, drafts, staging, orphans, adopted, memory, faults>>

Rename ==
    /\ pc = "rename"
    /\ temps' = [temps EXCEPT ![PlaceOf(stage)] = @ - 1]
    /\ IF stage \in SceneFiles
       THEN /\ staging' = [staging EXCEPT !.files[stage] = draft.content]
            /\ UNCHANGED finals
       ELSE /\ finals' = [finals EXCEPT ![stage] = draft.content]
            /\ UNCHANGED staging
    /\ ids' = IF stage = "continuity"
              THEN [ids EXCEPT ![scene] = [result |-> draft.result,
                                           drawn |-> draws]]
              ELSE ids
    /\ pc' = IF stage = "continuity" THEN "record" ELSE "finalize"
    /\ UNCHANGED <<runState, drafts, orphans, records, scenes, memory, faults>>

\* A plausible slip: a continuity found on disk is taken for recorded.
RecordWhenWritten ==
    /\ pc = "record" /\ ~Refused
    /\ records' = IF Len(draws.evidence) = Evidence
                  THEN [records EXCEPT ![scene] = staging.files]
                  ELSE records
    /\ pc' = "finalize"
    /\ UNCHANGED <<runState, drafts, places, ids, scenes, finals, memory,
                   faults>>

\* publish_scene_adoption_record: the three files once more, immutable.
PublishRecord ==
    /\ pc = "record" /\ ~Refused
    /\ records' = [records EXCEPT ![scene] = staging.files]
    /\ pc' = "finalize"
    /\ UNCHANGED <<runState, drafts, places, ids, scenes, finals, memory,
                   faults>>

SaveFinalized ==
    /\ pc = "finalize" /\ ~Refused
    /\ pending' = "artifact_finalized"
    /\ pc' = "advance"
    /\ UNCHANGED <<stage, scene, active, reserved, result, files, memory,
                   faults>>

NextStage == [brief |-> "card", card |-> "prose", prose |-> "continuity",
              continuity |-> "commit", handoff |-> "completion",
              completion |-> "done"]

Advance ==
    /\ pc = "advance"
    /\ stage' = NextStage[stage]
    /\ result' = IF stage = "continuity" THEN draft.result ELSE result
    /\ pending' = "none" /\ active' = Nothing /\ reserved' = Nothing
    /\ pc' = "idle"
    /\ draft' = [content |-> Nothing, result |-> Nothing]
    /\ draws' = NoDraws
    /\ UNCHANGED <<scene, files, faults>>
-----------------------------------------------------------------------------
(* scene_commit, as far as the scene staging is concerned *)

BeginCommit == Starts /\ stage = "commit" /\ ~Refused

KeepStaging ==
    /\ BeginCommit
    /\ staging.exists /\ staging.files = records[scene]
    /\ pc' = "commit_file"
    /\ UNCHANGED <<runState, files, memory, faults>>

\* Whatever is wrong with it goes to the orphans, leftovers and all.
IsolateStaging ==
    /\ BeginCommit
    /\ staging.exists /\ staging.files # records[scene]
    /\ staging' = NoDirectory
    /\ temps' = [temps EXCEPT !["staging"] = 0]
    /\ orphans' = orphans + 1
    /\ pc' = "restore"
    /\ UNCHANGED <<runState, drafts, adopted, memory, faults>>

RestoreStaging ==
    /\ pc = "restore" \/ (BeginCommit /\ ~staging.exists)
    /\ staging' = [exists |-> TRUE, files |-> records[scene],
                   commit |-> "absent"]
    /\ pc' = "commit_file"
    /\ UNCHANGED <<runState, drafts, temps, orphans, adopted, memory, faults>>

\* commit.json is opened under its final name, then filled and synced.
CreateCommitFile ==
    /\ pc = "commit_file" /\ staging.commit = "absent"
    /\ staging' = [staging EXCEPT !.commit = "torn"]
    /\ pc' = "fill"
    /\ UNCHANGED <<runState, drafts, temps, orphans, adopted, memory, faults>>

FillCommitFile ==
    /\ pc = "fill"
    /\ staging' = [staging EXCEPT !.commit = "whole"]
    /\ pc' = "commit_scene"
    /\ UNCHANGED <<runState, drafts, temps, orphans, adopted, memory, faults>>

FindCommitFile ==
    /\ pc = "commit_file" /\ staging.commit = "whole"
    /\ pc' = "commit_scene"
    /\ UNCHANGED <<runState, files, memory, faults>>

\* The directory holds the four files and no other; it becomes the scene and
\* the run goes on to the next one, or to the handoff.
CommitScene ==
    /\ pc = "commit_scene" /\ ~Refused
    /\ scenes' = [scenes EXCEPT ![scene] = staging.files]
    /\ staging' = NoDirectory
    /\ IF scene < SceneCount
       THEN stage' = "card" /\ scene' = scene + 1
       ELSE stage' = "handoff" /\ scene' = scene
    /\ result' = Nothing
    /\ pc' = "idle"
    /\ UNCHANGED <<pending, active, reserved, drafts, temps, orphans, ids,
                   records, finals, memory, faults>>
-----------------------------------------------------------------------------
(* Faults *)

\* The process dies; what it had made stays where it is.
Crash ==
    /\ ~AtRest
    /\ crashes < MaxCrashes
    /\ crashes' = crashes + 1
    /\ pc' = "idle"
    /\ draft' = [content |-> Nothing, result |-> Nothing]
    /\ draws' = NoDraws
    /\ UNCHANGED <<runState, files, damages>>

\* The environment removes a frozen file, or the whole directory, of a scene
\* that waits for its commit.
LoseStaged ==
    /\ AtRest /\ stage = "commit" /\ staging.exists
    /\ damages < MaxDamages
    /\ damages' = damages + 1
    /\ \/ /\ staging' = NoDirectory
          /\ temps' = [temps EXCEPT !["staging"] = 0]
       \/ /\ \E f \in SceneFiles \ Missing :
                staging' = [staging EXCEPT !.files[f] = Nothing]
          /\ UNCHANGED temps
    /\ UNCHANGED <<runState, drafts, orphans, adopted, memory, pc, crashes>>

Raise ==
    /\ Refused /\ pc # "raised"
    /\ ~(pc = "temp" /\ stage = "brief")
    /\ pc' = "raised"
    /\ draft' = [content |-> Nothing, result |-> Nothing]
    /\ draws' = NoDraws
    /\ UNCHANGED <<runState, files, faults>>

\* The run is over, or every further step raises again.
Rest ==
    /\ stage = "done" \/ (pc = "raised" /\ Refused)
    /\ UNCHANGED vars

Adopt == Recover \/ FindAdopted \/ OpenStaging \/ StartElsewhere
         \/ StartContinuity \/ DrawId \/ DrawnAll \/ WriteTemp
         \/ BriefTempInTheWay \/ Rename \/ PublishRecord \/ SaveFinalized
         \/ Advance
Commit == KeepStaging \/ IsolateStaging \/ RestoreStaging
          \/ CreateCommitFile \/ FillCommitFile \/ FindCommitFile
          \/ CommitScene
Step == ReserveResult \/ ReserveCandidate \/ Accept \/ Adopt \/ Commit \/ Raise

Next == Step \/ Crash \/ LoseStaged \/ Rest

Spec == Init /\ [][Next]_vars

\* The command loop, or the operator after a crash or an error, runs the next
\* step, and the Provider answers or fails in the end.
FairSpec == Spec /\ WF_vars(Step)
-----------------------------------------------------------------------------
\* A committed scene is made of an accepted card, an accepted prose and an
\* accepted continuity, and its immutable adoption record, which is there
\* from the moment the scene waits for its commit, holds the same three:
\* whatever is lost from the staging, what is committed is what was adopted.
CommittedIsAdopted ==
    LET drafted == 1 .. scene - 1 \cup
                   (IF stage \in SceneFiles \cup {"brief"} THEN {} ELSE {scene})
    IN
    /\ \A s \in drafted, f \in SceneFiles :
        [stage |-> f, scene |-> s, content |-> records[s][f]] \in accepted
    /\ \A s \in Scenes : scenes[s] \in {NoFiles, records[s]}

\* No generation, evidence or update id is in two continuities, or twice in
\* one, although a crash may throw away ids already drawn; the generation the
\* commit will make is the one the continuity on disk names.
IdsAreDrawnOnce ==
    LET numbers(s, kind) == ids[s].drawn[kind]
    IN
    /\ \A s, t \in Scenes, kind \in {"evidence", "update"} :
        \A i \in DOMAIN numbers(s, kind), j \in DOMAIN numbers(t, kind) :
            /\ numbers(s, kind)[i] = numbers(t, kind)[j] =>
                  s = t /\ i = j
            /\ numbers(s, kind)[i] <= counters[kind]
    /\ \A s, t \in Scenes :
        ids[s].result = ids[t].result => s = t \/ ids[s].result = Nothing
    /\ stage = "commit" =>
            result = ids[scene].result /\ result # Nothing

\* What a dead process can leave that later steps do not get past.
EmptyStaging == stage = "card" /\ staging.exists /\ "card" \in Missing
TempInScene == stage = "commit" /\ temps["staging"] > 0
TornCommit == staging.commit = "torn"
TempDirectory == \E d \in Directories : temps[d] > 0
Leftover == EmptyStaging \/ TempInScene \/ TornCommit \/ TempDirectory

\* A step is refused only for one of these leftovers, or once for the fixed
\* name of the brief's temporary file.
RefusedOnlyForLeftovers ==
    Refused => Leftover \/ (pc = "temp" /\ stage = "brief")

\* Every stage is adopted in the end, however often the process dies, unless
\* such a leftover stays in the way; that of the brief clears itself.
EveryStageIsAdopted == <>(stage = "done") \/ <>[]Leftover
-----------------------------------------------------------------------------
(* The adoptions of the run, in one sequence of positions.  The commit moves *)
(* files that are adopted; at this level it is no position of its own.       *)

\* The position after a continuity, and so during its commit.
AfterCommit(s) == IF s < SceneCount THEN <<"card", s + 1>> ELSE <<"handoff", s>>

Position == IF stage = "commit" THEN AfterCommit(scene) ELSE <<stage, scene>>

Succession ==
    [p \in ModelStages \X Scenes |->
        IF p[1] = "continuity" THEN AfterCommit(p[2])
        ELSE <<NextStage[p[1]], p[2]>>]

\* The position is left behind.
Rank == [brief |-> 0, card |-> 1, prose |-> 2, continuity |-> 3, commit |-> 4,
         handoff |-> 5, completion |-> 6, done |-> 7]
Behind(f, s) ==
    IF f \in SceneFiles THEN s < scene \/ (s = scene /\ Rank[f] < Rank[stage])
    ELSE Rank[f] < Rank[stage] /\ s = IF f = "brief" THEN 1 ELSE SceneCount

\* What was adopted there: of the scene in work the staged file, of one that
\* waits for its commit or is committed the one in the adoption record.
Content(f, s) ==
    IF f \notin SceneFiles THEN finals[f]
    ELSE IF s = scene /\ stage \in SceneFiles THEN staging.files[f]
    ELSE records[s][f]

Atomic == INSTANCE AtomicAdoption WITH
            First <- <<"brief", 1>>,
            Following <- Succession,
            Candidates <- Nat \ {Nothing},
            position <- Position,
            accepted <- {[position |-> <<a.stage, a.scene>>,
                          candidate |-> a.content] : a \in accepted},
            chosen <- IF pending = "none" THEN {} ELSE {active},
            adopted <- {[position |-> p, candidate |-> Content(p[1], p[2])] :
                            p \in {q \in ModelStages \X Scenes : Behind(q[1], q[2])}}

\* Whatever the crashes leave in the directories and the losses take from
\* them, the documents of the run are adopted one after the other, each the
\* candidate that was chosen for it, and none is changed by the adoption of
\* another, by a commit or by the repair of a staging.
ImplementsAtomicAdoption == Atomic!AdoptionSpec
=============================================================================
