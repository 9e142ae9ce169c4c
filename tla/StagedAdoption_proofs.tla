------------------------ MODULE StagedAdoption_proofs ------------------------
(***************************************************************************)
(* Theorems about StagedAdoption, for any number of scenes, of evidence    *)
(* items and updates, and any number of crashes and losses.                *)
(*                                                                         *)
(* What is adopted is decided in memory and in run-state, several writes   *)
(* before it is in its place: the invariants say what each label of the    *)
(* step may count on, and what each stage finds in the directories.        *)
(***************************************************************************)
EXTENDS StagedAdoption, TLAPS

\* The labels of the steps, and the groups of them the invariant speaks of.
Labels == {"idle", "raised", "reserve_candidate", "accept", "adopt", "draw",
           "temp", "rename", "record", "finalize", "advance", "restore",
           "commit_file", "fill", "commit_scene"}
Adopting == {"adopt", "draw", "temp", "rename", "record", "finalize",
             "advance"}
Committing == {"restore", "commit_file", "fill", "commit_scene"}
Kinds == {"evidence", "update"}

Files == [card : Nat, prose : Nat, continuity : Nat]
Draws == [evidence : Seq(Nat), update : Seq(Nat)]

TypeOK ==
    /\ stage \in Stages /\ scene \in Scenes
    /\ pending \in {"none", "prepared", "artifact_finalized"}
    /\ active \in Nat /\ reserved \in Nat /\ result \in Nat
    /\ counters \in [candidate : Nat, generation : Nat, completion : Nat,
                     evidence : Nat, update : Nat]
    /\ accepted \subseteq [stage : ModelStages, scene : Scenes,
                           content : Nat \ {Nothing}]
    /\ ids \in [Scenes -> [result : Nat, drawn : Draws]]
    /\ staging \in [exists : BOOLEAN, files : Files,
                    commit : {"absent", "torn", "whole"}]
    /\ temps \in [Places -> Nat]
    /\ records \in [Scenes -> Files]
    /\ scenes \in [Scenes -> Files]
    /\ finals \in [{"brief"} \cup Directories -> Nat]
    /\ pc \in Labels
    /\ draft \in [content : Nat, result : Nat]
    /\ draws \in Draws

\* The label of the step, run-state and the memory agree.
Control ==
    /\ pc \in {"reserve_candidate", "accept"} =>
            pending = "none" /\ stage \in ModelStages
    /\ pc = "reserve_candidate" => stage \in Reserving
    /\ pc = "accept" => draft.content # Nothing
    /\ pc \in Adopting =>
            /\ pending # "none"
            /\ draft = [content |-> active, result |-> reserved]
    /\ pc \in {"draw", "record"} => stage = "continuity"
    /\ pc \in Committing => stage = "commit" /\ pending = "none"
    /\ pc = "rename" => temps[PlaceOf(stage)] > 0
    /\ draws # NoDraws =>
            /\ stage = "continuity"
            /\ pc \in Adopting \ {"adopt"}

\* The candidate of a pending adoption is an accepted one of this stage.
Pending ==
    pending # "none" =>
        /\ stage \in ModelStages
        /\ active # Nothing
        /\ [stage |-> stage, scene |-> scene, content |-> active] \in accepted

\* The place of the stage's own file is empty until the adoption, and what it
\* holds from then on is the adopted candidate.
Slot ==
    stage \in ModelStages =>
        /\ pending = "none" => Present = Nothing
        /\ Present \in {Nothing, active}
        /\ pc \in {"draw", "temp", "rename"} => Present = Nothing
        /\ pc \in {"record", "finalize", "advance"} => Present # Nothing

\* The files of earlier stages are there, those of later stages are not.
Shelf ==
    /\ stage = "brief" => staging = NoDirectory
    /\ stage \in {"card", "prose"} => staging.files.continuity = Nothing
    /\ stage = "card" => staging.files.prose = Nothing
    /\ stage \in {"prose", "continuity"} => staging.files.card # Nothing
    /\ stage = "continuity" => staging.files.prose # Nothing
    /\ stage \in Directories \cup {"done"} =>
            staging = NoDirectory /\ scene = SceneCount
    /\ stage \notin {"completion", "done"} => finals["completion"] = Nothing
    /\ stage \notin Directories \cup {"done"} => finals["handoff"] = Nothing

\* Every staged file is an accepted candidate of its stage and scene.
Staged ==
    \A f \in SceneFiles :
        staging.files[f] # Nothing =>
            [stage |-> f, scene |-> scene, content |-> staging.files[f]]
                \in accepted

\* The adoption record is written with the last of the three files, the scene
\* after it.
Recorded ==
    /\ \A s \in Scenes :
        \/ s < scene
        \/ s = scene /\ stage \in Directories \cup {"done"}
        \/ scenes[s] = NoFiles
    /\ \A s \in Scenes :
        s > scene \/ (s = scene /\ stage \in {"brief", "card", "prose"}) =>
            records[s] = NoFiles
    /\ stage = "continuity" =>
        \/ records[scene] = NoFiles
        \/ /\ records[scene] = staging.files
           /\ staging.files.continuity # Nothing

\* What the step writes last it has compared, or copied, before.
Copied ==
    /\ stage = "continuity" /\ pc \in {"finalize", "advance"} =>
            records[scene] = staging.files
    /\ pc \in {"commit_file", "fill", "commit_scene"} =>
            records[scene] = staging.files

\* The ids in the hands of the step are handed out, different, and in no
\* continuity but the one being written.
Drawn ==
    \A k \in Kinds :
        /\ \A i \in DOMAIN draws[k] : draws[k][i] <= counters[k]
        /\ \A i, j \in DOMAIN draws[k] : draws[k][i] = draws[k][j] => i = j
        /\ pc \in {"draw", "temp", "rename"} =>
            \A s \in Scenes :
                \A i \in DOMAIN draws[k], j \in DOMAIN ids[s].drawn[k] :
                    draws[k][i] # ids[s].drawn[k][j]

\* The ids of the continuities are handed out and different.
Written ==
    \A s, t \in Scenes, k \in Kinds :
        \A i \in DOMAIN ids[s].drawn[k], j \in DOMAIN ids[t].drawn[k] :
            /\ ids[s].drawn[k][i] = ids[t].drawn[k][j] => s = t /\ i = j
            /\ ids[s].drawn[k][i] <= counters[k]

\* The generation reserved for a continuity is new, and the one it is written
\* and committed with.
Reservation ==
    /\ \A s \in Scenes : ids[s].result <= counters.generation
    /\ stage = "continuity" /\ pc \in {"reserve_candidate", "accept"} =>
        /\ draft.result <= counters.generation
        /\ \A s \in Scenes : ids[s].result < draft.result
    /\ stage = "continuity" /\ pending # "none" =>
        /\ reserved # Nothing /\ reserved <= counters.generation
        /\ \A s \in Scenes : ids[s].result = reserved => s = scene
        /\ Present # Nothing => ids[scene].result = reserved
    /\ \A s, t \in Scenes :
        ids[s].result = ids[t].result => s = t \/ ids[s].result = Nothing
    /\ stage = "commit" =>
            result = ids[scene].result /\ result # Nothing

\* The inductive invariant.
Inductive ==
    /\ TypeOK /\ Control /\ Pending /\ Slot /\ Shelf /\ Staged /\ Recorded
    /\ Copied /\ Drawn /\ Written /\ Reservation /\ CommittedIsAdopted
-----------------------------------------------------------------------------
\* The run starts with the brief, nothing drawn and nothing on disk.
LEMMA InitInductive == Init => Inductive
<1> SUFFICES ASSUME Init PROVE Inductive
  OBVIOUS
<1> USE StagedAdoptionAssumption
<1>1. TypeOK
  BY DEF Init, TypeOK, Stages, ModelStages, SceneFiles, Directories, Scenes,
         Nothing, NoFiles, NoDirectory, NoDraws, Files, Draws, Labels
<1>2. Control /\ Pending /\ Slot /\ Copied
  BY DEF Init, Control, Pending, Slot, Copied, Present, Adopting, Committing,
         SceneFiles, Directories
<1>3. Shelf /\ Staged /\ Recorded
  BY DEF Init, Shelf, Staged, Recorded, SceneFiles, Directories, NoDirectory,
         NoFiles, Nothing
<1>4. Drawn /\ Written /\ Reservation
  BY DEF Init, Drawn, Written, Reservation, NoDraws, Kinds, Nothing
<1>5. CommittedIsAdopted
  BY DEF Init, CommittedIsAdopted
<1>6. QED
  BY <1>1, <1>2, <1>3, <1>4, <1>5 DEF Inductive

-----------------------------------------------------------------------------
\* What was drawn for a continuity are sequences of numbers.
LEMMA DrawnNumbers ==
    ASSUME NEW d \in Draws, NEW k \in Kinds
    PROVE  d[k] \in Seq(Nat) /\ \A i \in DOMAIN d[k] : d[k][i] \in Nat
<1>1. d[k] \in Seq(Nat)
  <2>1. CASE k = "evidence"
    BY <2>1 DEF Draws
  <2>2. CASE k = "update"
    BY <2>2 DEF Draws
  <2>3. QED
    BY <2>1, <2>2 DEF Kinds
<1>2. QED
  BY <1>1

\* A step that leaves the adopted files alone keeps what is said of these.
LEMMA FilesKept ==
    ASSUME Inductive, TypeOK',
           UNCHANGED <<stage, scene, adopted>>,
           staging'.files = staging.files,
           staging' = staging \/ stage \in {"card", "prose", "commit"},
           accepted \subseteq accepted',
           \A k \in Kinds : counters'[k] >= counters[k]
    PROVE  Shelf' /\ Staged' /\ Recorded' /\ Written' /\ CommittedIsAdopted'
<1> USE DEF Inductive
<1>1. Shelf' /\ Recorded'
  BY DEF Shelf, Recorded, adopted, Directories
<1>2. Staged'
  BY DEF Staged
<1>3. Written'
  <2>1. \A s \in Scenes, k \in Kinds : \A i \in DOMAIN ids[s].drawn[k] :
            ids[s].drawn[k][i] \in Nat
    <3>1. \A s \in Scenes : ids[s].drawn \in Draws
      BY DEF TypeOK
    <3>2. QED
      BY <3>1, DrawnNumbers
  <2>2. \A k \in Kinds : counters[k] \in Nat /\ counters'[k] \in Nat
    BY DEF TypeOK, Kinds
  <2>3. QED
    BY <2>1, <2>2 DEF Written, adopted
<1>4. CommittedIsAdopted'
  BY DEF CommittedIsAdopted, adopted
<1>5. QED
  BY <1>1, <1>2, <1>3, <1>4

-----------------------------------------------------------------------------
\* Before the acceptance: ids are reserved, then the candidate is accepted.
LEMMA ReserveInductive ==
    ASSUME Inductive, ReserveResult \/ ReserveCandidate
    PROVE  Inductive'
<1> USE DEF Inductive
<1>1. CASE ReserveResult
  <2>1. /\ pending = "none" /\ stage \in Reserving /\ AtRest
        /\ counters' = [counters EXCEPT ![CounterOf[stage]] = @ + 1]
        /\ draft' = [draft EXCEPT !.result = counters'[CounterOf[stage]]]
        /\ pc' = "reserve_candidate"
        /\ UNCHANGED <<runState, accepted, places, adopted, draws>>
    BY <1>1 DEF ReserveResult, Starts
  <2>2. \/ /\ stage = "continuity"
           /\ counters' = [counters EXCEPT !.generation = @ + 1]
           /\ draft' = [draft EXCEPT !.result = counters.generation + 1]
        \/ /\ stage = "completion"
           /\ counters' = [counters EXCEPT !.completion = @ + 1]
           /\ draft' = [draft EXCEPT !.result = counters.completion + 1]
    <3>1. /\ stage \in {"continuity", "completion"}
          /\ CounterOf["continuity"] = "generation"
          /\ CounterOf["completion"] = "completion"
      BY <2>1 DEF Reserving, CounterOf
    <3>2. CASE stage = "continuity"
      <4>1. counters' = [counters EXCEPT !.generation = @ + 1]
        BY <2>1, <3>1, <3>2
      <4>2. draft' = [draft EXCEPT !.result = counters.generation + 1]
        BY <2>1, <3>1, <3>2, <4>1 DEF TypeOK
      <4>3. QED
        BY <3>2, <4>1, <4>2
    <3>3. CASE stage = "completion"
      <4>1. counters' = [counters EXCEPT !.completion = @ + 1]
        BY <2>1, <3>1, <3>3
      <4>2. draft' = [draft EXCEPT !.result = counters.completion + 1]
        BY <2>1, <3>1, <3>3, <4>1 DEF TypeOK
      <4>3. QED
        BY <3>3, <4>1, <4>2
    <3>4. QED
      BY <3>1, <3>2, <3>3
  <2>3. TypeOK'
    BY <2>1, <2>2 DEF TypeOK, Labels, runState, places, adopted
  <2>4. Shelf' /\ Staged' /\ Recorded' /\ Written' /\ CommittedIsAdopted'
    <3>1. \A k \in Kinds : counters'[k] >= counters[k]
      BY <2>2 DEF TypeOK, Kinds
    <3>2. QED
      BY <2>1, <2>3, <3>1, FilesKept DEF runState, places
  <2>5. Control' /\ Pending' /\ Slot' /\ Copied'
    BY <2>1, <2>2 DEF Control, Pending, Slot, Copied, Present, runState, places,
         adopted, AtRest, Adopting, Committing, ModelStages, SceneFiles,
         Directories
  <2>6. Drawn'
    BY <2>1 DEF Drawn, Control, AtRest, NoDraws, Kinds, Adopting
  <2>7. Reservation'
    BY <2>1, <2>2 DEF Reservation, TypeOK, runState, adopted
  <2>8. QED
    BY <2>3, <2>4, <2>5, <2>6, <2>7
<1>2. CASE ReserveCandidate
  <2>1. /\ pending = "none" /\ stage \in ModelStages
        /\ stage = "continuity" => pc = "reserve_candidate"
        /\ counters' = [counters EXCEPT !.candidate = @ + 1]
        /\ draft' = [draft EXCEPT !.content = counters.candidate + 1]
        /\ pc' = "accept" /\ pc \notin Adopting
        /\ UNCHANGED <<runState, accepted, places, adopted, draws>>
    BY <1>2 DEF ReserveCandidate, Control, TypeOK, Reserving, CounterOf,
         ModelStages, AtRest, Starts, Adopting
  <2>2. TypeOK'
    BY <2>1 DEF TypeOK, Labels, runState, places, adopted
  <2>3. Shelf' /\ Staged' /\ Recorded' /\ Written' /\ CommittedIsAdopted'
    <3>1. \A k \in Kinds : counters'[k] >= counters[k]
      BY <2>1 DEF TypeOK, Kinds
    <3>2. QED
      BY <2>1, <2>2, <3>1, FilesKept DEF runState, places
  <2>4. Control' /\ Pending' /\ Slot' /\ Copied'
    BY <2>1 DEF Control, Pending, Slot, Copied, Present, runState, places,
         adopted, Adopting, Committing, Nothing, TypeOK
  <2>5. Drawn'
    BY <2>1 DEF Drawn, Control, NoDraws, Kinds
  <2>6. Reservation'
    BY <2>1 DEF Reservation, TypeOK, runState, adopted
  <2>7. QED
    BY <2>2, <2>3, <2>4, <2>5, <2>6
<1>3. QED
  BY <1>1, <1>2

\* An accepted draft is one of the accepted candidates, and stays one.
LEMMA AcceptInductive ==
    ASSUME Inductive, Accept
    PROVE  Inductive'
<1> USE DEF Inductive
<1> DEFINE new == [stage |-> stage, scene |-> scene, content |-> draft.content]
<1>1. /\ pc = "accept" /\ pending = "none" /\ stage \in ModelStages
      /\ draft.content # Nothing
      /\ accepted' = accepted \cup {new}
      /\ pending' = "prepared" /\ active' = draft.content
      /\ reserved' = draft.result /\ pc' = "adopt"
      /\ UNCHANGED <<stage, scene, result, counters, places, adopted, draft,
                     draws>>
  BY DEF Accept, Control, memory
<1>2. TypeOK'
  BY <1>1 DEF TypeOK, Labels, places, adopted, Nothing
<1>3. Shelf' /\ Staged' /\ Recorded' /\ Written' /\ CommittedIsAdopted'
  <2>1. \A k \in Kinds : counters'[k] >= counters[k]
    BY <1>1 DEF TypeOK, Kinds
  <2>2. QED
    BY <1>1, <1>2, <2>1, FilesKept DEF places
<1>4. Control' /\ Pending' /\ Slot' /\ Copied'
  BY <1>1 DEF Control, Pending, Slot, Copied, Present, places, adopted,
       Adopting, Committing, TypeOK
<1>5. Drawn'
  BY <1>1 DEF Drawn, Control, NoDraws, Kinds, Adopting
<1>6. Reservation'
  BY <1>1 DEF Reservation, TypeOK, adopted, Slot, Present, Nothing, places
<1>7. QED
  BY <1>2, <1>3, <1>4, <1>5, <1>6

-----------------------------------------------------------------------------
\* Adoption steps that only decide, or make a temporary entry.
LEMMA DecideInductive ==
    ASSUME Inductive,
           \/ Recover \/ FindAdopted \/ OpenStaging \/ StartElsewhere
           \/ StartContinuity \/ DrawnAll \/ WriteTemp \/ BriefTempInTheWay
    PROVE  Inductive'
<1> USE DEF Inductive
<1>1. /\ UNCHANGED <<runState, drafts, orphans, adopted, draws>>
      /\ staging'.files = staging.files
      /\ staging' = staging \/ stage \in {"card", "prose", "commit"}
      /\ pending # "none"
      /\ draft' = [content |-> active, result |-> reserved]
  BY DEF Recover, FindAdopted, OpenStaging, StartElsewhere, StartContinuity,
         DrawnAll, WriteTemp, BriefTempInTheWay, Control, Adopting, files,
         places, memory, TypeOK
<1>2. TypeOK'
  <2>1. PlaceOf(stage) \in Places
    BY <1>1 DEF Pending, PlaceOf, ModelStages, Places, SceneFiles, Directories
  <2>2. temps' \in [Places -> Nat] /\ pc' \in Labels
    <3>1. \/ temps' = temps
          \/ temps' = [temps EXCEPT ![PlaceOf(stage)] = @ + 1]
          \/ temps' = [temps EXCEPT !["input"] = 0]
      BY DEF Recover, FindAdopted, OpenStaging, StartElsewhere,
           StartContinuity, DrawnAll, WriteTemp, BriefTempInTheWay, files,
           places
    <3>2. temps' \in [Places -> Nat]
      BY <2>1, <3>1 DEF TypeOK
    <3>3. pc' \in Labels
      BY DEF Recover, FindAdopted, OpenStaging, StartElsewhere,
           StartContinuity, DrawnAll, WriteTemp, BriefTempInTheWay, Labels
    <3>4. QED
      BY <3>2, <3>3
  <2>3. staging' \in [exists : BOOLEAN, files : Files,
                      commit : {"absent", "torn", "whole"}]
    BY <1>1 DEF Recover, FindAdopted, OpenStaging, StartElsewhere,
         StartContinuity, DrawnAll, WriteTemp, BriefTempInTheWay, files,
         places, TypeOK
  <2>4. QED
    BY <1>1, <2>2, <2>3 DEF TypeOK, runState, drafts, adopted
<1>3. Shelf' /\ Staged' /\ Recorded' /\ Written' /\ CommittedIsAdopted'
  <2>1. \A k \in Kinds : counters'[k] >= counters[k]
    BY <1>1 DEF TypeOK, Kinds, drafts
  <2>2. QED
    BY <1>1, <1>2, <2>1, FilesKept DEF runState, drafts
<1>4. \/ /\ pc \in {"idle", "raised"} /\ pc' = "adopt" /\ temps' = temps
      \/ /\ pc = "adopt" /\ Present # Nothing /\ temps' = temps
         /\ pc' = IF stage = "continuity" THEN "record" ELSE "finalize"
      \/ /\ pc = "adopt" /\ Present = Nothing /\ temps' = temps
         /\ pc' = IF stage = "continuity" THEN "draw" ELSE "temp"
      \/ pc = "draw" /\ pc' = "temp" /\ temps' = temps
      \/ /\ pc = "temp" /\ pc' = "rename"
         /\ temps' = [temps EXCEPT ![PlaceOf(stage)] = @ + 1]
      \/ pc = "temp" /\ pc' = "raised" /\ stage = "brief"
  BY DEF Recover, FindAdopted, OpenStaging, StartElsewhere, StartContinuity,
         DrawnAll, WriteTemp, BriefTempInTheWay, Starts, AtRest, files, places,
         Directories
<1>5. Present' = Present
  BY <1>1 DEF Present, runState, adopted
<1>6. Pending' /\ Slot'
  BY <1>1, <1>4, <1>5 DEF Pending, Slot, runState, drafts
<1>7. Control'
  <2>1. pc' = "rename" => temps'[PlaceOf(stage)] > 0
    <3>1. PlaceOf(stage) \in Places
      BY <1>1 DEF Pending, PlaceOf, ModelStages, Places, SceneFiles, Directories
    <3>2. QED
      BY <1>4, <3>1 DEF TypeOK
  <2>2. PlaceOf(stage') = PlaceOf(stage)
    BY <1>1 DEF runState
  <2>3. draws' # NoDraws =>
            stage' = "continuity" /\ pc' \in Adopting \ {"adopt"}
    BY <1>1, <1>4 DEF Control, Adopting, runState
  <2>4. QED
    BY <1>1, <1>4, <2>1, <2>2, <2>3 DEF Control, runState, Adopting, Committing
<1>8. Copied'
  <2>1. stage = "continuity" => pc' # "finalize"
    BY <1>4 DEF Control
  <2>2. QED
    BY <1>1, <1>4, <2>1 DEF Copied, runState, adopted
<1>9. Drawn'
  <2>1. pc' \in {"draw", "temp", "rename"} =>
            draws = NoDraws \/ pc \in {"draw", "temp", "rename"}
    BY <1>4 DEF Control
  <2>2. QED
    BY <1>1, <2>1 DEF Drawn, NoDraws, Kinds, drafts, adopted
<1>10. Reservation'
  BY <1>1, <1>4, <1>5 DEF Reservation, runState, drafts, adopted
<1>11. QED
  BY <1>2, <1>3, <1>6, <1>7, <1>8, <1>9, <1>10

\* An id is drawn: the counter is above every id handed out.
LEMMA DrawInductive ==
    ASSUME Inductive, DrawId
    PROVE  Inductive'
<1> USE DEF Inductive
<1>1. PICK k \in Kinds :
        /\ counters' = [counters EXCEPT ![k] = @ + 1]
        /\ draws' = [draws EXCEPT ![k] = Append(@, counters'[k])]
  BY DEF DrawId, Draw, Kinds
<1>2. /\ pc = "draw" /\ stage = "continuity" /\ pending # "none"
      /\ pc \in Adopting \ {"adopt"} /\ draws \in Draws
      /\ UNCHANGED <<runState, accepted, places, adopted, draft, pc>>
  BY DEF DrawId, Control, Adopting, TypeOK
<1>3. /\ counters' \in [candidate : Nat, generation : Nat, completion : Nat,
                        evidence : Nat, update : Nat]
      /\ counters'[k] = counters[k] + 1 /\ counters[k] \in Nat
      /\ \A j \in Kinds \ {k} : counters'[j] = counters[j]
      /\ counters'.generation = counters.generation
  <2>1. CASE k = "evidence"
    <3>1. counters' = [counters EXCEPT !.evidence = @ + 1]
      BY <1>1, <2>1
    <3>2. /\ counters' \in [candidate : Nat, generation : Nat,
                            completion : Nat, evidence : Nat, update : Nat]
          /\ counters'["evidence"] = counters["evidence"] + 1
          /\ counters["evidence"] \in Nat
          /\ counters'["update"] = counters["update"]
          /\ counters'.generation = counters.generation
      BY <3>1 DEF TypeOK
    <3>3. QED
      BY <2>1, <3>2 DEF Kinds
  <2>2. CASE k = "update"
    <3>1. counters' = [counters EXCEPT !.update = @ + 1]
      BY <1>1, <2>2
    <3>2. /\ counters' \in [candidate : Nat, generation : Nat,
                            completion : Nat, evidence : Nat, update : Nat]
          /\ counters'["update"] = counters["update"] + 1
          /\ counters["update"] \in Nat
          /\ counters'["evidence"] = counters["evidence"]
          /\ counters'.generation = counters.generation
      BY <3>1 DEF TypeOK
    <3>3. QED
      BY <2>2, <3>2 DEF Kinds
  <2>3. QED
    BY <2>1, <2>2 DEF Kinds
<1>4. /\ draws'[k] = Append(draws[k], counters[k] + 1)
      /\ \A j \in Kinds \ {k} : draws'[j] = draws[j]
      /\ draws' \in Draws
  <2>1. draws[k] \in Seq(Nat) /\ Append(draws[k], counters[k] + 1) \in Seq(Nat)
    BY <1>2, <1>3, DrawnNumbers
  <2>2. CASE k = "evidence"
    <3>1. draws' = [draws EXCEPT !.evidence =
                        Append(draws.evidence, counters.evidence + 1)]
      BY <1>1, <1>3, <2>2
    <3>2. draws.update \in Seq(Nat)
      BY <1>2 DEF Draws
    <3>3. draws' \in Draws
      BY <1>2, <2>1, <2>2, <3>1, <3>2 DEF Draws
    <3>4. /\ draws'["evidence"] = Append(draws["evidence"], counters["evidence"] + 1)
          /\ draws'["update"] = draws["update"]
      BY <1>2, <3>1 DEF Draws
    <3>5. QED
      BY <2>2, <3>3, <3>4 DEF Kinds
  <2>3. CASE k = "update"
    <3>1. draws' = [draws EXCEPT !.update =
                        Append(draws.update, counters.update + 1)]
      BY <1>1, <1>3, <2>3
    <3>2. draws.evidence \in Seq(Nat)
      BY <1>2 DEF Draws
    <3>3. draws' \in Draws
      BY <1>2, <2>1, <2>3, <3>1, <3>2 DEF Draws
    <3>4. /\ draws'["update"] = Append(draws["update"], counters["update"] + 1)
          /\ draws'["evidence"] = draws["evidence"]
      BY <1>2, <3>1 DEF Draws
    <3>5. QED
      BY <2>3, <3>3, <3>4 DEF Kinds
  <2>4. QED
    BY <2>2, <2>3 DEF Kinds
<1>5. TypeOK'
  BY <1>2, <1>3, <1>4 DEF TypeOK, runState, places, adopted
<1>6. Shelf' /\ Staged' /\ Recorded' /\ Written' /\ CommittedIsAdopted'
  <2>1. \A j \in Kinds : counters'[j] >= counters[j]
    BY <1>3 DEF TypeOK, Kinds
  <2>2. QED
    BY <1>2, <1>5, <2>1, FilesKept DEF runState, places
<1>7. Control' /\ Pending' /\ Slot' /\ Copied'
  BY <1>2 DEF Control, Pending, Slot, Copied, Present, runState, places,
       adopted
<1>8. Drawn'
  <2>1. ASSUME NEW j \in Kinds, j # k
        PROVE  /\ \A i \in DOMAIN draws'[j] : draws'[j][i] <= counters'[j]
               /\ \A i, m \in DOMAIN draws'[j] :
                     draws'[j][i] = draws'[j][m] => i = m
               /\ \A s \in Scenes :
                    \A i \in DOMAIN draws'[j], m \in DOMAIN ids'[s].drawn[j] :
                        draws'[j][i] # ids'[s].drawn[j][m]
    BY <1>2, <1>3, <1>4, <2>1 DEF Drawn, adopted
  <2>2. /\ draws[k] \in Seq(Nat)
        /\ \A i \in DOMAIN draws[k] :
              draws[k][i] \in Nat /\ draws[k][i] <= counters[k]
    BY <1>2, DrawnNumbers DEF Drawn
  <2>3. \A i \in DOMAIN draws'[k] :
          \/ i \in DOMAIN draws[k] /\ draws'[k][i] = draws[k][i]
          \/ i = Len(draws[k]) + 1 /\ draws'[k][i] = counters[k] + 1
    BY <1>3, <1>4, <2>2
  <2>4. /\ \A i \in DOMAIN draws'[k] : draws'[k][i] <= counters'[k]
        /\ \A i, m \in DOMAIN draws'[k] : draws'[k][i] = draws'[k][m] => i = m
    <3>1. \A i, m \in DOMAIN draws[k] : draws[k][i] = draws[k][m] => i = m
      BY DEF Drawn
    <3>2. \A i \in DOMAIN draws[k] : draws[k][i] # counters[k] + 1
      BY <1>3, <2>2
    <3>3. \A i \in DOMAIN draws'[k] : draws'[k][i] <= counters'[k]
      <4>1. SUFFICES ASSUME NEW i \in DOMAIN draws'[k]
                     PROVE  draws'[k][i] <= counters'[k]
        OBVIOUS
      <4>2. CASE i \in DOMAIN draws[k] /\ draws'[k][i] = draws[k][i]
        <5>1. draws[k][i] \in Nat /\ draws[k][i] <= counters[k]
          BY <2>2, <4>2
        <5>2. QED
          BY <1>3, <4>2, <5>1
      <4>3. CASE draws'[k][i] = counters[k] + 1
        BY <1>3, <4>3
      <4>4. QED
        BY <2>3, <4>2, <4>3
    <3>4. \A i, m \in DOMAIN draws'[k] : draws'[k][i] = draws'[k][m] => i = m
      <4> DEFINE old == draws[k]
                 now == draws'[k]
                 n == counters[k] + 1
                 last == Len(draws[k]) + 1
      <4>1. \A i \in DOMAIN now : \/ i \in DOMAIN old /\ now[i] = old[i]
                                  \/ i = last /\ now[i] = n
        BY <2>3
      <4>2. \A i \in DOMAIN old : old[i] # n
        BY <3>2
      <4>3. \A i, m \in DOMAIN old : old[i] = old[m] => i = m
        BY <3>1
      <4> HIDE DEF old, now, n, last
      <4>4. \A i, m \in DOMAIN now : now[i] = now[m] => i = m
        BY <4>1, <4>2, <4>3
      <4>5. QED
        BY <4>4 DEF now
    <3>5. QED
      BY <3>3, <3>4
  <2>5. \A s \in Scenes : \A m \in DOMAIN ids[s].drawn[k] :
            ids[s].drawn[k][m] \in Nat /\ ids[s].drawn[k][m] <= counters[k]
    <3>1. \A s \in Scenes : ids[s].drawn \in Draws
      BY DEF TypeOK
    <3>2. QED
      BY <3>1, DrawnNumbers DEF Written
  <2>6. \A s \in Scenes :
          \A i \in DOMAIN draws'[k], m \in DOMAIN ids'[s].drawn[k] :
              draws'[k][i] # ids'[s].drawn[k][m]
    <3>1. ids' = ids
      BY <1>2 DEF adopted
    <3>2. \A s \in Scenes :
            \A i \in DOMAIN draws[k], m \in DOMAIN ids[s].drawn[k] :
                draws[k][i] # ids[s].drawn[k][m]
      BY <1>2 DEF Drawn
    <3>3. \A s \in Scenes : \A m \in DOMAIN ids[s].drawn[k] :
                counters[k] + 1 # ids[s].drawn[k][m]
      BY <1>3, <2>5
    <3>4. TAKE s \in Scenes
    <3>5. TAKE i \in DOMAIN draws'[k], m \in DOMAIN ids'[s].drawn[k]
    <3>6. m \in DOMAIN ids[s].drawn[k] /\ ids'[s].drawn[k] = ids[s].drawn[k]
      BY <3>1
    <3>7. QED
      BY <2>3, <3>2, <3>3, <3>6
  <2>7. QED
    BY <2>1, <2>4, <2>6 DEF Drawn
<1>9. Reservation'
  BY <1>2, <1>3 DEF Reservation, Present, runState, places, adopted
<1>10. QED
  BY <1>5, <1>6, <1>7, <1>8, <1>9

\* The file takes its final name: in the staging for the three files of a
\* scene, of its own for the others.
LEMMA RenameInductive ==
    ASSUME Inductive, Rename
    PROVE  Inductive'
<1> USE DEF Inductive
<1>1. /\ pc = "rename" /\ pending # "none" /\ stage \in ModelStages
      /\ draft.content = active /\ active # Nothing /\ active \in Nat
      /\ draft.result = reserved /\ reserved \in Nat
      /\ PlaceOf(stage) \in Places /\ temps[PlaceOf(stage)] > 0
      /\ Present = Nothing
      /\ temps' = [temps EXCEPT ![PlaceOf(stage)] = @ - 1]
      /\ UNCHANGED <<runState, drafts, orphans, records, scenes, memory>>
      /\ [stage |-> stage, scene |-> scene, content |-> active] \in accepted
  <2>1. pc = "rename" /\ pending # "none" /\ stage \in ModelStages
    BY DEF Rename, Control, Adopting, Pending
  <2>2. PlaceOf(stage) \in Places
    BY <2>1 DEF PlaceOf, ModelStages, Places, SceneFiles, Directories
  <2>3. Present = Nothing
    BY <2>1 DEF Slot
  <2>4. QED
    BY <2>1, <2>2, <2>3 DEF Rename, Control, Adopting, Pending, TypeOK
<1>2. temps' \in [Places -> Nat]
  BY <1>1 DEF TypeOK
<1>3. CASE stage \in SceneFiles
  <2>1. /\ staging' = [staging EXCEPT !.files[stage] = active]
        /\ finals' = finals
        /\ pc' = IF stage = "continuity" THEN "record" ELSE "finalize"
        /\ ids' = IF stage = "continuity"
                  THEN [ids EXCEPT ![scene] = [result |-> reserved,
                                               drawn |-> draws]]
                  ELSE ids
    BY <1>1, <1>3 DEF Rename
  <2>2. /\ staging' \in [exists : BOOLEAN, files : Files,
                         commit : {"absent", "torn", "whole"}]
        /\ staging'.files[stage] = active
        /\ \A f \in SceneFiles \ {stage} : staging'.files[f] = staging.files[f]
    <3>1. staging.files \in Files
      BY DEF TypeOK
    <3>2. CASE stage = "card"
      BY <1>1, <2>1, <3>1, <3>2 DEF TypeOK, Files, SceneFiles
    <3>3. CASE stage = "prose"
      BY <1>1, <2>1, <3>1, <3>3 DEF TypeOK, Files, SceneFiles
    <3>4. CASE stage = "continuity"
      BY <1>1, <2>1, <3>1, <3>4 DEF TypeOK, Files, SceneFiles
    <3>5. QED
      BY <1>3, <3>2, <3>3, <3>4 DEF SceneFiles
  <2>3. TypeOK'
    <3>1. ids' \in [Scenes -> [result : Nat, drawn : Draws]]
      BY <1>1, <2>1 DEF TypeOK
    <3>2. QED
      BY <1>1, <1>2, <2>1, <2>2, <3>1 DEF TypeOK, runState, drafts, memory,
         Labels
  <2>4. Present' = active
    BY <1>1, <1>3, <2>2 DEF Present, runState
  <2>5. Control' /\ Pending' /\ Slot'
    BY <1>1, <1>3, <2>1, <2>4 DEF Control, Pending, Slot, runState, drafts,
       memory, Adopting, Committing, SceneFiles
  <2>6. Shelf' /\ Staged'
    BY <1>1, <1>3, <2>1, <2>2 DEF Shelf, Staged, runState, drafts, SceneFiles,
       Directories
  <2>7. Recorded' /\ Copied'
    <3>1. stage = "continuity" => records[scene] = NoFiles
      BY <1>1 DEF Recorded, Present, SceneFiles
    <3>2. QED
      BY <1>1, <1>3, <2>1, <3>1 DEF Recorded, Copied, runState, SceneFiles,
         Directories
  <2>8. CommittedIsAdopted'
    BY <1>1 DEF CommittedIsAdopted, runState, drafts
  <2>9. Drawn' /\ Written'
    BY <1>1, <2>1 DEF Drawn, Written, drafts, memory, runState, TypeOK
  <2>10. Reservation'
    BY <1>1, <1>3, <2>1, <2>4 DEF Reservation, drafts, memory, runState,
       SceneFiles, TypeOK
  <2>11. QED
    BY <2>3, <2>5, <2>6, <2>7, <2>8, <2>9, <2>10
<1>4. CASE stage \notin SceneFiles
  <2>1. /\ stage \in {"brief"} \cup Directories
        /\ stage \in {"brief", "handoff", "completion"}
        /\ finals' = [finals EXCEPT ![stage] = active]
        /\ pc' = "finalize"
        /\ UNCHANGED <<staging, ids>>
    BY <1>1, <1>4 DEF Rename, ModelStages, SceneFiles, Directories
  <2>2. TypeOK'
    BY <1>1, <1>2, <2>1 DEF TypeOK, runState, drafts, memory, Labels
  <2>3. Present' = active
    BY <1>1, <1>4, <2>1 DEF Present, runState, TypeOK
  <2>4. Control' /\ Pending' /\ Slot'
    BY <1>1, <1>4, <2>1, <2>3 DEF Control, Pending, Slot, runState, drafts,
       memory, Adopting, Committing, SceneFiles, Directories
  <2>5. Shelf' /\ Staged'
    BY <1>1, <2>1 DEF Shelf, Staged, runState, drafts, Directories, TypeOK
  <2>6. Recorded' /\ Copied' /\ CommittedIsAdopted'
    BY <1>1, <2>1 DEF Recorded, Copied, CommittedIsAdopted, runState, drafts
  <2>7. Drawn' /\ Written'
    BY <1>1, <2>1 DEF Drawn, Written, drafts, memory
  <2>8. Reservation'
    BY <1>1, <2>1 DEF Reservation, drafts, memory, runState
  <2>9. QED
    BY <2>2, <2>4, <2>5, <2>6, <2>7, <2>8
<1>5. QED
  BY <1>3, <1>4

\* The record is written once the three files are there.
LEMMA RecordInductive ==
    ASSUME Inductive, PublishRecord
    PROVE  Inductive'
<1> USE DEF Inductive
<1>1. /\ pc = "record" /\ stage = "continuity" /\ pending # "none"
      /\ Present # Nothing
      /\ records' = [records EXCEPT ![scene] = staging.files]
      /\ pc' = "finalize"
      /\ UNCHANGED <<runState, drafts, places, ids, scenes, finals, memory>>
  <2>1. pc = "record" /\ stage = "continuity" /\ pending # "none"
    BY DEF PublishRecord, Control, Adopting
  <2>2. Present # Nothing
    BY <2>1 DEF Slot, ModelStages, SceneFiles
  <2>3. QED
    BY <2>1, <2>2 DEF PublishRecord
<1>2. /\ staging.files \in Files
      /\ \A f \in SceneFiles : staging.files[f] # Nothing
  BY <1>1 DEF TypeOK, Shelf, Present, SceneFiles
<1>3. TypeOK'
  BY <1>1, <1>2 DEF TypeOK, runState, drafts, places, memory, Labels
<1>4. Control' /\ Pending' /\ Slot'
  BY <1>1 DEF Control, Pending, Slot, Present, runState, drafts, places,
     memory, Adopting, Committing
<1>5. Shelf' /\ Staged'
  BY <1>1 DEF Shelf, Staged, runState, drafts, places
<1>6. /\ records'[scene] = staging.files
      /\ \A s \in Scenes \ {scene} : records'[s] = records[s]
      /\ scene \in Nat /\ \A s \in Scenes : s \in Nat
  BY <1>1 DEF TypeOK, Scenes
<1>7. Recorded'
  <2>1. \A s \in Scenes : s > scene => records'[s] = NoFiles
    BY <1>6 DEF Recorded
  <2>2. \A s \in Scenes : s < scene \/ scenes[s] = NoFiles
    BY <1>1 DEF Recorded, Directories
  <2>3. staging.files.continuity # Nothing
    BY <1>2 DEF SceneFiles
  <2>4. UNCHANGED <<stage, scene, scenes, staging>>
    BY <1>1 DEF runState, places
  <2>5. QED
    BY <1>1, <1>6, <2>1, <2>2, <2>3, <2>4 DEF Recorded
<1>8. Copied'
  BY <1>1, <1>6 DEF Copied, runState, places
<1>9. CommittedIsAdopted'
  <2>1. \A s \in 1 .. scene - 1 : records'[s] = records[s] /\ s \in Scenes
    BY <1>6, StagedAdoptionAssumption DEF Scenes, TypeOK
  <2>2. \A s \in Scenes : scenes[s] \in {NoFiles, records'[s]}
    <3>1. scenes[scene] = NoFiles
      BY <1>1, <1>6 DEF Recorded, TypeOK, Directories
    <3>2. \A s \in Scenes : scenes[s] \in {NoFiles, records[s]}
      BY DEF CommittedIsAdopted
    <3>3. QED
      BY <1>6, <3>1, <3>2
  <2>3. UNCHANGED <<stage, scene, scenes, accepted>>
    BY <1>1 DEF runState, drafts
  <2>4. QED
    BY <1>1, <2>1, <2>2, <2>3 DEF CommittedIsAdopted, SceneFiles
<1>10. Drawn' /\ Written' /\ Reservation'
  BY <1>1 DEF Drawn, Written, Reservation, Present, drafts, memory, runState,
     places
<1>11. QED
  BY <1>3, <1>4, <1>5, <1>7, <1>8, <1>9, <1>10

\* The adoption is marked in run-state; then the run goes on to the stage
\* whose own place is empty.
LEMMA FinalizeInductive ==
    ASSUME Inductive, SaveFinalized \/ Advance
    PROVE  Inductive'
<1> USE DEF Inductive
<1>1. /\ pc \in {"finalize", "advance"} /\ pending # "none"
      /\ stage \in ModelStages /\ Present # Nothing
      /\ draft.result = reserved
  BY DEF SaveFinalized, Advance, Control, Pending, Slot, Adopting
<1>2. CASE SaveFinalized
  <2>1. /\ pc' = "advance" /\ pending' = "artifact_finalized"
        /\ UNCHANGED <<stage, scene, active, reserved, result, files, memory>>
    BY <1>2 DEF SaveFinalized
  <2>2. TypeOK'
    BY <2>1 DEF TypeOK, files, drafts, places, adopted, memory, Labels
  <2>3. Shelf' /\ Staged' /\ Recorded' /\ Written' /\ CommittedIsAdopted'
    <3>1. \A k \in Kinds : counters'[k] >= counters[k]
      BY <2>1 DEF TypeOK, Kinds, files, drafts
    <3>2. QED
      BY <2>1, <2>2, <3>1, FilesKept DEF files, drafts, places
  <2>4. Control' /\ Pending' /\ Slot' /\ Copied'
    BY <1>1, <2>1 DEF Control, Pending, Slot, Copied, Present, files, drafts,
       places, adopted, memory, Adopting, Committing
  <2>5. Drawn' /\ Reservation'
    BY <1>1, <2>1 DEF Drawn, Reservation, Present, files, drafts, places,
       adopted, memory
  <2>6. QED
    BY <2>2, <2>3, <2>4, <2>5
<1>3. CASE Advance
  <2>1. /\ pc' = "idle" /\ pending' = "none"
        /\ active' = Nothing /\ reserved' = Nothing
        /\ draft' = [content |-> Nothing, result |-> Nothing]
        /\ draws' = NoDraws
        /\ result' = IF stage = "continuity" THEN reserved ELSE result
        /\ UNCHANGED <<scene, files>>
    BY <1>1, <1>3 DEF Advance
  <2>2. \/ stage = "brief" /\ stage' = "card"
        \/ stage = "card" /\ stage' = "prose"
        \/ stage = "prose" /\ stage' = "continuity"
        \/ stage = "continuity" /\ stage' = "commit"
        \/ stage = "handoff" /\ stage' = "completion"
        \/ stage = "completion" /\ stage' = "done"
    BY <1>1, <1>3 DEF Advance, NextStage, ModelStages, SceneFiles, Directories
  <2>3. TypeOK'
    <3>1. stage' \in Stages
      BY <2>2 DEF Stages, ModelStages, SceneFiles, Directories
    <3>2. NoDraws \in Draws /\ Nothing \in Nat
      BY DEF NoDraws, Draws, Nothing
    <3>3. /\ active' \in Nat /\ reserved' \in Nat /\ result' \in Nat
          /\ draft' \in [content : Nat, result : Nat] /\ draws' \in Draws
      BY <2>1, <3>2 DEF TypeOK
    <3>4. QED
      BY <2>1, <3>1, <3>3 DEF TypeOK, files, drafts, places, adopted, Labels
  <2>4. Control' /\ Pending' /\ Copied'
    BY <2>1, <2>2 DEF Control, Pending, Copied, Adopting, Committing
  <2>5. Shelf'
    BY <1>1, <2>1, <2>2 DEF Shelf, Present, files, places, adopted,
       SceneFiles, Directories, NoDirectory, NoFiles
  <2>6. Slot'
    <3>1. UNCHANGED <<staging, finals>>
      BY <2>1 DEF files, places, adopted
    <3>2. stage' \in ModelStages => Present' = Nothing
      <4>1. CASE stage' \in {"card", "prose", "continuity"}
        BY <2>2, <3>1, <4>1 DEF Shelf, Present, SceneFiles, NoDirectory,
           NoFiles
      <4>2. CASE stage' \in {"commit", "completion", "done"}
        BY <2>2, <3>1, <4>2 DEF Shelf, Present, SceneFiles, ModelStages,
           Directories
      <4>3. QED
        BY <2>2, <4>1, <4>2
    <3>3. QED
      BY <2>1, <3>2 DEF Slot
  <2>7. Staged' /\ Written'
    BY <2>1 DEF Staged, Written, files, drafts, places, adopted
  <2>8. Recorded'
    <3>1. UNCHANGED <<scene, scenes, records>>
      BY <2>1 DEF files, adopted
    <3>2. \A s \in Scenes : \/ s < scene
                            \/ s = scene /\ stage' \in Directories \cup {"done"}
                            \/ scenes[s] = NoFiles
      BY <2>2 DEF Recorded, Directories
    <3>3. \A s \in Scenes :
            \/ s > scene
            \/ s = scene /\ stage' \in {"brief", "card", "prose", "continuity"}
            => records[s] = NoFiles
      BY <2>2 DEF Recorded
    <3>4. scene \in Scenes
      BY DEF TypeOK
    <3>5. QED
      BY <2>1, <3>1, <3>2, <3>3, <3>4 DEF Recorded
  <2>9. CommittedIsAdopted'
    <3>1. CASE stage = "continuity"
      <4>1. /\ records[scene] = staging.files
            /\ \A f \in SceneFiles : staging.files[f] # Nothing
        BY <1>1, <3>1 DEF Copied, Shelf, Present, SceneFiles
      <4>2. QED
        BY <2>1, <3>1, <4>1 DEF CommittedIsAdopted, Staged, files, drafts,
           adopted, SceneFiles, Scenes, TypeOK
    <3>2. CASE stage # "continuity"
      BY <2>1, <2>2, <3>2 DEF CommittedIsAdopted, files, drafts, adopted,
         SceneFiles
    <3>3. QED
      BY <3>1, <3>2
  <2>10. Drawn'
    BY <2>1 DEF Drawn, NoDraws, Kinds
  <2>11. Reservation'
    BY <1>1, <2>1, <2>2 DEF Reservation, files, drafts, places, adopted, Nothing
  <2>12. QED
    BY <2>3, <2>4, <2>5, <2>6, <2>7, <2>8, <2>9, <2>10, <2>11
<1>4. QED
  BY <1>2, <1>3

-----------------------------------------------------------------------------
\* The commit of a scene, as far as its staging is concerned.
LEMMA StagingInductive ==
    ASSUME Inductive,
           \/ KeepStaging \/ IsolateStaging \/ RestoreStaging
           \/ CreateCommitFile \/ FillCommitFile \/ FindCommitFile
    PROVE  Inductive'
<1> USE DEF Inductive
<1>1. /\ stage = "commit" /\ pending = "none" /\ draws = NoDraws
      /\ pc \notin Adopting
      /\ UNCHANGED <<runState, drafts, adopted, memory>>
  BY DEF KeepStaging, IsolateStaging, RestoreStaging, CreateCommitFile,
     FillCommitFile, FindCommitFile, BeginCommit, Starts, AtRest, Control,
     Pending, ModelStages, SceneFiles, Directories, Committing, Adopting,
     files, places
<1>2. /\ pc' \in Committing
      /\ \/ staging'.files = staging.files
         \/ staging' = NoDirectory
         \/ staging'.files = records[scene]
      /\ pc' # "restore" => staging'.files = records[scene]
  BY <1>1 DEF KeepStaging, IsolateStaging, RestoreStaging, CreateCommitFile,
     FillCommitFile, FindCommitFile, Committing, Copied, files, places, TypeOK
<1>3. \A f \in SceneFiles :
          [stage |-> f, scene |-> scene, content |-> records[scene][f]]
              \in accepted
  BY <1>1 DEF CommittedIsAdopted, SceneFiles
<1>4. TypeOK'
  <2>1. staging' \in [exists : BOOLEAN, files : Files,
                      commit : {"absent", "torn", "whole"}]
    <3>1. records[scene] \in Files /\ NoDirectory.files \in Files
      BY DEF TypeOK, NoDirectory, NoFiles, Files, Nothing
    <3>2. NoDirectory \in [exists : BOOLEAN, files : Files,
                           commit : {"absent", "torn", "whole"}]
      BY <3>1 DEF NoDirectory
    <3>3. \/ staging' \in {staging, NoDirectory}
          \/ staging' = [exists |-> TRUE, files |-> records[scene],
                         commit |-> "absent"]
          \/ staging' = [staging EXCEPT !.commit = "torn"]
          \/ staging' = [staging EXCEPT !.commit = "whole"]
      BY DEF KeepStaging, IsolateStaging, RestoreStaging, CreateCommitFile,
         FillCommitFile, FindCommitFile, files, places
    <3>4. [exists |-> TRUE, files |-> records[scene], commit |-> "absent"]
             \in [exists : BOOLEAN, files : Files,
                  commit : {"absent", "torn", "whole"}]
      BY <3>1
    <3>5. /\ [staging EXCEPT !.commit = "torn"]
                \in [exists : BOOLEAN, files : Files,
                     commit : {"absent", "torn", "whole"}]
          /\ [staging EXCEPT !.commit = "whole"]
                \in [exists : BOOLEAN, files : Files,
                     commit : {"absent", "torn", "whole"}]
      BY DEF TypeOK
    <3>6. QED
      BY <3>2, <3>3, <3>4, <3>5 DEF TypeOK
  <2>2. temps' \in [Places -> Nat]
    BY DEF KeepStaging, IsolateStaging, RestoreStaging, CreateCommitFile,
       FillCommitFile, FindCommitFile, files, places, TypeOK
  <2>3. QED
    BY <1>1, <1>2, <2>1, <2>2 DEF TypeOK, runState, drafts, adopted, memory,
       Labels, Committing
<1>5. Staged'
  BY <1>1, <1>2, <1>3 DEF Staged, runState, drafts, NoDirectory, NoFiles,
     SceneFiles
<1>6. Control' /\ Pending' /\ Slot' /\ Copied'
  BY <1>1, <1>2 DEF Control, Pending, Slot, Copied, runState, drafts, adopted,
     memory, Committing, Adopting, ModelStages, SceneFiles, Directories
<1>7. Shelf' /\ Recorded' /\ CommittedIsAdopted'
  BY <1>1 DEF Shelf, Recorded, CommittedIsAdopted, runState, drafts, adopted,
     Directories
<1>8. Drawn' /\ Written' /\ Reservation'
  BY <1>1, <1>2 DEF Drawn, Written, Reservation, runState, drafts, adopted,
     memory, Committing
<1>9. QED
  BY <1>4, <1>5, <1>6, <1>7, <1>8

\* The staging becomes the scene; the next scene, or the handoff, finds its
\* place empty.
LEMMA CommitSceneInductive ==
    ASSUME Inductive, CommitScene
    PROVE  Inductive'
<1> USE DEF Inductive
<1>1. /\ pc = "commit_scene" /\ stage = "commit" /\ pending = "none"
      /\ draws = NoDraws
      /\ scenes' = [scenes EXCEPT ![scene] = staging.files]
      /\ staging.files = records[scene]
      /\ staging' = NoDirectory
      /\ result' = Nothing /\ pc' = "idle"
      /\ UNCHANGED <<pending, active, reserved, drafts, temps, orphans, ids,
                     records, finals, memory>>
  BY DEF CommitScene, Control, Committing, Copied
<1>2. \/ scene < SceneCount /\ stage' = "card" /\ scene' = scene + 1
      \/ scene = SceneCount /\ stage' = "handoff" /\ scene' = scene
  BY StagedAdoptionAssumption DEF CommitScene, TypeOK, Scenes
<1>3. /\ scene \in Scenes /\ scene' \in Scenes
      /\ SceneCount \in Nat /\ \A s \in Scenes : s \in Nat
      /\ staging.files \in Files
  BY <1>2, StagedAdoptionAssumption DEF TypeOK, Scenes
<1>4. TypeOK'
  <2>1. NoDirectory \in [exists : BOOLEAN, files : Files,
                         commit : {"absent", "torn", "whole"}]
    <3>1. NoFiles \in Files
      BY DEF NoFiles, Files, Nothing
    <3>2. QED
      BY <3>1 DEF NoDirectory
  <2>2. stage' \in Stages
    BY <1>2 DEF Stages, ModelStages, SceneFiles, Directories
  <2>3. scenes' \in [Scenes -> Files]
    BY <1>1, <1>3 DEF TypeOK
  <2>4. QED
    BY <1>1, <1>3, <2>1, <2>2, <2>3 DEF TypeOK, drafts, memory, Labels, Nothing
<1>5. Control' /\ Pending' /\ Copied'
  BY <1>1, <1>2 DEF Control, Pending, Copied, memory, Adopting, Committing
<1>6. Shelf' /\ Slot' /\ Staged'
  BY <1>1, <1>2 DEF Shelf, Slot, Staged, Present, NoDirectory, NoFiles,
     SceneFiles, Directories
<1>7. Recorded'
  <2>1. /\ \A s \in Scenes : s > scene => records[s] = NoFiles
        /\ \A s \in Scenes : s < scene \/ s = scene \/ scenes[s] = NoFiles
    BY <1>1 DEF Recorded, Directories
  <2>2. \A s \in Scenes \ {scene} : scenes'[s] = scenes[s]
    BY <1>1, <1>3 DEF TypeOK
  <2>3. QED
    BY <1>1, <1>2, <1>3, <2>1, <2>2 DEF Recorded, Directories
<1>8. CommittedIsAdopted'
  <2>1. /\ \A s \in 1 .. scene - 1 \cup {scene}, f \in SceneFiles :
              [stage |-> f, scene |-> s, content |-> records[s][f]] \in accepted
        /\ \A s \in Scenes : scenes[s] \in {NoFiles, records[s]}
    BY <1>1 DEF CommittedIsAdopted, SceneFiles
  <2>2. \A s \in Scenes : scenes'[s] \in {NoFiles, records[s]}
    BY <1>1, <1>3, <2>1 DEF TypeOK
  <2>3. 1 .. scene' - 1 \subseteq 1 .. scene - 1 \cup {scene}
    BY <1>2, <1>3
  <2>4. stage' \in SceneFiles \/ scene' = scene
    BY <1>2 DEF SceneFiles
  <2>5. QED
    BY <1>1, <2>1, <2>2, <2>3, <2>4 DEF CommittedIsAdopted, drafts
<1>9. Drawn' /\ Written' /\ Reservation'
  BY <1>1, <1>2 DEF Drawn, Written, Reservation, drafts, memory
<1>10. QED
  BY <1>4, <1>5, <1>6, <1>7, <1>8, <1>9

-----------------------------------------------------------------------------
\* Deaths, errors and losses.
LEMMA FaultInductive ==
    ASSUME Inductive, Crash \/ Raise \/ LoseStaged
    PROVE  Inductive'
<1> USE DEF Inductive
<1>1. CASE Crash \/ Raise
  <2>1. /\ pc' \in {"idle", "raised"}
        /\ draft' = [content |-> Nothing, result |-> Nothing]
        /\ draws' = NoDraws
        /\ UNCHANGED <<runState, files>>
    BY <1>1 DEF Crash, Raise
  <2>2. TypeOK'
    <3>1. NoDraws \in Draws /\ Nothing \in Nat
      BY DEF NoDraws, Draws, Nothing
    <3>2. QED
      BY <2>1, <3>1 DEF TypeOK, runState, files, drafts, places, adopted, Labels
  <2>3. Shelf' /\ Staged' /\ Recorded' /\ Written' /\ CommittedIsAdopted'
    <3>1. \A k \in Kinds : counters'[k] >= counters[k]
      BY <2>1 DEF TypeOK, Kinds, files, drafts
    <3>2. QED
      BY <2>1, <2>2, <3>1, FilesKept DEF runState, files, drafts, places
  <2>4. Control' /\ Pending' /\ Slot' /\ Copied'
    BY <2>1 DEF Control, Pending, Slot, Copied, Present, runState, files,
       drafts, places, adopted, Adopting, Committing
  <2>5. Drawn'
    BY <2>1 DEF Drawn, NoDraws, Kinds
  <2>6. Reservation'
    BY <2>1 DEF Reservation, Present, runState, files, drafts, places, adopted
  <2>7. QED
    BY <2>2, <2>3, <2>4, <2>5, <2>6
<1>2. CASE LoseStaged
  <2>1. /\ pc \in {"idle", "raised"} /\ stage = "commit"
        /\ \/ staging' = NoDirectory
           \/ \E f \in SceneFiles :
                 staging' = [staging EXCEPT !.files[f] = Nothing]
        /\ temps' = temps \/ temps' = [temps EXCEPT !["staging"] = 0]
        /\ UNCHANGED <<runState, drafts, orphans, adopted, memory, pc>>
    BY <1>2 DEF LoseStaged, AtRest
  <2>2. /\ staging' \in [exists : BOOLEAN, files : Files,
                         commit : {"absent", "torn", "whole"}]
        /\ \A f \in SceneFiles :
              staging'.files[f] \in {Nothing, staging.files[f]}
    <3>1. CASE staging' = NoDirectory
      BY <3>1 DEF NoDirectory, NoFiles, Files, Nothing, SceneFiles
    <3>2. ASSUME NEW f \in SceneFiles,
                 staging' = [staging EXCEPT !.files[f] = Nothing]
          PROVE  /\ staging' \in [exists : BOOLEAN, files : Files,
                                  commit : {"absent", "torn", "whole"}]
                 /\ \A g \in SceneFiles :
                       staging'.files[g] \in {Nothing, staging.files[g]}
      <4>1. staging.files \in Files /\ Nothing \in Nat
        BY DEF TypeOK, Nothing
      <4>2. CASE f = "card"
        BY <3>2, <4>1, <4>2 DEF TypeOK, Files, SceneFiles
      <4>3. CASE f = "prose"
        BY <3>2, <4>1, <4>3 DEF TypeOK, Files, SceneFiles
      <4>4. CASE f = "continuity"
        BY <3>2, <4>1, <4>4 DEF TypeOK, Files, SceneFiles
      <4>5. QED
        BY <4>2, <4>3, <4>4 DEF SceneFiles
    <3>3. QED
      BY <2>1, <3>1, <3>2
  <2>3. TypeOK'
    BY <2>1, <2>2 DEF TypeOK, runState, drafts, adopted, memory
  <2>4. Control' /\ Pending' /\ Slot' /\ Copied'
    BY <2>1 DEF Control, Pending, Slot, Copied, runState, drafts, memory,
       Adopting, Committing, ModelStages, SceneFiles, Directories
  <2>5. Staged'
    BY <2>1, <2>2 DEF Staged, runState, drafts
  <2>6. Shelf' /\ Recorded' /\ CommittedIsAdopted'
    BY <2>1 DEF Shelf, Recorded, CommittedIsAdopted, runState, drafts, adopted,
       Directories
  <2>7. Drawn' /\ Written' /\ Reservation'
    BY <2>1 DEF Drawn, Written, Reservation, runState, drafts, adopted, memory
  <2>8. QED
    BY <2>3, <2>4, <2>5, <2>6, <2>7
<1>3. QED
  BY <1>1, <1>2

\* Every step, crash and loss keeps the invariant.
LEMMA NextInductive == Inductive /\ [Next]_vars => Inductive'
<1> SUFFICES ASSUME Inductive, [Next]_vars PROVE Inductive'
  OBVIOUS
<1>1. CASE UNCHANGED vars
  BY <1>1 DEF Inductive, TypeOK, Control, Pending, Slot, Shelf, Staged,
     Recorded, Copied, Drawn, Written, Reservation, CommittedIsAdopted,
     Present, vars, runState, files, drafts, places, adopted, memory
<1>2. CASE ReserveResult \/ ReserveCandidate
  BY <1>2, ReserveInductive
<1>3. CASE Accept
  BY <1>3, AcceptInductive
<1>4. CASE Adopt
  BY <1>4, DecideInductive, DrawInductive, RenameInductive, RecordInductive,
     FinalizeInductive DEF Adopt
<1>5. CASE Commit
  BY <1>5, StagingInductive, CommitSceneInductive DEF Commit
<1>6. CASE Crash \/ Raise \/ LoseStaged
  BY <1>6, FaultInductive
<1>7. QED
  BY <1>1, <1>2, <1>3, <1>4, <1>5, <1>6 DEF Next, Step, Rest

\* The invariant holds in every reachable state.
LEMMA AlwaysInductive == Spec => []Inductive
<1>1. QED
  BY InitInductive, NextInductive, PTL DEF Spec

-----------------------------------------------------------------------------
\* What is committed is what was accepted and recorded, for any number of
\* scenes and whatever the environment removes from the staging.
THEOREM CommittedWasAdopted == Spec => []CommittedIsAdopted
<1>1. Inductive => CommittedIsAdopted
  BY DEF Inductive
<1>2. QED
  BY <1>1, AlwaysInductive, PTL

\* No generation, evidence or update id is written twice, however many of
\* them a crash throws away.
THEOREM DrawnOnce == Spec => []IdsAreDrawnOnce
<1>1. Inductive => IdsAreDrawnOnce
  BY DEF Inductive, IdsAreDrawnOnce, Written, Reservation, Kinds
<1>2. QED
  BY <1>1, AlwaysInductive, PTL

\* A file found in its place is the one the step is about to write, a record
\* found is that of the staged files, and the layout refuses nothing but a
\* leftover: no step is refused for what an earlier one did as it should.
THEOREM OnlyLeftoversRefuse == Spec => []RefusedOnlyForLeftovers
<1>1. Inductive => RefusedOnlyForLeftovers
  <2> SUFFICES ASSUME Inductive, Refused, ~Leftover,
                      ~(pc = "temp" /\ stage = "brief")
               PROVE  FALSE
    BY DEF RefusedOnlyForLeftovers
  <2> USE DEF Inductive
  <2>1. Layout \/ stage = "done"
    <3>1. \A d \in Directories : temps[d] = 0
      BY DEF Leftover, TempDirectory, TypeOK, Places, Directories
    <3>2. stage # "commit" /\ staging.exists =>
            /\ "card" \notin Missing
            /\ "continuity" \notin Missing => "prose" \notin Missing
      BY DEF Leftover, EmptyStaging, Shelf, Missing, TypeOK, Stages,
         ModelStages, SceneFiles, Directories, NoDirectory
    <3>3. QED
      BY <3>1, <3>2 DEF Layout
  <2>2. CASE pc = "adopt" /\ Present # Nothing /\ ~SameAsDraft
    BY <2>2 DEF Control, Pending, Slot, Reservation, SameAsDraft, Adopting
  <2>3. CASE pc = "record" /\ records[scene] \notin {NoFiles, staging.files}
    BY <2>3 DEF Control, Recorded
  <2>4. CASE AtRest /\ stage = "commit" /\ records[scene] = NoFiles
    <3>1. [stage |-> "card", scene |-> scene, content |-> Nothing] \in accepted
      <4>1. [stage |-> "card", scene |-> scene,
             content |-> records[scene]["card"]] \in accepted
        BY <2>4 DEF CommittedIsAdopted, SceneFiles
      <4>2. records[scene]["card"] = Nothing
        BY <2>4 DEF NoFiles
      <4>3. QED
        BY <4>1, <4>2
    <3>2. QED
      BY <3>1 DEF TypeOK
  <2>5. CASE pc = "commit_file" /\ staging.commit = "torn"
    BY <2>5 DEF Leftover, TornCommit
  <2>6. CASE pc = "commit_scene" /\ temps["staging"] > 0
    BY <2>6 DEF Leftover, TempInScene, Control, Committing
  <2>7. pc = "finalize" => stage # "done"
    BY DEF Control, Pending, Adopting, ModelStages, SceneFiles, Directories
  <2>8. QED
    BY <2>1, <2>2, <2>3, <2>4, <2>5, <2>6, <2>7 DEF Refused
<1>2. QED
  BY <1>1, AlwaysInductive, PTL

-----------------------------------------------------------------------------
(* The writes implement the atomic adoption.                                *)

Positions == ModelStages \X Scenes
History == {[position |-> p, candidate |-> Content(p[1], p[2])] :
                p \in {q \in Positions : Behind(q[1], q[2])}}
Known == {[position |-> <<a.stage, a.scene>>, candidate |-> a.content] :
                a \in accepted}
Chosen == IF pending = "none" THEN {} ELSE {active}

\* The brief is the affair of the first scene's time.
Begun == stage = "brief" => scene = 1

\* No step returns to the brief, and only a commit moves to another scene.
LEMMA BegunKept ==
    ASSUME Inductive, Begun, [Next]_vars
    PROVE  Begun'
<1>1. CASE Advance
  <2>1. stage \in ModelStages /\ stage' = NextStage[stage]
    BY <1>1 DEF Advance, Inductive, Control, Adopting, Pending
  <2>2. stage' # "brief"
    BY <2>1 DEF NextStage, ModelStages, SceneFiles, Directories
  <2>3. QED
    BY <2>2 DEF Begun
<1>2. CASE CommitScene
  BY <1>2 DEF Begun, CommitScene
<1>3. CASE UNCHANGED <<stage, scene>>
  BY <1>3 DEF Begun
<1>4. QED
  BY <1>1, <1>2, <1>3
  DEF Next, Step, Adopt, Commit, ReserveResult, ReserveCandidate, Accept, Recover,
      FindAdopted, OpenStaging, StartElsewhere, StartContinuity, DrawId, DrawnAll,
      WriteTemp, BriefTempInTheWay, Rename, PublishRecord, SaveFinalized,
      KeepStaging, IsolateStaging, RestoreStaging, CreateCommitFile,
      FillCommitFile, FindCommitFile, Raise, Crash, LoseStaged, Rest, vars, runState

\* How the ranks of the stages lie to each other.
LEMMA Ranks ==
    /\ \A f \in ModelStages, s \in ModelStages :
            Rank[f] < Rank[NextStage[s]] <=> Rank[f] < Rank[s] \/ f = s
    /\ \A f \in ModelStages : ~(Rank[f] < Rank[f])
    /\ \A f \in ModelStages : Rank[f] < Rank["card"] <=> f = "brief"
    /\ \A f \in ModelStages :
            /\ Rank[f] < Rank["commit"] <=> f \notin Directories
            /\ Rank[f] < Rank["handoff"] <=> f \notin Directories
BY DEF Rank, NextStage, ModelStages, SceneFiles, Directories

\* The history is told by what is behind, and what it holds.
LEMMA HistoryKept ==
    ASSUME \A f \in ModelStages, s \in Scenes : Behind(f, s)' <=> Behind(f, s),
           \A f \in ModelStages, s \in Scenes :
                Behind(f, s) => Content(f, s)' = Content(f, s)
    PROVE  History' = History
<1>1. {q \in Positions : Behind(q[1], q[2])}' = {q \in Positions : Behind(q[1], q[2])}
  BY DEF Positions
<1>2. \A q \in Positions : Behind(q[1], q[2]) =>
            Content(q[1], q[2])' = Content(q[1], q[2])
  BY DEF Positions
<1>3. QED
  BY <1>1, <1>2 DEF History

\* A step that keeps the stage, what is accepted and what is chosen, and
\* writes nowhere but at the stage's own place, is not seen.
LEMMA QuietStutters ==
    ASSUME Inductive, UNCHANGED <<stage, scene, accepted>>, Chosen' = Chosen,
           \A f \in {"brief"} \cup Directories : f # stage => finals'[f] = finals[f],
           stage \in SceneFiles =>
                \A f \in SceneFiles : f # stage => staging.files'[f] = staging.files[f],
           \A s \in Scenes :
                s # scene \/ stage \notin SceneFiles => records'[s] = records[s]
    PROVE  UNCHANGED Atomic!adoptionVars
<1>1. \A f \in ModelStages, s \in Scenes : Behind(f, s)' <=> Behind(f, s)
  BY DEF Behind
<1>2. ASSUME NEW f \in ModelStages, NEW s \in Scenes, Behind(f, s)
      PROVE  Content(f, s)' = Content(f, s)
  <2>1. CASE f \in SceneFiles /\ s = scene /\ stage \in SceneFiles
    <3>1. f # stage
      BY <1>2, <2>1, Ranks DEF Behind, Inductive, TypeOK, Scenes
    <3>2. QED
      BY <2>1, <3>1 DEF Content
  <2>2. CASE f \in SceneFiles /\ ~(s = scene /\ stage \in SceneFiles)
    BY <2>2 DEF Content
  <2>3. CASE f \notin SceneFiles
    <3>1. f \in {"brief"} \cup Directories
      BY <2>3 DEF ModelStages
    <3>2. f # stage
      BY <1>2, <2>3, Ranks DEF Behind
    <3>3. QED
      BY <2>3, <3>1, <3>2 DEF Content
  <2>4. QED
    BY <2>1, <2>2, <2>3
<1>3. History' = History
  BY <1>1, <1>2, HistoryKept
<1>4. Position' = Position
  BY DEF Position, AfterCommit
<1>5. Known' = Known
  BY DEF Known
<1>6. QED
  BY <1>3, <1>4, <1>5 DEF Atomic!adoptionVars, History, Positions, Known, Chosen

\* The save that names the accepted candidate chooses it.
LEMMA AcceptChooses ==
    ASSUME Inductive, Accept
    PROVE  Atomic!AdoptionNext
<1> DEFINE c == draft.content
           new == [stage |-> stage, scene |-> scene, content |-> c]
<1>1. /\ stage \in ModelStages /\ scene \in Scenes /\ c \in Nat \ {Nothing}
      /\ pending = "none" /\ pending' = "prepared" /\ active' = c
      /\ UNCHANGED <<stage, scene, finals, staging, records>>
      /\ accepted' = accepted \cup {new}
  BY DEF Accept, Inductive, Control, TypeOK, adopted, places
<1>2. Position = <<stage, scene>> /\ Position' = Position
  BY <1>1 DEF Position, AfterCommit, ModelStages, SceneFiles, Directories
<1>3. Known' = Known \cup {[position |-> Position, candidate |-> c]}
  <2> DEFINE Of(a) == [position |-> <<a.stage, a.scene>>, candidate |-> a.content]
  <2>1. Known = {Of(a) : a \in accepted} /\ Known' = {Of(a) : a \in accepted'}
    BY DEF Known
  <2>2. Of(new) = [position |-> Position, candidate |-> c]
    BY <1>2
  <2> HIDE DEF Of, new
  <2>3. {Of(a) : a \in accepted \cup {new}} = {Of(a) : a \in accepted} \cup {Of(new)}
    OBVIOUS
  <2>4. QED
    BY <1>1, <2>1, <2>2, <2>3
<1>4. History' = History
  BY <1>1, HistoryKept DEF Behind, Content
<1>5. Chosen = {} /\ Chosen' = {c}
  BY <1>1 DEF Chosen
<1>6. Position \in DOMAIN Succession
  BY <1>1, <1>2 DEF Succession
<1>7. QED
  BY <1>1, <1>2, <1>3, <1>4, <1>5, <1>6
  DEF Atomic!AdoptionNext, Atomic!Choose, Atomic!Here, History, Positions, Known,
      Chosen

\* The save that moves the run on adopts it.
LEMMA AdvanceAdopts ==
    ASSUME Inductive, Begun, Advance
    PROVE  Atomic!AdoptionNext
<1>1. /\ stage \in ModelStages /\ scene \in Scenes /\ active \in Nat \ {Nothing}
      /\ pending # "none" /\ pending' = "none"
      /\ stage' = NextStage[stage]
      /\ UNCHANGED <<scene, accepted, finals, staging, records>>
      /\ Present = active
      /\ stage = "continuity" => records[scene] = staging.files
      /\ stage = "brief" => scene = 1
      /\ stage \in Directories => scene = SceneCount
  BY DEF Advance, Inductive, Control, Adopting, Pending, Slot, Shelf, Copied, TypeOK,
         files, drafts, places, adopted, Begun
<1>2. Position = <<stage, scene>> /\ Position' = Succession[Position]
  <2>1. Position = <<stage, scene>>
    BY <1>1 DEF Position, ModelStages, SceneFiles, Directories
  <2>2. <<stage, scene>> \in ModelStages \X Scenes
    BY <1>1
  <2>3. CASE stage = "continuity"
    BY <1>1, <2>1, <2>2, <2>3 DEF Position, Succession, AfterCommit, NextStage
  <2>4. CASE stage # "continuity"
    <3>1. NextStage[stage] # "commit"
      BY <1>1, <2>4 DEF NextStage, ModelStages, SceneFiles, Directories
    <3>2. QED
      BY <1>1, <2>1, <2>2, <2>4, <3>1 DEF Position, Succession
  <2>5. QED
    BY <2>1, <2>3, <2>4
<1>3. ASSUME NEW f \in ModelStages, NEW s \in Scenes
      PROVE  Behind(f, s)' <=> Behind(f, s) \/ (f = stage /\ s = scene)
  <2>1. Rank[f] < Rank[stage'] <=> Rank[f] < Rank[stage] \/ f = stage
    BY <1>1, Ranks
  <2>2. CASE f \in SceneFiles
    BY <1>1, <2>1, <2>2 DEF Behind
  <2>3. CASE f \notin SceneFiles
    BY <1>1, <2>1, <2>3 DEF Behind, ModelStages
  <2>4. QED
    BY <2>2, <2>3
<1>4. ASSUME NEW f \in ModelStages, NEW s \in Scenes, Behind(f, s)
      PROVE  Content(f, s)' = Content(f, s)
  <2>1. CASE f \in SceneFiles /\ s = scene
    <3>1. Rank[f] < Rank[stage]
      BY <1>1, <1>4, <2>1 DEF Behind, Scenes
    <3>2. CASE stage = "continuity"
      BY <1>1, <2>1, <3>2 DEF Content, NextStage, SceneFiles
    <3>3. CASE stage \in {"card", "prose"}
      BY <1>1, <2>1, <3>3 DEF Content, NextStage, SceneFiles
    <3>4. CASE stage \in Directories
      BY <1>1, <2>1, <3>4 DEF Content, NextStage, SceneFiles, Directories
    <3>5. stage # "brief"
      BY <2>1, <3>1 DEF Rank, SceneFiles
    <3>6. QED
      BY <1>1, <3>2, <3>3, <3>4, <3>5 DEF ModelStages, SceneFiles
  <2>2. CASE f \notin SceneFiles \/ s # scene
    BY <1>1, <2>2 DEF Content
  <2>3. QED
    BY <2>1, <2>2
<1>5. ASSUME NEW f \in ModelStages, NEW s \in Scenes, f = stage, s = scene
      PROVE  Content(f, s)' = active
  <2>1. CASE f \in {"card", "prose"}
    BY <1>1, <1>5, <2>1 DEF Content, NextStage, SceneFiles, Present
  <2>2. CASE f = "continuity"
    BY <1>1, <1>5, <2>2 DEF Content, NextStage, SceneFiles, Present
  <2>3. CASE f \notin SceneFiles
    BY <1>1, <1>5, <2>3 DEF Content, Present
  <2>4. QED
    BY <2>1, <2>2, <2>3 DEF SceneFiles
<1>6. History' = History \cup {[position |-> <<stage, scene>>, candidate |-> active]}
  <2> DEFINE P == {q \in Positions : Behind(q[1], q[2])}
             Of(q) == [position |-> q, candidate |-> Content(q[1], q[2])]
             here == <<stage, scene>>
  <2>1. P' = P \cup {here}
    <3>1. ASSUME NEW q \in Positions
          PROVE  Behind(q[1], q[2])' <=> Behind(q[1], q[2]) \/ q = here
      <4>1. q[1] \in ModelStages /\ q[2] \in Scenes /\ q = <<q[1], q[2]>>
        BY DEF Positions
      <4>2. q = here <=> q[1] = stage /\ q[2] = scene
        BY <4>1
      <4>3. QED
        BY <1>3, <4>1, <4>2
    <3>2. here \in Positions
      BY <1>1 DEF Positions
    <3>3. P' = {q \in Positions : Behind(q[1], q[2])'}
      BY DEF Positions
    <3> HIDE DEF here
    <3>4. QED
      BY <3>1, <3>2, <3>3
  <2>2. \A q \in P : Of(q)' = Of(q)
    BY <1>4 DEF Positions
  <2>3. ASSUME NEW q, q = here
        PROVE  Of(q)' = [position |-> here, candidate |-> active]
    BY <1>1, <1>5, <2>3
  <2>4. History = {Of(q) : q \in P} /\ History' = {Of(q)' : q \in P'}
    BY DEF History
  <2>5. QED
    <3> HIDE DEF P, Of, here
    <3>1. {Of(q)' : q \in P \cup {here}} = {Of(q) : q \in P}
            \cup {[position |-> here, candidate |-> active]}
      BY <2>2, <2>3
    <3>2. QED
      BY <2>1, <2>4, <3>1 DEF here
<1>7. Known' = Known /\ Chosen = {active} /\ Chosen' = {}
  BY <1>1 DEF Known, Chosen
<1>8. QED
  BY <1>1, <1>2, <1>6, <1>7
  DEF Atomic!AdoptionNext, Atomic!Adopt, Atomic!Here, History, Positions, Known,
      Chosen

\* The commit of a scene is not seen: what it commits is adopted already.
LEMMA CommitStutters ==
    ASSUME Inductive, CommitScene
    PROVE  UNCHANGED Atomic!adoptionVars
<1>1. /\ stage = "commit" /\ pending = "none" /\ scene \in Scenes
      /\ UNCHANGED <<pending, active, accepted, records, finals>>
      /\ IF scene < SceneCount THEN stage' = "card" /\ scene' = scene + 1
         ELSE stage' = "handoff" /\ scene' = scene
  BY DEF CommitScene, Inductive, Control, Committing, TypeOK, drafts
<1>2. Position' = Position
  BY <1>1 DEF Position, AfterCommit
<1>3. ASSUME NEW f \in ModelStages, NEW s \in Scenes
      PROVE  Behind(f, s)' <=> Behind(f, s)
  <2>1. CASE f \in SceneFiles /\ scene < SceneCount
    <3>1. f # "brief" /\ f \notin Directories
      BY <2>1 DEF SceneFiles, Directories
    <3>2. QED
      BY <1>1, <2>1, <3>1, Ranks, StagedAdoptionAssumption DEF Behind, Scenes
  <2>2. CASE f \in SceneFiles /\ ~(scene < SceneCount)
    BY <1>1, <2>2, Ranks DEF Behind
  <2>3. CASE f \notin SceneFiles
    <3>1. f = "brief" <=> f \notin Directories
      BY <2>3 DEF ModelStages, Directories
    <3>2. Rank[f] < Rank[stage'] <=> Rank[f] < Rank[stage]
      BY <1>1, <3>1, Ranks
    <3>3. QED
      BY <2>3, <3>2 DEF Behind
  <2>4. QED
    BY <2>1, <2>2, <2>3
<1>4. ASSUME NEW f \in ModelStages, NEW s \in Scenes, Behind(f, s)
      PROVE  Content(f, s)' = Content(f, s)
  <2>1. CASE f \notin SceneFiles
    BY <1>1, <2>1 DEF Content
  <2>2. CASE f \in SceneFiles
    <3>1. s <= scene
      BY <1>4, <2>2 DEF Behind, Scenes, Inductive, TypeOK
    <3>2. ~(s = scene' /\ stage' \in SceneFiles) /\ stage \notin SceneFiles
      BY <1>1, <3>1, StagedAdoptionAssumption DEF SceneFiles, Scenes
    <3>3. QED
      BY <1>1, <2>2, <3>2 DEF Content
  <2>3. QED
    BY <2>1, <2>2
<1>5. History' = History
  BY <1>3, <1>4, HistoryKept
<1>6. Known' = Known /\ Chosen' = Chosen
  BY <1>1 DEF Known, Chosen
<1>7. QED
  BY <1>2, <1>5, <1>6 DEF Atomic!adoptionVars, History, Positions, Known, Chosen

\* Nothing is behind when the run begins.
LEMMA InitRefines == Init => Atomic!AdoptionInit /\ Begun
<1> SUFFICES ASSUME Init PROVE Atomic!AdoptionInit /\ Begun
  OBVIOUS
<1>1. \A f \in ModelStages, s \in Scenes : ~Behind(f, s)
  BY DEF Init, Behind, Rank, ModelStages, SceneFiles, Directories, Scenes
<1>2. History = {} /\ Known = {} /\ Chosen = {} /\ Position = <<"brief", 1>> /\ Begun
  BY <1>1 DEF Init, History, Positions, Known, Chosen, Position, Begun
<1>3. QED
  BY <1>2 DEF Atomic!AdoptionInit, History, Positions, Known, Chosen

\* For every number of scenes, crashes and losses: the documents of the run are
\* adopted one after the other, each the candidate chosen for it, in the step
\* that moves the run on, and no commit or repair of a staging alters one.
THEOREM AdoptionIsAtomic == Spec => ImplementsAtomicAdoption
<1>1. Inductive /\ Begun /\ [Next]_vars
        => [Atomic!AdoptionNext]_(Atomic!adoptionVars)
  <2> SUFFICES ASSUME Inductive, Begun, [Next]_vars
               PROVE  [Atomic!AdoptionNext]_(Atomic!adoptionVars)
    OBVIOUS
  <2>1. CASE Accept
    BY <2>1, AcceptChooses
  <2>2. CASE Advance
    BY <2>2, AdvanceAdopts
  <2>3. CASE CommitScene
    BY <2>3, CommitStutters
  <2>4. CASE \/ ReserveResult \/ ReserveCandidate \/ Recover \/ FindAdopted
             \/ StartElsewhere \/ StartContinuity \/ DrawId \/ DrawnAll
             \/ WriteTemp \/ BriefTempInTheWay \/ KeepStaging \/ FindCommitFile
             \/ Raise \/ Crash \/ Rest \/ UNCHANGED vars
    <3>1. UNCHANGED <<runState, accepted, staging, adopted>>
      BY <2>4
      DEF ReserveResult, ReserveCandidate, Recover, FindAdopted, StartElsewhere,
          StartContinuity, DrawId, DrawnAll, WriteTemp, BriefTempInTheWay,
          KeepStaging, FindCommitFile, Raise, Crash, Rest, vars, files, drafts,
          places
    <3>2. Chosen' = Chosen
      BY <3>1 DEF Chosen, runState
    <3>3. QED
      BY <3>1, <3>2, QuietStutters DEF runState, adopted
  <2>5. CASE OpenStaging \/ IsolateStaging \/ RestoreStaging \/ CreateCommitFile
             \/ FillCommitFile \/ LoseStaged
    <3>1. UNCHANGED <<runState, accepted, adopted>>
      BY <2>5
      DEF OpenStaging, IsolateStaging, RestoreStaging, CreateCommitFile,
          FillCommitFile, LoseStaged, drafts
    <3>2. stage \in SceneFiles => \A f \in SceneFiles : staging.files'[f] = staging.files[f]
      <4>1. CASE OpenStaging
        BY <4>1 DEF OpenStaging, Inductive, TypeOK
      <4>2. CASE IsolateStaging \/ RestoreStaging \/ CreateCommitFile
                 \/ FillCommitFile \/ LoseStaged
        <5>1. stage \notin SceneFiles
          BY <4>2
          DEF IsolateStaging, RestoreStaging, CreateCommitFile, FillCommitFile,
              LoseStaged, BeginCommit, Inductive, Control, Committing, SceneFiles
        <5>2. QED
          BY <5>1
      <4>3. QED
        BY <2>5, <4>1, <4>2
    <3>3. Chosen' = Chosen
      BY <3>1 DEF Chosen, runState
    <3>4. QED
      BY <3>1, <3>2, <3>3, QuietStutters DEF runState, adopted
  <2>6. CASE Rename
    <3>1. /\ UNCHANGED <<runState, accepted, records>>
          /\ \A f \in {"brief"} \cup Directories : f # stage => finals'[f] = finals[f]
          /\ \A f \in SceneFiles : f # stage => staging.files'[f] = staging.files[f]
      <4>1. UNCHANGED <<runState, accepted, records>>
        BY <2>6 DEF Rename, drafts
      <4>2. CASE stage \in SceneFiles
        <5>1. finals' = finals /\ staging' = [staging EXCEPT !.files[stage] = draft.content]
          BY <2>6, <4>2 DEF Rename
        <5>2. staging.files' = [staging.files EXCEPT ![stage] = draft.content]
          BY <5>1 DEF Inductive, TypeOK
        <5>3. \A f \in SceneFiles : f # stage => staging.files'[f] = staging.files[f]
          BY <4>2, <5>2 DEF Inductive, TypeOK, Files, SceneFiles
        <5>4. QED
          BY <4>1, <5>1, <5>3
      <4>3. CASE stage \notin SceneFiles
        BY <2>6, <4>1, <4>3 DEF Rename, Inductive, TypeOK
      <4>4. QED
        BY <4>2, <4>3
    <3>2. Chosen' = Chosen
      BY <3>1 DEF Chosen, runState
    <3>3. QED
      BY <3>1, <3>2, QuietStutters DEF runState
  <2>7. CASE PublishRecord
    <3>1. /\ UNCHANGED <<runState, accepted, staging, finals>> /\ stage = "continuity"
          /\ \A s \in Scenes : s # scene => records'[s] = records[s]
      BY <2>7 DEF PublishRecord, drafts, places, Inductive, Control, TypeOK
    <3>2. Chosen' = Chosen
      BY <3>1 DEF Chosen, runState
    <3>3. QED
      BY <3>1, <3>2, QuietStutters DEF runState, SceneFiles
  <2>8. CASE SaveFinalized
    <3>1. /\ UNCHANGED <<stage, scene, active, accepted, staging, adopted>>
          /\ pending # "none" /\ pending' # "none"
      BY <2>8 DEF SaveFinalized, files, drafts, places, Inductive, Control, Adopting
    <3>2. Chosen' = Chosen
      BY <3>1 DEF Chosen
    <3>3. QED
      BY <3>1, <3>2, QuietStutters DEF adopted
  <2>9. QED
    BY <2>1, <2>2, <2>3, <2>4, <2>5, <2>6, <2>7, <2>8 DEF Next, Step, Adopt, Commit
<1>2. QED
  BY <1>1, InitRefines, BegunKept, InitInductive, NextInductive, PTL
  DEF Spec, ImplementsAtomicAdoption, Atomic!AdoptionSpec
=============================================================================
