# TLA+ models of storycraft

storycraft writes a series of novels with a language model. A *run* goes through
a fixed graph of stages (input, initial design, plans, scenes, handoffs,
completion, publication). Everything it knows is files in a *workspace*: the
position in `runtime/run-state.json`, ids in `runtime/counters.json`, and
artifacts that are written once and never changed. A command does one step or
repeats steps until the run stops; the process may die between any two writes,
and the next command has to go on from the files.

What can go wrong in such a program is mostly not in one function: two files that
are one decision, a recovery that is interrupted itself, a stage that refuses what
a stage hundreds of steps earlier left behind, two processes on one workspace, a
worker thread that outlives its request. These models are about that.

Paths below are relative to the repository; Python files without a directory are
in `src/storycraft/`.

## 1. Inventory

| Component (files) | State it keeps | Operations | What is hard |
|---|---|---|---|
| scene commit (`scene_commit_stage.py`, `scene_commit_recovery.py`, `scene_commit_recovery_executor.py`) | `pending_commit` with three phases, scene and generation staging, final directories, orphans | run, inspect, classify, execute five recoveries | eight writes make one commit; a crash between any two, also inside a recovery |
| reviewed candidate runner (`reviewed_candidate_stage.py`) | `active_candidate`, `pending_commit`, candidate versions, counters | generate, review, revise, accept, block, adopt, recover an adoption | Provider failures between writes, ids, the revision limit, repeating an adoption byte for byte |
| initial design (`initial_*_stage.py`, eight candidate stages) | `design/initial/v0001/*.json` | adopt one part each | each part depends on all before it |
| input, initial accept (`input_stage.py`, `initial_accept_stage.py`, `initial_generation.py`) | `brief.json`, `initial-design.json`, the first generation | accept or generate a Brief, build the first generation | a temporary file of a fixed name; no `pending_commit` in initial_accept: recovery by looking |
| plans (`series_plan`, `volume_plan`, `chapter_plan`, `scene_plan`) | one immutable plan each | adopt, hand the next target on | budgets of revelations over four levels, target and basis ids |
| scene card, prose, continuity (`scene_card_stage.py`, `scene_prose_stage.py`, `reviewed_prose_stage.py`, `scene_continuity_stage.py`) | files in a scene staging, accepted prose versions | stage a file each, reserve a generation id, draw evidence and update ids | ids drawn but not used, an adoption that is repeated, temporary files in a directory others list |
| adoption record, orphans (`scene_adoption_record.py`, `immutable_directory.py`, `orphan_storage.py`) | one immutable record per result id, directories moved aside | publish, compare, restore a lost staging, isolate | staging lost after the record, record not yet written |
| scene generation (`scene_generation.py`) | canon, state and evidence of a generation | fold a continuity update into the parent's state | operations of many records in a free order; checked by another contract than adopted them |
| handoff, completion (`volume_handoff_stage.py`, `completion_stage.py`) | a handoff per volume, one verdict | check the whole volume or series, adopt | they check what all earlier stages left |
| publication (`publication_stage.py`, `publication_recovery.py`) | publication staging and final, three states of `run-state.json` | run, classify, recover | three saves around one rename |
| run state, transitions (`run_state.py`, `stage_transition.py`, `stages.py`) | `run-state.json`, replaced atomically | load, save, advance | fields that are one decision |
| workspace layout (`workspace.py`) | none | check every artifact against the others at the start of every step | it must accept every state a crash leaves, before a recovery is reached |
| commands, lock, loop (`cli.py`, `workspace_lock.py`, `v1_workflow.py`) | directory `flock`, the state a loop remembers | run, resume, step, validate | races of processes, state read without the lock |
| Provider client (`llm.py`, `series_model.py`) | a worker thread and a queue per request, deadlines | request, stream, give up, retry | threads that outlive their request |
| contracts (`series_contracts.py`) | none | validate a JSON document against those adopted before | each accepts documents that are immutable from then on: what one lets through, a later one must be able to use |
| publication builder (`publication_builder.py`) | none | render titles and scenes to Markdown, validate what was rendered | the prose contract, the renderer and the validator each have their own idea of a line and a heading |
| config, logging, sanitizing, prompt rendering | none | pure input and output | nothing a model checker reaches |

How they interact: a command takes the lock and calls `V1WorkflowService.step`; the
step checks the layout, recovers a pending commit if there is one, else runs the
stage that `run-state.json` names; candidate stages call the Provider client; each
stage writes its artifact and advances `run-state.json` to the next stage and target.
Stages share nothing but files.

What makes each correct, in one line:

* scene commit: seen through `run-state.json`, a scene and its generation appear at once;
* candidate runner: only what a review accepted is adopted, once, and an adoption that
  was started is finished without the Provider;
* publication: one at most, whole, and the completed run names it;
* commands: steps are serial, none is lost or repeated, the run comes to an end;
* Provider client: an answer is all of one request's, and a silent server is left;
* staged files: what is committed is what was adopted, an id is in one document only, and a
  step is refused only for four known kinds of leftover;
* contracts: a document that one contract admits leaves the next ones something to admit;
* state of the story: it is what the scenes wrote, and a verdict rests on it;
* publication builder: what is published reads back as what was written;
* the whole: what a stage hands over is what the next asks for, the layout always holds,
  the order of reading is the order of the generations, a publication prints everything.

## 2. Modules

| Module | Models | Abstract specification or composition |
|---|---|---|
| `SceneCommitRecovery` | the pure classifier `classify_scene_commit_recovery` | used by SceneCommit |
| `SceneCommit` | scene_commit and its recovery, one action per write | implements `AtomicSceneCommit` |
| `AtomicSceneCommit` | a commit in one step | refinement target |
| `SceneCommit_proofs` | theorems about SceneCommit | TLAPS |
| `StagedAdoption` | brief, card, prose, continuity, adoption record, handoff and completion write by write, with the commit of the scene directory between them | implements `AtomicAdoption`; details what Pipeline takes as one action, hands over to SceneCommit |
| `StagedAdoption_proofs` | theorems about StagedAdoption | TLAPS |
| `StoryState` | card, continuity, commit, handoff and completion as contracts over the state of the story | composes five contracts |
| `InitialDesign` | the contracts of the eight design stages and the first generation | composes eight contracts |
| `Contracts_proofs` | theorems about InitialDesign and StoryState | TLAPS |
| `Manuscript` | prose contract, publication builder, table of contents, numbers | composes three readers of a text |
| `CandidateStage` | `ReviewedCandidateStageRunner` over a chain of stages | implements `AtomicAdoption` |
| `AtomicAdoption` | candidates accepted, one chosen, and that one adopted in one step | refinement target of two modules |
| `CandidateStage_proofs` | theorems about CandidateStage | TLAPS |
| `Publication` | publication and its recovery | implements `AtomicPublication` |
| `AtomicPublication` | a whole publication that appears in one step and is then named | refinement target |
| `Publication_proofs` | theorems about Publication | TLAPS |
| `CommandLoop` | processes, lock, loop, creation of a workspace | a step is one action; implements `AtomicRun` |
| `AtomicRun` | a run created once that moves by single steps | refinement target |
| `CommandLoop_proofs` | theorems about CommandLoop | TLAPS |
| `ProviderStream` | `OpenAIStoryModel._call` and the streaming client | implements `AtomicCall` |
| `AtomicCall` | some requests, and all that was sent in answer to the last | refinement target |
| `ProviderStream_proofs` | theorems about ProviderStream | TLAPS |
| `WorkspaceLayout` | what a workspace holds and `validate_workspace_layout` | used by Pipeline |
| `Pipeline` | all stages in order, initial_accept write by write | composes WorkspaceLayout with every stage; implements `AtomicSeries` |
| `AtomicSeries` | scenes written in the order of reading, volumes handed over, a book printed | refinement target |
| `Pipeline_proofs` | theorems about Pipeline | TLAPS |
| `MC*` | instances for TLC | one cfg per question |

### How state and actions correspond to the code

**SceneCommit.** The variables are the fields of `run-state.json` the stage uses
(`stage`, `cursor` for `current_target`, `basis`, `result`, `current`, `pending`), the
counter, the adoption record (`adopted`), the two staging directories as what a check
finds in them (`sceneStaging`, `genStaging`), the final directories (`scenes`,
`generations`), the number of orphans, and `pc`, the point the running process has
reached. A label of `pc` lies between two persistent writes, so `Crash` at a label is a
crash between them. `mkdir` and the files of a directory, and creating and filling a file
that is written in place, are two actions. `run-state.json` is replaced by
`os.replace` and is one action. `FillFails` is the `except` of
`_ensure_generation_staging`: a write, the sync or the validator raises, and the step removes
the staging it was filling; an error of another write leaves what a crash leaves. Recovery
begins at rest with `Classify(Inspection)`,
the same decision table as the code's. `LoseSceneStaging` and `LoseGenerationStaging` are
the environment: `runtime/staging` after a power failure, or removed by hand.

**CandidateStage.** One draft and one review in memory; versions, artifacts, opened
directories and counters on disk. The Provider is a nondeterministic choice at each call:
invalid, failed, or one of the verdicts. `OwnDirectory` distinguishes adopters that make
a version directory from those that put a file into a shared one, because the layout check
treats an empty one differently.

**StagedAdoption.** The content of a file is the number of the candidate it was made from,
so a file, the candidate and the adoption record can be compared. `ids` is what each
`continuity.json` was written with, `temps` the temporary entries that exist where the
layout check or a later stage looks, `pc` the point between two writes. The commit stage is
taken as far as the check of the scene directory, with its recovery of a staging that is
incomplete (`IsolateStaging`, `RestoreStaging`); what follows is SceneCommit.

**StoryState.** A state is a function from fields to values: the place of each character,
the status of each thread, the order of events. Candidates are every operation over the old
and new values near a valid one, so the contract's refusals are exercised. A stage that
could accept nothing stays where it is (`Judgeable` looks at exactly that).

**InitialDesign.** One action per adopted part. The `...Candidates` are what a contract asks
of a part by itself, the `Valid...` what it asks of it beside the parts before; `Concepts(d)`,
`Casts(d)`, ..., `Endings(d)` are the designs the accepted candidates of a stage make of a
design `d`. `InitialIntegrate` runs through all of them again: one candidate may change every
part at once, each held against the others as they come with it, as long as ids, their number
and their order stay (`SameShape`). `avoid` is the Brief's list of words. The code looks for
them in the JSON text of the whole concept, cast or world, field names and enumeration
values included, so `Sayings` gives for each of the three the sets of words its text may
contain: a word that is in all of them cannot be avoided.

**Manuscript.** A text is a sequence of pieces between line breaks; a break is one that a
regular expression, a text file read with universal newlines, or `str.splitlines` takes for
one. Whether three readers agree on where a line starts is the whole question.

**Publication.** `staged` and `finals` hold the id and timestamp of each directory and
whether it is whole; a failed write removes the staging, as the `except` does.

**CommandLoop.** Each process has a program counter and the two copies of the state the
code keeps: `seen` (`previous` of `_run_until_terminal`, loaded without the lock) and
`view` (loaded by the step under the lock, then what the step returns).

**ProviderStream.** The caller, and for every request its server, worker and queue.
Time counts from the last event up to the delay that matters. A chunk in a queue keeps
the request it came from, so a chunk in the wrong record is visible.

**WorkspaceLayout and Pipeline.** An artifact is a record of the facts later stages read:
a plan is its number of chapters or scenes, its number of revelations and its basis; a
generation is its parent, source scene and evidence. `Layout` has one conjunct for each
`_validate_*` of `workspace.py`. For each stage `Ready` is what its service reads and
refuses, and the action is the adoption and `advance_run_state`; `Refused` is a running
run at rest whose layout or stage is not ready: every command from there on raises
`ContractError`. initial_accept is taken apart write by write, since no other module
covers it.

Conventions of all modules: a timestamp is represented by an id reserved by the same
step (both grow with each step, and a recovery reuses the saved one); what a review or
a Provider says is a choice; texts are left out.

## 3. Runs

| Run | Bounds | What it shows |
|---|---|---|
| `scene_commit` | 2 chapters (2 and 1 scenes), 3 crashes at any label, 2 failed fills, 2 lost stagings, ids to 7 | eight properties, listed below |
| `candidate_stage` | 2 stages (shared and own directory), 1 revision, 4 candidates, 2 crashes at any label | ids and revisions form one chain, disk and state agree, only dead work is refused, adoption completes |
| `publication` | 5 ids, 4 crashes or failed writes, 2 lost stagings | one whole publication, reached unless a staging is lost |
| `command_loop` | 3 processes, 2 steps to the end, 1 killed, 1 step or validate command | steps are serial and none is lost; the run ends |
| `provider_stream` | 3 requests, 2 attempts, 2 chunks, queue of 1 | an answer is one request's and whole, but for cut prose; a silent server is left |
| `pipeline` | 2 volumes (1 or 2 chapters, then 1), 1 or 2 scenes a chapter, 1 knowledge fact, evidence or none, 1 crash in initial_accept | the stages fit together |
| `pipeline_foreign_evidence` | evidence in volume 1 | **violation**, finding 1 |
| `staged_adoption` | 2 scenes, 2 evidence items and 1 operation each, 3 crashes anywhere, 1 lost staging or file | committed is adopted, ids are drawn once, four leftovers only |
| `story_state` | 2 volumes of 1 scene, 2 characters, 2 places, 1 thread, 2 fields and 2 operations a scene | the contracts around the state of the story fit together |
| `story_state_verdict` | 1 scene, 1 thread | **violation**, finding 2 |
| `initial_design` | 2 characters, 1 relationship of 2 types, 2 locations, 2 threads, 1 fact, 3 words to avoid | the contracts of the design fit together |
| `manuscript` | 2 volumes, 3 chapters, 4 scenes; one text of up to 3 pieces of 8 kinds and 3 breaks | an accepted text is published, and reads back |

Why the bounds are enough to see the interesting cases:

* *Scenes.* A volume with a chapter of two scenes and one of one has all three successors
  (next scene, next chapter, end of the volume). Generation ids exceed scenes by the
  number of ids that can be wasted.
* *Crashes.* Two crashes reach "a crash in the recovery of a crash"; `scene_commit` allows
  a third, because `rebuild_generation` is a recovery with four writes.
* *Leftovers.* One crash leaves something, the second hits its recovery, the third a later
  stage; the first scene's ids are behind the second's.
* *State of the story.* Two scenes have a field written by none, one or both of them; two
  operations in one continuity have every order and can collide; a volume each makes the
  last handoff differ from an earlier one.
* *Design.* Two of a kind is the least with a reference to another, to itself and to
  nothing; a cast of one is among them. Every list of words is tried, with one every cast and
  world says, one every world says and one no text need say but the made-up world does. A
  design of two characters with one relationship of either type has up to two thousand
  revisions of the same shape, which change one part or all of them; several relationships,
  more roles and states are left to the theorems.
* *Texts.* In three pieces a mark has a line before and one behind it. One unusual text among
  the titles and scenes, at every place; two would be refused for one of them.
* *Candidates.* Two stages are needed for an artifact *behind* the current stage; one
  revision gives a first, a middle and a last verdict.
* *Processes.* One holds the lock, one waits with stale state, one creates or dies.
* *Requests.* Two attempts of one call, then one request of the next call, so that a worker
  of the first can meet a later record; a queue that can be full or empty.
* *Volumes.* Two are needed for a handoff between volumes; chapters and scenes of one and
  two give every boundary.

### The properties

`scene_commit`: `SceneBeforeGeneration` (no Story state without its source scene);
`LinearHistory` (generations form a chain, no scene twice); `StateMatchesDisk`
(run-state is neither ahead of the directories nor silently behind);
`PreparedNeverRefused`; `RefusedOnlyForTornWrites` (any other leftover is resumed or
rebuilt); `StagingNeverDiscarded` (work is finalized or moved to orphans; the one staging a
step deletes is the generation it is itself filling, when the fill fails: `FillAbandoned`);
`ImplementsAtomicCommit` (refinement); `EventuallyWritten`.

`candidate_stage`: `RevisionsAreChained`, `IdsUsedOnce`, `ArtifactsMatchState`,
`RefusedOnlyForDeadWork` (only the two leftovers of section 5 stop a run),
`AdoptionIsIdempotent` (a repeated adoption changes no artifact), `AdoptionCompletes`.

`publication`: `CompletedIsPublished`, `OnePublication`, `EventuallyCompleted`.

`command_loop`: `StepsAreSerial`, `AdvanceIsNoticed` (the loop's guard against a step
that does not advance never ends a healthy run), `StateOnlyMovesForward` (no step is
repeated or undone, no workspace replaced), `EventuallyStops`.

`provider_stream`: `ValueIsOneAnswer` (one request's, in order, and whole, but for `CutText`, a
prose stream that stops early), `SilentServerIsLeft`.

`staged_adoption`: `CommittedIsAdopted` (across a lost staging that is restored from the
record), `IdsAreDrawnOnce` (ids a crash threw away included), `RefusedOnlyForLeftovers`,
`EveryStageIsAdopted`.

`story_state`: `StateIsWhatScenesWrote` (against a reference told from the scenes alone, in
whatever order the operations stand), `AdoptedContinuityCommits` (the two checks of one
document agree), `CompleteIsGrounded`, `JudgeableUnlessInProgress` (a verdict exists for
every state the scenes may leave, but one).

`initial_design`: `DesignGoesOn` (at every stage some candidate would be accepted, but for
the three dead ends of section 5; integrate can be given the design back as it is),
`GenerationServesEnding` (whatever integrate changes at once).

`manuscript`: `LostOnlyForUnseenMarks` (a text that was accepted is refused later only for
marks its own contract does not see), `PublishedReadsBack` (against a reader of the
Markdown, Japanese numbers to 999 included).

`pipeline`: `RevelationsWithinSchedule` (four levels of budgets give
the end-to-end bound); `ReadingOrderIsHistory`; `RefusedOnlyForLeftovers` (all stages
fit together and the layout check accepts what they leave, but for finding 1 and the staging of
initial_accept); `PublishedIsWhole`; `EveryRunEnds`.

Each property has a mutant of a definition it depends on (`PROJECT.json`, "mutants"); the
mutated forms stand next to the definitions, marked as slips. `Next` never uses them.

### Fairness

* `SceneCommit`, `CandidateStage`, `StagedAdoption`, `Publication`, `Pipeline`: weak fairness of `Step`, the
  next write of the running step or the beginning of the next one. It stands for the loop of
  `run` and `resume`, or an operator who enters the command again after a crash. Crashes
  and lost directories are never fair. In `CandidateStage` it includes that a Provider call
  returns; `SilentServerIsLeft` is what the client gives towards that, and it does not
  cover a server that sends chunks without content for ever: LLM_INTEGRATION.md:1620
  asks for a total timeout, which the client does not have.
* `CommandLoop`: weak fairness of each process. `LOCK_NB` neither waits nor queues, so a
  loop that meets a busy lock ends with an error and an unbounded stream of other
  commands could keep every loop out; `MaxOther` bounds that stream.
* `ProviderStream`: weak fairness of the caller and of time, none of the servers or the
  worker threads.

* `StoryState`, `InitialDesign`, `Manuscript`: none. They ask what is accepted, not when.

Deadlock is checked in every run but `initial_design`, whose three dead ends are states in
which no candidate can be adopted; where a run may end, a stuttering action with the
reason as its guard says so (`VolumeWritten`, `Rest`, `Completed`, `Finished`).

## 4. What is proved

Eight modules hold proofs. Of the safety properties the runs check, all but the two of
`manuscript` are proved for every value of the constants. Each theorem
rests on the assumptions its module states about the constants and on nothing else, with
one exception that is named where it is made (`Pipeline_proofs`). The larger inductive
invariants (StagedAdoption, ProviderStream, the handovers of Pipeline, StoryState) were
checked by TLC on the instances of the runs before they were proved.

Seven theorems are refinements: every step of the detailed module is a step of the abstract one
or leaves unseen what it shows (section "Refinements" below).

`SceneCommit_proofs`, for every volume plan (`Chapters`, `SceneCount`), every set of crash
labels and every bound, from `PlanAssumption` and `BoundAssumption` alone:

| Theorem | Property |
|---|---|
| `TypeCorrect` | `TypeOK` |
| `SceneComesFirst` | `SceneBeforeGeneration` |
| `HistoryIsLinear` | `LinearHistory` |
| `RunStateMatchesDisk` | `StateMatchesDisk` |
| `PreparedGoesForward` | `PreparedNeverRefused` |
| `OnlyTornWritesRefuse` | `RefusedOnlyForTornWrites` |
| `StagingIsKept` | `StagingNeverDiscarded` |
| `CommitIsAtomic` | `ImplementsAtomicCommit`, by step simulation |

None of the properties is inductive: from a state in which only the property holds, a
recovery could rename a directory the process never made. `Inductive` adds what the code
relies on without checking it:

* `Control`: the label, the stage and the saved phase agree;
* `Target`: the basis is the current generation, the result id was reserved after it and is
  the one in the adoption record;
* `Shelf`: the final scenes are those before the cursor, and the one at the cursor only
  while a commit is pending, under the pending id;
* `Lineage`: the same for generations, each with its scene and parent;
* `Progress`: what the step has made or seen by the time it reaches a label (complete
  stagings, absent finals).

`FinalsAreSound` and `VerdictsAreSound` connect them to the classifier: with `Inductive`,
each verdict implies what its recovery assumes, and the verdict is never "manual".
`NextInductive` goes through the actions in groups (continuity, filling, saving, finalizing,
advancing, rebuilding, faults). The theorems follow by one implication and PTL each, and
the refinement from the fact that only `Advance` changes what a reader of run-state sees.

`CommandLoop_proofs`, for every set of processes, number of steps and bound, from
`CommandAssumption` alone:

| Theorem | Property |
|---|---|
| `StepsSerial` | `StepsAreSerial` |
| `AdvanceNoticed` | `AdvanceIsNoticed` |
| `StateMovesForward` | `StateOnlyMovesForward` |
| `RunIsAtomic` | `ImplementsAtomicRun` |

`Inductive` adds three facts: who works holds the lock and knows what is on disk (`Owner`; a
state with two workers and a lock that names one of them satisfies the property's premise
otherwise), what a loop remembers was a running state and is no newer than today's
(`Remembered`: without it a step could return exactly what the loop saw), and a running run
has a step left (`Unfinished`, for the type of the next state). `StepMoves` is the lemma on
which the last two rest. Each action that gains, uses or frees the lock has a lemma; those
that only end a process share `EndInductive`.

`Publication_proofs`, for every bound on ids, crashes, failed writes and lost stagings:

| Theorem | Property |
|---|---|
| `PublishedWhenCompleted` | `CompletedIsPublished` |
| `PublishedOnce` | `OnePublication` |
| `PublicationIsAtomic` | `ImplementsAtomicPublication` |

`Shelf` relates run-state to the final directories in every phase (no directory but the
announced one, none before it is announced, the announced one once the phase or the status
says so), `Control` the label of the running step to the phase. `FinalFound` turns what the
inspection answers into membership of the announced publication, which is all the recovery
needs to enter the stage in its middle.

`CandidateStage_proofs`, for every number of stages, revisions and candidates and every set
of crash labels:

| Theorem | Property |
|---|---|
| `RevisionsChained` | `RevisionsAreChained` |
| `IdsAreUsedOnce` | `IdsUsedOnce` |
| `ArtifactsAndStateAgree` | `ArtifactsMatchState` |
| `OnlyDeadWorkRefuses` | `RefusedOnlyForDeadWork` |
| `AdoptionRepeats` | `AdoptionIsIdempotent` |
| `AdoptionIsAtomic` | `ImplementsAtomicAdoption` |

`Work` says what the draft in memory is by the time the step reaches a label, `Pending` what
a prepared adoption rests on, `Shelf` that an artifact at the current stage is the one the
adoption is about to write, byte for byte, and `Revisable` that a version sent back is not
the last the limit allows.

`StagedAdoption_proofs`, for every number of scenes, crashes, losses and ids drawn:

| Theorem | Property |
|---|---|
| `CommittedWasAdopted` | `CommittedIsAdopted` |
| `DrawnOnce` | `IdsAreDrawnOnce` |
| `OnlyLeftoversRefuse` | `RefusedOnlyForLeftovers` |
| `AdoptionIsAtomic` | `ImplementsAtomicAdoption` |

The invariant follows a document from the candidate to the committed scene: `Slot` and
`Staged` (what a file in its place can hold), `Recorded` and `Copied` (the adoption record is
that of the staged files, and a restored staging that of the record), `Drawn`,
`Written` and `Reservation` (ids in memory, on disk, and the one the run-state names).
`DrawnOnce` needs all of these, since an id is drawn in one step, written in another and
reserved in a third, with a crash between any two.

`ProviderStream_proofs`, for every number of attempts, chunks and requests, every timeout and
every size of the queue:

| Theorem | Property |
|---|---|
| `ReturnsOneAnswer` | `ValueIsOneAnswer` |
| `CallIsAtomic` | `ImplementsAtomicCall` |

`Orderly` says of a queue that it holds the parts of one request from one number to
another, each once and in order; lemmas keep it when an event is put at the end or taken from
the front. `Reading` says that what the caller joined and what is in the queue are together what the
worker handed over, `Untouched` that nobody works on a request before the caller does,
`Answered` that an answer left without an error was read to its end.

`Pipeline_proofs`, for every number of volumes, every choice of chapters and scenes, every
schedule of revelations, and any evidence:

| Theorem | Property |
|---|---|
| `Invariance` | the invariant behind the first two |
| `WholeIsPublished` | `PublishedIsWhole` |
| `HistoryIsReadingOrder` | `ReadingOrderIsHistory` |
| `NoVolumeRevealsTooMuch` | `RevelationsWithinSchedule` |
| `HandoversAreKept` | what each stage leaves is what the next needs |
| `OnlyLeftoversRefuse` | `RefusedOnlyForLeftovers` |
| `SeriesIsAtomic` | `ImplementsAtomicSeries` |

The proof has three layers. `Inv` places the run: the plans behind the target are adopted, the
scenes before it written (`Written`), each on the generation before it in the order of
reading (`Lineage`). `Budgets` adds the revelations at each level; sums over plans are the
function `TotalOf` computes, whose laws (adding a plan, splitting a volume into its
chapters) are lemmas proved set by set, from the well-foundedness of the subsets of a finite set.
`Handover` is what `OnlyLeftoversRefuse` needs: the parts of the design and the single first
generation through every crash of `initial_accept` (`Begun`, `Founded`), plans complete up
to the place of the target (`Scheduled`), the files staged so far (`Staged`), the handoffs
of the volumes behind (`Closed`). From it, one lemma per stage shows that the stage finds what
it reads, and `LayoutHolds` that no validator of the layout objects.

`HandoversAreKept` and `OnlyLeftoversRefuse` assume `"design_file" \notin CrashAt`. A crash
there tears `initial-design.json`, which is then refused for good: with that label the
property is false, and the run of the property excludes it in the same way (section 6). The
other five theorems hold for all crash labels.

`Contracts_proofs`, first part, about InitialDesign, for every size of cast, relationships,
world and set of threads, all roles, types and states, every list of words, every choice of
what texts contain, and whatever integrate revises at once, from `InitialAssumption`:

| Theorem | Property |
|---|---|
| `FirstGenerationServesEnding` | `GenerationServesEnding` |
| `EveryStageHasACandidate` | `DesignGoesOn` |

`Passed` says which contracts the design satisfies at each stage, and that the later parts
have not disturbed the earlier ones: `SameParts` shows that a contract looks at no more than the
parts its document names. `NewConcept`, `NewCast`, ..., `NewEnding` say what a candidate of a
stage makes of any design; the stages use one of them each, `IntegratePasses` all seven in a
row. That the contracts leave something to accept is shown by a candidate for each stage
(`CastFound`, ..., `EndingFound`), and `RevisionFound` shows that integrate accepts the design
as it is, which also needs that a text without a word to avoid exists: `Passed` carries that on
from the stages that found one.

Second part, about StoryState, for every cast, any threads and places, every number of scenes and volumes,
updates and operations:

| Theorem | Property |
|---|---|
| `Invariance` | the inductive invariant |
| `ScenesTellTheState` | `StateIsWhatScenesWrote` |
| `AdoptionIsEnough` | `AdoptedContinuityCommits` |
| `CompletionIsEarned` | `CompleteIsGrounded` |
| `EveryEndingIsJudged` | `JudgeableUnlessInProgress` |

The commit folds the operations into the state. `ApplyIs` turns the fold into what it amounts
to: if no field is written twice and each operation fits the parent state, every operation is
applied, none is refused, and the order does not matter. The fold is defined by a
function on sets of indices that is chosen to satisfy an equation; the closed form is
a witness of the equation, and `SetBySet` shows that any other one agrees with it. The
invariant then has four parts about each Generation: it is its parent with the operations of
its scene (`Accounted`), it holds what the last writer of each field wrote (`Told`), its
events are in the order of reading (`Ordered`), and its resolved threads rest on a scene
that quotes them (`Grounded`); `Staged` and `Judged` say the same of the documents in work
and of the last handoff and verdict. `EveryEndingIsJudged` constructs the checks and the
verdict. It needs at least one arc in the ending, which `ValidEnding` of InitialDesign
guarantees: an ending has a character's end state and a relationship's.

### Refinements

An `Atomic*` module says what a component promises to those who see only its results. Each is a
handful of actions without program counters, stagings, saves or crashes. The detailed module
ends with the mapping: the state functions its readers see, `Atomic == INSTANCE ... WITH`, and
`Implements...`. The theorem is a step simulation from the inductive invariant.

| Theorem | What a reader sees | Steps that are visible | Fact added to the invariant |
|---|---|---|---|
| `SceneCommit_proofs!CommitIsAtomic` | the committed scenes with generation and parent, current generation, target | `Advance` | none |
| `CandidateStage_proofs!AdoptionIsAtomic` | stage, accepted versions, the pending one, artifacts the run has passed | acceptance of a candidate, saving of a decision, the move to the next stage | `Limited`: ids stay within the bound and a version has one |
| `StagedAdoption_proofs!AdoptionIsAtomic` | the same for brief, card, prose, continuity, handoffs and completion, through the commits between them | the same | `Begun`: the brief is written before the scenes |
| `Publication_proofs!PublicationIsAtomic` | final directories, the publication run-state names | the rename, the completion | `Dated`: the saved timestamp is the target's, and a running run names no publication |
| `Pipeline_proofs!SeriesIsAtomic` | scenes with generation and parent, current generation, handoffs, publications | the first generation, commit, handoff, publication | `Ahead`: handoffs lie behind the target, and before initial_accept there is no generation |
| `CommandLoop_proofs!RunIsAtomic` | creator of the workspace, run-state | `Create`, `Execute` | `Created`: who works has a workspace |
| `ProviderStream_proofs!CallIsAtomic` | phase of the call, attempts, last request, value returned | `Begin`, a request, `Return`, `Fail` | `Tried`: who judges an answer has asked for one |

What they add to the invariants is that nothing seen is taken back: the results only change by
the few visible steps, whatever the recoveries write in between. In `CandidateStage` and
`StagedAdoption` that is why a decision, once saved, is carried out whatever crashes follow. In
`ProviderStream` it is why an abandoned thread does not change a value after it was
returned. In `CommandLoop` the loop's memory and the two reads of run-state leave no trace.

`AtomicAdoption` and `AtomicSeries` leave out the same thing, when a candidate is acceptable
and how many scenes a volume has: those are what the contracts and plans are about, and the
invariants of `Pipeline_proofs` and `Contracts_proofs` say it.

`ImplementsAtomicCommit` is a property of the run `scene_commit`, with a mutant. The other six
were checked by TLC on the instances of the runs (with the unbounded sets of numbers in
the abstract modules cut to the ids of the instance) before they were proved; as the theorems
hold for all constants, no run repeats them.

Only model-checked, and why:

* all liveness (`EventuallyWritten`, `AdoptionCompletes`, `EventuallyCompleted`,
  `EventuallyStops`, `SilentServerIsLeft`, `EveryRunEnds`, `EveryStageIsAdopted`): fairness is
  out of the prover's reach;
* `LostOnlyForUnseenMarks` and `PublishedReadsBack`: they run a reader over sequences of lines
  of any length; what it returns would have to be proved by induction over the data.

## 5. Findings

Two runs show a disagreement of the code with what the documents promise:

1. **Evidence in one volume makes the handoff of every later volume impossible**
   (`volume_handoff_stage.py:594`, run `pipeline_foreign_evidence`): evidence accumulates in
   the generations, the handoff admits its own volume's only. The acceptance test records
   evidence in the last volume.
2. **A required thread left `in_progress` makes the completion impossible**
   (`scene_continuity_stage.py:705`, run `story_state_verdict`): the continuity contract
   admits the status, the completion contract has no word for it and wants it repeated, so
   not even `incomplete` is accepted, which LLM_INTEGRATION.md:1456 calls a legitimate
   result.

The other disagreements are named exceptions of the properties (`RefusedOnlyForTornWrites`,
`RefusedOnlyForDeadWork`, `RefusedOnlyForLeftovers`, `ValueIsOneAnswer`, `DesignGoesOn`,
`LostOnlyForUnseenMarks`), so that everything else is shown to go on. They stop a run for
good unless they say otherwise:

* *A torn `commit.json`* (`scene_commit_stage.py:646`), or a half filled generation staging
  (`:664`): both are written under their final name and refused by every later step.
  WORKSPACE_AND_RECOVERY.md:1683-1700 has such a staging moved to orphans and rebuilt.
* *A crash while a revision is asked for* (`reviewed_candidate_stage.py:121`):
  `active_candidate` is saved without a `pending_commit`, a state no step accepts;
  WORKSPACE_AND_RECOVERY.md:1614-1628 has it regenerated.
* *A crash between `mkdir` and the plan file* (`series_plan_stage.py:186`): the layout check
  refuses the empty version directory ahead of the recovery of the adoption. The scene staging
  of a card (`scene_card_stage.py:497`) is the same case.
* *A `.tmp` file in a scene staging* (`scene_card_stage.py:508`), refused at the commit, and
  *the temporary directory of a handoff or a completion* (`volume_handoff_stage.py:689`),
  refused by the layout check. The temporary file of the Brief (`input_stage.py:625`) is
  refused once and then cleared.
* *A prepared publication that lost its staging* (`publication_recovery.py:112`), where
  WORKSPACE_AND_RECOVERY.md:1811 has it generated again. `EventuallyCompleted` excludes it.
* *Prose that is cut short* (`series_model.py:254`): a stream that ends early without an error
  is returned by `_call_text` like a whole one, since it is only looked at for being blank and
  `finish_reason` is never read; the part becomes the prose Candidate. LLM_INTEGRATION.md:1644-1660
  (sections 106 and 107) confirms no Candidate before the stream is complete, and has an
  interrupted one retried as a transport error. It stops nothing: a review may still ask for a
  revision. A cut document is refused by `json.loads`.
* *A staging left by initial_accept* (`completion_stage.py:576`): nothing removes it, and
  completion refuses to begin.
* *A word of a field name or of a value that must occur* (`name`, `locations`, `protagonist`)
  in the Brief's list of words to avoid: the contracts look for it in the JSON text of the
  whole candidate (`series_contracts.py:131`, `:243`, `:602`), so no concept, no cast or no
  world is ever accepted. Nothing refuses such a Brief.
* *A cast of one* (`series_contracts.py:361`): accepted, and then no relationship exists that
  the next stage would accept. *A word of the made-up world* against which the prerequisites of
  the ending are validated (`series_contracts.py:1060`) in the Brief's list of words to avoid:
  every ending is refused.
* *Control characters, a bare heading mark in the last line, a heading behind U+2028, a title
  of several lines*: accepted by the contracts of prose and plans, refused by
  the publication (`publication_builder.py:970`, `:744`, `:953`). *A lone carriage return in
  front of a mark, or behind the `---` of front matter* (`scene_prose_stage.py:688` wants a line
  feed there): accepted by review, refused when the file is read back
  (`reviewed_prose_stage.py:563`), at each attempt to adopt it.

## 6. Not modelled

* Types, lengths and id formats of fields, prompt rendering, logging, sanitizing,
  configuration: no state and no concurrency.
* Prose and wording: a text is its marks and line breaks in `Manuscript`, and which of the words
  to avoid the JSON text of a part contains in `InitialDesign`, chosen apart from the records
  that are kept of the part.
* The manifest of a publication with its hashes: a function of the files.
* Relationship, inventory and commitment records in `StoryState`: they follow the rules of
  the fields that stand for them (one value, one target, replaced by an operation).
* `clear_stale_pending` of the scene commit recovery: the classifier cannot answer it from a
  state the program writes.
* A torn `initial-design.json` (`initial_accept_stage.py:181`): the label `design_file` of
  Pipeline is this crash; no document promises a recovery, and the run leaves it out.
* A clock that goes back: it delays a step with an error and changes no file.
* A deadline for a whole Provider call: the code has none.

## 7. Plan

Done: SceneCommit, CommandLoop and Publication; CandidateStage, ProviderStream, WorkspaceLayout
and Pipeline; the writes of every adoption (StagedAdoption), the state of the story
(StoryState), the design contracts (InitialDesign) and the manuscript (Manuscript); the proofs
and the refinements of section 4. Left:

1. *Composition of the refinements*: that the adoption of a stage, which Pipeline takes as one
   action, is the step of `AtomicAdoption`, and its commit that of `AtomicSceneCommit`. The
   modules agree on what they show, but are not composed in one specification.
2. *State of the story*: relationship and inventory records with their own targets.
