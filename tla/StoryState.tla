----------------------------- MODULE StoryState -----------------------------
(* What the scenes make of the story: the Scene Card says which fields of   *)
(* the state a scene may change (series_contracts.py), its Continuity Update *)
(* lists the changes and the passages they rest on                          *)
(* (scene_continuity_stage.py), the commit applies them to a copy of the     *)
(* parent Generation (scene_generation.py), a Volume Handoff sums up the     *)
(* threads at the end of a volume and the Completion judges the last         *)
(* Generation against the Ending Design (series_contracts.py).  Five         *)
(* contracts, written apart, decide about one state: each admits documents   *)
(* that are immutable from then on and that the next must be able to use.    *)
(*                                                                           *)
(* The state is kept field by field.  Fields with the same contract are      *)
(* stood for by one: the place of a character, the status of a thread, the   *)
(* order of events.  Relationship, inventory and commitment records follow   *)
(* the rules of these.  Writing, reviewing and the crashes around the files  *)
(* are the business of CandidateStage, StagedAdoption and SceneCommit.       *)
EXTENDS Integers, Sequences, FiniteSets, SequencesExt, Functions

CONSTANTS
    Characters,     \* state.characters
    Locations,      \* the locations of the Initial Design
    Threads,        \* state.threads
    Required,       \* ending.thread_requirements
    Arcs,           \* the character and relationship end states of the Ending
    SceneCount,     \* scenes of the series, in the order of reading
    VolumeEnds,     \* the last scene of each volume
    MaxUpdates,     \* bound: fields one Scene Card lets a scene change
    MaxOperations   \* bound: operations, and evidence, of one continuity

ASSUME StoryAssumption ==
    /\ Characters # {} /\ Locations # {} /\ Required # {} /\ Arcs # {}
    /\ Required \subseteq Threads
    /\ SceneCount \in Nat \ {0}
    /\ VolumeEnds \subseteq 1 .. SceneCount /\ SceneCount \in VolumeEnds
    /\ {MaxUpdates, MaxOperations} \subseteq Nat

VARIABLES
    pc,             \* the stage: card, continuity, commit, handoff, completion, done
    generations,    \* sequence of [state, evidence]: Generation n is generations[n]
    card,           \* the adopted Scene Card of the scene in work
    continuity,     \* its adopted Continuity Update
    scenes,         \* the committed scenes: who took part, operations, evidence
    handoffs,       \* sequence of Volume Handoffs
    verdict         \* the adopted Completion

vars == <<pc, generations, card, continuity, scenes, handoffs, verdict>>

NoCard == [participants |-> {}, allowed |-> {}]
NoContinuity == [operations |-> <<>>, evidence |-> <<>>]

Scene == Len(scenes) + 1
Current == generations[Len(generations)]
-----------------------------------------------------------------------------
(* The state, and the values its fields may take.                          *)

Place(c)  == <<"character_state", c, "current_location_id">>
Status(t) == <<"thread_state", t, "status">>
EventOrder == <<"timeline_state", "timeline", "event_order">>

Fields == {Place(c) : c \in Characters} \union {Status(t) : t \in Threads}
              \union {EventOrder}
Target(f) == <<f[1], f[2]>>

\* thread_state.status as the continuity contract has it, and as the schema of
\* the Completion has it.
ThreadStatuses == {"planned", "open", "progressing", "in_progress", "resolved"}
CheckStatuses  == {"planned", "open", "progressing", "resolved", "abandoned"}

\* build_initial_generation: everybody at the first root location, threads
\* planned or open, no event yet.
InitialStates ==
    {[f \in Fields |->
        IF f = EventOrder THEN <<>>
        ELSE IF f[1] = "character_state" THEN home ELSE status[f[2]]] :
        home \in {CHOOSE l \in Locations : TRUE},
        status \in [Threads -> {"planned", "open"}]}

\* _validate_new_value for the scene in work.
ValidNewValue(f, old, new) ==
    \/ f[1] = "character_state" /\ new \in Locations
    \/ f[1] = "thread_state" /\ new \in ThreadStatuses
    \/ f[1] = "timeline_state" /\ new = Append(old, Scene)

\* What the Provider may put into an operation: the field as it is or as the
\* story began, and a value that may be none the contract knows.
OldValues(f) == {Current.state[f], generations[1].state[f]}
NewValues(f) ==
    CASE f[1] = "character_state" -> Locations \union {"elsewhere"}
      [] f[1] = "thread_state" -> {"open", "in_progress", "resolved", "abandoned"}
      [] OTHER -> {Append(Current.state[f], Scene), <<Scene>>, <<>>}
-----------------------------------------------------------------------------
(* The Scene Card: the participants its Scene Plan names and the updates it  *)
(* allows, at most one entry for a target and only for fields the current    *)
(* state has; a character is updated only where it takes part.               *)

ValidCard(participants, allowed) ==
    /\ participants # {}
    /\ allowed \subseteq DOMAIN Current.state
    /\ \A f \in allowed : f[1] = "character_state" => f[2] \in participants

AdoptCard ==
    /\ pc = "card"
    /\ \E participants \in SUBSET Characters, allowed \in SUBSET Fields :
        /\ Cardinality(allowed) <= MaxUpdates
        /\ ValidCard(participants, allowed)
        /\ card' = [participants |-> participants, allowed |-> allowed]
    /\ pc' = "continuity"
    /\ UNCHANGED <<generations, continuity, scenes, handoffs, verdict>>
-----------------------------------------------------------------------------
(* The Continuity Update: _validate_candidate.                              *)

\* An operation: the field (target_type, target_id, field), old_value,
\* new_value and the indices of the evidence it cites.
OfferedOperations ==
    UNION {{f} \X OldValues(f) \X NewValues(f) \X ((SUBSET (1 .. MaxOperations)) \ {{}}) :
               f \in Fields}

FieldOf(o) == o[1]
OldOf(o)   == o[2]
NewOf(o)   == o[3]
CitedBy(o) == o[4]

ValidOperation(o) ==
    /\ FieldOf(o) \in card.allowed
    /\ OldOf(o) = Current.state[FieldOf(o)]
    /\ NewOf(o) # OldOf(o)
    /\ ValidNewValue(FieldOf(o), OldOf(o), NewOf(o))

\* A plausible slip: the continuity stage forgets to look for a field updated twice.
TwiceAccepted(operations) == TRUE

\* No field is updated twice.
NotTwice(operations) == IsInjective([i \in DOMAIN operations |-> FieldOf(operations[i])])

\* Every operation cites evidence about its own target, and no evidence is
\* left over.
CitesEvidence(operations, evidence) ==
    /\ \A o \in Range(operations) :
        \A e \in CitedBy(o) :
            e \in DOMAIN evidence /\ evidence[e] = Target(FieldOf(o))
    /\ UNION {CitedBy(o) : o \in Range(operations)} = DOMAIN evidence

AdoptContinuity ==
    /\ pc = "continuity"
    /\ \E operations \in SeqOf({o \in OfferedOperations : ValidOperation(o)},
                               MaxOperations) :
        /\ NotTwice(operations)
        /\ \E evidence \in SeqOf({Target(f) : f \in Fields}, MaxOperations) :
            /\ CitesEvidence(operations, evidence)
            /\ continuity' = [operations |-> operations, evidence |-> evidence]
    /\ pc' = "commit"
    /\ UNCHANGED <<generations, card, scenes, handoffs, verdict>>
-----------------------------------------------------------------------------
(* The commit: apply_continuity_operations on a copy of the parent state,    *)
(* and the successor Generation, whose evidence is the parent's and the new. *)

ApplyOperation(result, o) ==
    [result EXCEPT
        !.state[FieldOf(o)] = NewOf(o),
        !.seen = @ \union {FieldOf(o)},
        !.refused = @ \/ FieldOf(o) \in result.seen
                      \/ OldOf(o) # result.state[FieldOf(o)]
                      \/ NewOf(o) = result.state[FieldOf(o)]]

\* A plausible slip: every operation starts from the parent state, only the last one stays.
ApplyToParent(parent, operations) ==
    FoldLeft(LAMBDA r, o : [ApplyOperation(r, o) EXCEPT
                               !.state = [parent EXCEPT ![FieldOf(o)] = NewOf(o)]],
             [state |-> parent, seen |-> {}, refused |-> FALSE], operations)

Apply(parent, operations) ==
    FoldLeft(ApplyOperation,
             [state |-> parent, seen |-> {}, refused |-> FALSE], operations)

\* _validate_continuity_links: the citations once more, without the targets.
Linked(c) == UNION {CitedBy(o) : o \in Range(c.operations)} = DOMAIN c.evidence

Successor(parent, c) ==
    [state |-> Apply(parent.state, c.operations).state,
     evidence |-> parent.evidence
                    \o [i \in DOMAIN c.evidence |->
                            [scene |-> Scene, target |-> c.evidence[i]]]]

CommitRefused ==
    Apply(Current.state, continuity.operations).refused \/ ~Linked(continuity)

CommitScene ==
    /\ pc = "commit"
    /\ ~CommitRefused
    /\ generations' = Append(generations, Successor(Current, continuity))
    /\ scenes' = Append(scenes, [participants |-> card.participants,
                                  operations |-> continuity.operations,
                                  evidence |-> continuity.evidence])
    /\ card' = NoCard
    /\ continuity' = NoContinuity
    /\ pc' = IF Scene \in VolumeEnds THEN "handoff" ELSE "card"
    /\ UNCHANGED <<handoffs, verdict>>
-----------------------------------------------------------------------------
(* The Volume Handoff: its two lists of threads must be those of the state,  *)
(* and it asks something of the next volume unless there is none.            *)

ValidHandoff(h) ==
    /\ h.resolved = {t \in Threads : Current.state[Status(t)] = "resolved"}
    /\ h.open = Threads \ h.resolved
    /\ h.requirements <=> Len(scenes) < SceneCount

AdoptHandoff ==
    /\ pc = "handoff"
    /\ \E h \in [basis : {Len(generations)}, resolved : SUBSET Threads,
                 open : SUBSET Threads, requirements : BOOLEAN] :
        /\ ValidHandoff(h)
        /\ handoffs' = Append(handoffs, h)
    /\ pc' = IF Len(scenes) < SceneCount THEN "card" ELSE "completion"
    /\ UNCHANGED <<generations, card, continuity, scenes, verdict>>
-----------------------------------------------------------------------------
(* The Completion.  All ending conditions are stood for by one check, the    *)
(* end states by Arcs; a check cites completed scenes or none.               *)

Judgements ==
    [threads : [Required -> CheckStatuses],
     ending : {"satisfied", "partially_satisfied", "not_satisfied", "not_applicable"},
     arcs : [Arcs -> {"satisfied", "partially_satisfied", "not_satisfied",
                      "not_applicable"}],
     cited : BOOLEAN,       \* every check that reports success cites a scene
     remarks : BOOLEAN]     \* some check has issues of its own

Verdicts == {"complete", "complete_with_issues", "incomplete"}

Blocking(j) ==
    \/ \E t \in Required : j.threads[t] # "resolved"
    \/ j.ending # "satisfied"
    \/ \E a \in Arcs : j.arcs[a] = "not_satisfied"

Partial(j) == \E a \in Arcs : j.arcs[a] \in {"partially_satisfied", "not_applicable"}

ClaimsSuccess(j) ==
    \/ \E t \in Required : j.threads[t] = "resolved"
    \/ j.ending \in {"satisfied", "partially_satisfied"}
    \/ \E a \in Arcs : j.arcs[a] \in {"satisfied", "partially_satisfied"}

\* A plausible slip: the status of a thread check is not compared with the state.
ChecksUncompared(j) ==
    handoffs[Len(handoffs)].basis = Len(generations) /\ (ClaimsSuccess(j) => j.cited)

\* The checks by themselves: in order, true to the last Generation, and with
\* evidence where they report success.
ValidChecks(j) ==
    /\ handoffs[Len(handoffs)].basis = Len(generations)
    /\ \A t \in Required : j.threads[t] = Current.state[Status(t)]
    /\ ClaimsSuccess(j) => j.cited

\* A plausible slip: incomplete counts the arcs that failed, not the threads and the ending.
OnlyArcsAreIncomplete(v, j, issues) ==
    CASE v = "complete" -> ~(Blocking(j) \/ Partial(j) \/ j.remarks \/ issues)
      [] v = "complete_with_issues" ->
            ~Blocking(j) /\ (Partial(j) \/ j.remarks \/ issues)
      [] v = "incomplete" -> (\E a \in Arcs : j.arcs[a] = "not_satisfied") /\ issues

\* status against the checks and the issues.
ValidVerdict(v, j, issues) ==
    CASE v = "complete" -> ~(Blocking(j) \/ Partial(j) \/ j.remarks \/ issues)
      [] v = "complete_with_issues" ->
            ~Blocking(j) /\ (Partial(j) \/ j.remarks \/ issues)
      [] v = "incomplete" -> (Blocking(j) \/ Partial(j)) /\ issues

AdoptCompletion ==
    /\ pc = "completion"
    /\ \E j \in {j \in Judgements : ValidChecks(j)}, v \in Verdicts, issues \in BOOLEAN :
        /\ ValidVerdict(v, j, issues)
        /\ verdict' = [status |-> v, threads |-> j.threads]
    /\ pc' = "done"
    /\ UNCHANGED <<generations, card, continuity, scenes, handoffs>>

\* A candidate the contract of its stage refuses blocks the run; the operator
\* resumes it at the same stage.
CandidateRefused == pc \notin {"commit", "done"} /\ UNCHANGED vars
Done == pc = "done" /\ UNCHANGED vars
-----------------------------------------------------------------------------
NoVerdict == [status |-> "none", threads |-> <<>>]

Init ==
    /\ pc = "card"
    /\ \E s \in InitialStates : generations = <<[state |-> s, evidence |-> <<>>]>>
    /\ card = NoCard
    /\ continuity = NoContinuity
    /\ scenes = <<>>
    /\ handoffs = <<>>
    /\ verdict = NoVerdict

Next ==
    \/ AdoptCard \/ AdoptContinuity \/ CommitScene \/ AdoptHandoff
    \/ AdoptCompletion \/ CandidateRefused \/ Done

Spec == Init /\ [][Next]_vars
-----------------------------------------------------------------------------
(* Properties. *)

Writes(s, f) == {o \in Range(scenes[s].operations) : FieldOf(o) = f}

\* The value of a field after the first n scenes, told from the scenes alone:
\* what the last scene that wrote the field gave it.
LastWritten(n, f) ==
    LET writers == {s \in 1 .. n : Writes(s, f) # {}} IN
    IF writers = {} THEN generations[1].state[f]
    ELSE LET s == CHOOSE s \in writers : \A r \in writers : r <= s
         IN NewOf(CHOOSE o \in Writes(s, f) : TRUE)

\* Every Generation is what its scenes wrote, field by field, in whatever
\* order their operations stand; each change has its passage in the evidence
\* of the Generation; no scene moves a character that takes no part in it; and
\* the order of events names committed scenes only, in the order of reading,
\* once each (apply_continuity_operations,
\* build_scene_generation, _validate_candidate).
StateIsWhatScenesWrote ==
    \A n \in 1 .. Len(generations) - 1 :
        LET g == generations[n + 1] IN
        /\ \A f \in Fields : g.state[f] = LastWritten(n, f)
        /\ \A f \in Fields : g.state[f] # generations[n].state[f] =>
                [scene |-> n, target |-> Target(f)] \in Range(g.evidence)
        /\ \A c \in Characters : g.state[Place(c)] # generations[n].state[Place(c)] =>
                c \in scenes[n].participants
        /\ \A i, j \in DOMAIN g.state[EventOrder] :
                i < j => g.state[EventOrder][i] < g.state[EventOrder][j]
        /\ Range(g.state[EventOrder]) \subseteq 1 .. n

\* The commit accepts every continuity its own stage adopted: the two check the
\* operations apart, and an adopted continuity can no longer be changed.
AdoptedContinuityCommits == pc = "commit" => ~CommitRefused

\* A series judged complete has every required thread resolved by a scene that
\* quotes its text for it, by none reopened since, and listed in the handoff
\* of the last volume.
CompleteIsGrounded ==
    pc = "done" /\ verdict.status # "incomplete" =>
        \A t \in Required :
            /\ t \in handoffs[Len(handoffs)].resolved
            /\ \E s \in 1 .. SceneCount :
                /\ \E o \in Writes(s, Status(t)) :
                    /\ NewOf(o) = "resolved"
                    /\ Target(Status(t)) \in {scenes[s].evidence[e] : e \in CitedBy(o)}
                /\ \A r \in s + 1 .. SceneCount : Writes(r, Status(t)) = {}

\* Whatever an honest reader finds about the ending and the arcs, the contract
\* of the Completion admits a verdict that says so.
Judgeable ==
    pc = "completion" =>
        LET sound == {j \in Judgements : ValidChecks(j)} IN
        \A ending \in {"satisfied", "not_satisfied"}, partial \in BOOLEAN :
            \E j \in sound, v \in Verdicts, issues \in BOOLEAN :
                /\ j.ending = ending
                /\ Partial(j) = partial
                /\ ValidVerdict(v, j, issues)

\* It does unless a required thread was left in_progress, a status the
\* continuity contract knows and the schema of the Completion does not.
JudgeableUnlessInProgress ==
    (\A t \in Required : Current.state[Status(t)] # "in_progress") => Judgeable
=============================================================================
