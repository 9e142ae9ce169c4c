---------------------------- MODULE Publication ----------------------------
(***************************************************************************)
(* The publication stage and its crash recovery: PublicationStageService   *)
(* .run and execute_publication_recovery, one action per persistent write. *)
(* Files survive a crash, pc and the reserved id do not; a step that       *)
(* raises ContractError ends at "raised".  A publication's files are a     *)
(* function of its id and created_at; timestamps are represented by the    *)
(* id the step reserves, both grow with each step.                         *)
(***************************************************************************)
EXTENDS Naturals

CONSTANTS
    MaxPublication, \* bound on publication ids
    MaxFaults,      \* bound on crashes and failed writes
    MaxLosses       \* bound on staging directories lost to a power failure

ASSUME PublicationAssumption ==
    /\ MaxPublication \in Nat
    /\ MaxFaults \in Nat
    /\ MaxLosses \in Nat

None == 0
Labels == {"make", "write", "prepare", "finalize", "save_finalized", "complete"}
-----------------------------------------------------------------------------
VARIABLES
    (* runtime/run-state.json, replaced as a whole *)
    status,     \* "running" or "completed"
    published,  \* current_publication_id
    target,     \* pending_commit.target_id and current_target.publication_id
    phase,      \* "none" or the phase of the pending publication
    updatedAt,
    (* the other files of the workspace *)
    counter,    \* runtime/counters.json, publication ids handed out
    staged,     \* runtime/staging/publication-<id>
    finals,     \* publications/<id>
    (* the running step and its environment *)
    pc, reserved, faults, losses

runState == <<status, published, target, phase, updatedAt>>
files == <<counter, staged, finals>>
environment == <<faults, losses>>
vars == <<runState, files, pc, reserved, environment>>

Staging == [id : Nat, created : Nat, whole : BOOLEAN]
Final == [id : Nat, created : Nat]

TypeOK ==
    /\ status \in {"running", "completed"}
    /\ published \in 0 .. counter
    /\ target \in 0 .. counter
    /\ phase \in {"none", "prepared", "publication_finalized"}
    /\ phase # "none" => target # None
    /\ updatedAt \in Nat
    /\ counter \in 0 .. MaxPublication
    /\ staged \subseteq Staging
    /\ finals \subseteq Final
    /\ pc \in Labels \cup {"idle", "raised"}
    /\ reserved \in Nat
    /\ faults \in Nat
    /\ losses \in Nat

Init ==
    /\ status = "running"
    /\ published = None
    /\ target = None
    /\ phase = "none"
    /\ updatedAt = 0
    /\ counter = 0
    /\ staged = {}
    /\ finals = {}
    /\ pc = "idle"
    /\ reserved = None
    /\ faults = 0
    /\ losses = 0

AtRest == pc \in {"idle", "raised"}

(***************************************************************************)
(* _inspect_publication_directory compares with the files rebuilt from the *)
(* pending id and run-state.updated_at.                                    *)
(***************************************************************************)
StagingCondition ==
    IF ~\E s \in staged : s.id = target THEN "absent"
    ELSE IF [id |-> target, created |-> updatedAt, whole |-> TRUE] \in staged
         THEN "complete" ELSE "invalid"

FinalCondition ==
    IF ~\E f \in finals : f.id = target THEN "absent"
    ELSE IF [id |-> target, created |-> updatedAt] \in finals
         THEN "complete" ELSE "invalid"

\* A plausible slip: the phase is trusted instead of the directories.
ClassifyByPhase(p, inStaging, inFinal) ==
    IF "invalid" \in {inStaging, inFinal} THEN "manual"
    ELSE IF p = "prepared" THEN "finalize_publication" ELSE "complete_state"

\* classify_publication_recovery
Classify(p, inStaging, inFinal) ==
    IF p = "prepared" /\ inStaging = "complete" /\ inFinal = "absent"
        THEN "finalize_publication"
    ELSE IF inStaging = "absent" /\ inFinal = "complete"
        THEN "complete_state"
    ELSE "manual"

Recovery == Classify(phase, StagingCondition, FinalCondition)

\* The conditions under which the running step raises ContractError.
Refused ==
    \/ AtRest /\ phase # "none" /\ Recovery = "manual"
    \/ pc = "make" /\ \/ \E s \in staged : s.id = reserved
                      \/ \E f \in finals : f.id = reserved
    \/ pc = "finalize" /\ \/ StagingCondition # "complete"
                          \/ FinalCondition # "absent"
    \/ pc = "complete" /\ FinalCondition # "complete"
-----------------------------------------------------------------------------
(* PublicationStageService.run                                             *)

\* A plausible slip: an unfinished publication is not looked for first.
ReserveUnchecked ==
    /\ AtRest
    /\ status = "running"
    /\ counter < MaxPublication
    /\ counter' = counter + 1
    /\ reserved' = counter'
    /\ pc' = "make"
    /\ UNCHANGED <<runState, staged, finals, environment>>

ReservePublication ==
    /\ AtRest
    /\ status = "running"
    /\ phase = "none"
    /\ counter < MaxPublication
    /\ counter' = counter + 1
    /\ reserved' = counter'
    /\ pc' = "make"
    /\ UNCHANGED <<runState, staged, finals, environment>>

MakeStaging ==
    /\ pc = "make" /\ ~Refused
    /\ staged' = staged \cup
            {[id |-> reserved, created |-> reserved, whole |-> FALSE]}
    /\ pc' = "write"
    /\ UNCHANGED <<runState, counter, finals, reserved, environment>>

Others == {s \in staged : s.id # reserved}

WriteFiles ==
    /\ pc = "write"
    /\ staged' = Others \cup
            {[id |-> reserved, created |-> reserved, whole |-> TRUE]}
    /\ pc' = "prepare"
    /\ UNCHANGED <<runState, counter, finals, reserved, environment>>

\* An exception while writing removes the directory and ends the step.
WriteFails ==
    /\ pc = "write"
    /\ faults < MaxFaults
    /\ faults' = faults + 1
    /\ staged' = Others
    /\ pc' = "raised"
    /\ UNCHANGED <<runState, counter, finals, reserved, losses>>

SavePrepared ==
    /\ pc = "prepare"
    /\ target' = reserved
    /\ phase' = "prepared"
    /\ updatedAt' = reserved
    /\ pc' = "finalize"
    /\ UNCHANGED <<status, published, files, reserved, environment>>

FinalizePublication ==
    /\ pc = "finalize" /\ ~Refused
    /\ finals' = finals \cup {[id |-> target, created |-> updatedAt]}
    /\ staged' = {s \in staged : s.id # target}
    /\ pc' = "save_finalized"
    /\ UNCHANGED <<runState, counter, reserved, environment>>

SaveFinalized ==
    /\ pc = "save_finalized"
    /\ phase' = "publication_finalized"
    /\ pc' = "complete"
    /\ UNCHANGED <<status, published, target, updatedAt, files, reserved,
                   environment>>

\* A plausible slip: the pending publication outlives the completed run.
CompleteStillPending ==
    /\ pc = "complete" /\ ~Refused
    /\ status' = "completed"
    /\ published' = target
    /\ pc' = "idle"
    /\ UNCHANGED <<target, phase, updatedAt, files, reserved, environment>>

\* One replacement publishes the directory and completes the run.
Complete ==
    /\ pc = "complete" /\ ~Refused
    /\ status' = "completed"
    /\ published' = target
    /\ phase' = "none"
    /\ pc' = "idle"
    /\ UNCHANGED <<target, updatedAt, files, reserved, environment>>
-----------------------------------------------------------------------------
(* execute_publication_recovery                                            *)

RecoverFinalize ==
    /\ AtRest
    /\ phase # "none"
    /\ Recovery = "finalize_publication"
    /\ pc' = "finalize"
    /\ UNCHANGED <<runState, files, reserved, environment>>

\* The phase is brought up to the directory before the run is completed.
RecoverCompleteState ==
    /\ AtRest
    /\ phase # "none"
    /\ Recovery = "complete_state"
    /\ pc' = IF phase = "prepared" THEN "save_finalized" ELSE "complete"
    /\ UNCHANGED <<runState, files, reserved, environment>>
-----------------------------------------------------------------------------
Raise ==
    /\ Refused
    /\ pc' = "raised"
    /\ UNCHANGED <<runState, files, reserved, environment>>

Crash ==
    /\ pc \in Labels
    /\ faults < MaxFaults
    /\ faults' = faults + 1
    /\ pc' = "idle"
    /\ reserved' = None
    /\ UNCHANGED <<runState, files, losses>>

\* runtime/staging is not synced after the mkdir: a power failure may take
\* the directory away, or leave it without some of its files.
LoseStaging ==
    /\ AtRest
    /\ losses < MaxLosses
    /\ losses' = losses + 1
    /\ \E s \in staged :
        staged' \in {staged \ {s}, (staged \ {s}) \cup {[s EXCEPT !.whole = FALSE]}}
    /\ UNCHANGED <<runState, counter, finals, pc, reserved, faults>>

\* The command loop returns once the run is completed.
Completed ==
    /\ AtRest
    /\ status = "completed"
    /\ UNCHANGED vars

Step ==
    \/ ReservePublication \/ MakeStaging \/ WriteFiles \/ SavePrepared
    \/ FinalizePublication \/ SaveFinalized \/ Complete
    \/ RecoverFinalize \/ RecoverCompleteState
    \/ Raise

Environment == WriteFails \/ Crash \/ LoseStaging
Next == Step \/ Environment \/ Completed

Spec == Init /\ [][Next]_vars

\* The command loop, or the operator after a crash, runs the next step.
FairSpec == Spec /\ WF_vars(Step)
-----------------------------------------------------------------------------
\* A completed run names one whole publication, whose files are those its
\* own metadata say, and nothing is pending any more.
CompletedIsPublished ==
    status = "completed" =>
        /\ FinalCondition = "complete"
        /\ published = target
        /\ phase = "none"

\* However often the stage was interrupted and under how many ids it was
\* tried, one publication exists at most, and none before it was prepared.
OnePublication ==
    /\ \A f \in finals : f.id = target
    /\ \A f, g \in finals : f = g
    /\ finals # {} => phase # "none" \/ status = "completed"

\* The run is completed whatever crashes and failed writes interrupt it.
EventuallyCompleted == <>(status = "completed" \/ losses > 0)

Atomic == INSTANCE AtomicPublication WITH
            Books <- {[id |-> i, created |-> i] : i \in 1 .. MaxPublication},
            Unnamed <- None,
            shelf <- finals,
            named <- published

\* To a reader of publications/ and of run-state, the stage with all its
\* interruptions and recoveries is the appearance of one book, which is not
\* touched again, and its naming.
ImplementsAtomicPublication == Atomic!PublicationSpec
=============================================================================
