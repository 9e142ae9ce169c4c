--------------------------- MODULE CandidateStage ---------------------------
(***************************************************************************)
(* ReviewedCandidateStageRunner over a chain of stages: a candidate is     *)
(* generated, reviewed, revised at most RevisionLimit times, accepted and  *)
(* adopted as the stage's immutable artifact, or the run is blocked.  One  *)
(* action per persistent write; the Provider may answer anything or fail.  *)
(*                                                                         *)
(* Files survive a crash, pc and the draft in memory do not.  A step that  *)
(* raises ContractError ends at "raised".  Timestamps are represented by   *)
(* the number of the candidate the step reserves: both grow with each      *)
(* step, and a recovery reuses the one run-state holds.                    *)
(***************************************************************************)
EXTENDS Naturals, FiniteSets

CONSTANTS
    Stages,         \* number of candidate stages in the chain
    OwnDirectory,   \* stages whose artifact has a version directory of its own
    RevisionLimit,  \* quality.max_critique_passes
    MaxCandidate,   \* bound on the candidates generated
    MaxCrashes,     \* bound on the crashes of one behaviour
    CrashAt         \* labels at which the process may die

Labels == {"generate", "review", "unreviewed", "save", "exhausted",
           "reserve_revision", "revise", "adopt", "replace", "finalize",
           "advance"}

ASSUME CandidateAssumption ==
    /\ Stages \in Nat \ {0}
    /\ OwnDirectory \subseteq 1 .. Stages
    /\ RevisionLimit \in Nat \ {0}
    /\ MaxCandidate \in Nat
    /\ MaxCrashes \in Nat
    /\ CrashAt \subseteq Labels

NoDraft == [candidate |-> 0, version |-> 0]
NoReview == 0
-----------------------------------------------------------------------------
VARIABLES
    (* runtime/run-state.json, replaced as a whole *)
    stage,      \* current_stage, Stages + 1 when the chain is done
    status,     \* "running", or the stop_reason of a blocked run
    active,     \* active_candidate
    pending,    \* "none" or the phase of the candidate adoption
    updatedAt,
    (* the other files of the workspace *)
    counters,   \* runtime/counters.json: ids handed out, by kind
    versions,   \* runtime/candidates/<stage>/<candidate>/v<version>
    opened,     \* stages whose version directory was made
    artifacts,  \* the adopted files
    (* the running step *)
    pc, draft, review, stamp, crashes

runState == <<stage, status, active, pending, updatedAt>>
files == <<counters, versions, opened, artifacts>>
memory == <<draft, review, stamp>>
vars == <<runState, files, memory, pc, crashes>>

Draft == [candidate : Nat, version : Nat]
Verdict == {"accepted", "rejected", "needs_revision", "generated"}
Version == [stage : 1 .. Stages, candidate : Nat, version : Nat,
            review : Nat, status : Verdict]
Artifact == [stage : 1 .. Stages, candidate : Nat, version : Nat,
             created : Nat]

TypeOK ==
    /\ stage \in 1 .. Stages + 1
    /\ status \in {"running", "manual_review_required", "revision_limit"}
    /\ active \in Draft
    /\ pending \in {"none", "prepared", "artifact_finalized"}
    /\ updatedAt \in Nat
    /\ counters \in [candidate : Nat, review : Nat, revision : Nat]
    /\ versions \subseteq Version
    /\ opened \subseteq 1 .. Stages
    /\ artifacts \subseteq Artifact
    /\ pc \in Labels \cup {"idle", "raised"}
    /\ draft \in Draft
    /\ review \in Nat
    /\ stamp \in Nat
    /\ crashes \in Nat

Init ==
    /\ stage = 1
    /\ status = "running"
    /\ active = NoDraft
    /\ pending = "none"
    /\ updatedAt = 0
    /\ counters = [candidate |-> 0, review |-> 0, revision |-> 0]
    /\ versions = {}
    /\ opened = {}
    /\ artifacts = {}
    /\ pc = "idle"
    /\ draft = NoDraft
    /\ review = NoReview
    /\ stamp = 0
    /\ crashes = 0

AtRest == pc \in {"idle", "raised"}
Finished == stage > Stages
Stopped == Finished \/ status # "running"

\* What validate_workspace_layout asks of the adopted files: a version
\* directory holds its artifact.
LayoutValid ==
    \A s \in opened \cap OwnDirectory : \E a \in artifacts : a.stage = s

Published(d, verdict) ==
    \E v \in versions : /\ v.stage = stage
                        /\ v.candidate = d.candidate
                        /\ v.version = d.version
                        /\ v.status = verdict

VersionExists ==
    \E v \in versions : /\ v.stage = stage
                        /\ v.candidate = draft.candidate
                        /\ v.version = draft.version

\* The artifact the adopter writes from the draft.
Adopted == [stage |-> stage, candidate |-> draft.candidate,
            version |-> draft.version, created |-> stamp]

\* The conditions under which the running step raises ContractError.
Refused ==
    \/ AtRest /\ ~Stopped /\ \/ ~LayoutValid
                             \/ pending = "none" /\ active # NoDraft
    \/ pc = "review" /\ VersionExists
    \/ pc = "adopt" /\ ~Published(draft, "accepted")
    \/ pc = "replace" /\ \E a \in artifacts : a.stage = stage /\ a # Adopted
    \/ pc = "finalize" /\ ~LayoutValid

Starts ==
    /\ AtRest
    /\ ~Stopped
    /\ LayoutValid
-----------------------------------------------------------------------------
(* Generation and review: ReviewedCandidateStageRunner.run                 *)

\* A plausible slip: a prepared adoption is not looked for first.
BeginUnchecked ==
    /\ Starts
    /\ counters.candidate < MaxCandidate
    /\ counters' = [counters EXCEPT !.candidate = @ + 1]
    /\ stamp' = counters'.candidate
    /\ pc' = "generate"
    /\ UNCHANGED <<runState, versions, opened, artifacts, draft, review, crashes>>

ReserveCandidate ==
    /\ Starts
    /\ pending = "none"
    /\ active = NoDraft
    /\ counters.candidate < MaxCandidate
    /\ counters' = [counters EXCEPT !.candidate = @ + 1]
    /\ stamp' = counters'.candidate
    /\ pc' = "generate"
    /\ UNCHANGED <<runState, versions, opened, artifacts, draft, review, crashes>>

Block(reason, candidate) ==
    /\ status' = reason
    /\ active' = candidate
    /\ updatedAt' = stamp
    /\ pc' = "idle"
    /\ UNCHANGED <<stage, pending, files, memory, crashes>>

\* The Provider failed, or its answer broke the contract.
GenerationInvalid ==
    /\ pc = "generate"
    /\ Block("manual_review_required", active)

\* The candidate is kept in memory; the id of its first review is reserved.
Generate ==
    /\ pc = "generate"
    /\ draft' = [candidate |-> counters.candidate, version |-> 1]
    /\ counters' = [counters EXCEPT !.review = @ + 1]
    /\ review' = counters'.review
    /\ pc' = "review"
    /\ UNCHANGED <<runState, versions, opened, artifacts, stamp, crashes>>

PublishVersion(verdict, reviewId, next) ==
    /\ ~VersionExists
    /\ versions' = versions \cup
            {[stage |-> stage, candidate |-> draft.candidate,
              version |-> draft.version, review |-> reviewId,
              status |-> verdict]}
    /\ pc' = next
    /\ UNCHANGED <<runState, counters, opened, artifacts, memory, crashes>>

ReviewInvalid ==
    /\ pc = "review"
    /\ PublishVersion("generated", NoReview, "unreviewed")

BlockUnreviewed ==
    /\ pc = "unreviewed"
    /\ Block("manual_review_required", draft)

RevisionsUsed == draft.version - 1

\* A plausible slip: the limit is compared with the version, not the revisions.
ReviewOffByOne ==
    /\ pc = "review"
    /\ \/ PublishVersion("accepted", review, "save")
       \/ /\ RevisionsUsed > RevisionLimit
          /\ PublishVersion("rejected", review, "save")
       \/ /\ RevisionsUsed <= RevisionLimit
          /\ PublishVersion("needs_revision", review, "save")

\* The critique has no issue, or it has some.
Review ==
    /\ pc = "review"
    /\ \/ PublishVersion("accepted", review, "save")
       \/ /\ RevisionsUsed >= RevisionLimit
          /\ PublishVersion("rejected", review, "save")
       \/ /\ RevisionsUsed < RevisionLimit
          /\ PublishVersion("needs_revision", review, "save")

\* A plausible slip: active_candidate is saved alone.
SaveActiveOnly ==
    /\ pc = "save"
    /\ Published(draft, "accepted")
    /\ active' = draft
    /\ updatedAt' = stamp
    /\ pc' = "adopt"
    /\ UNCHANGED <<stage, status, pending, files, memory, crashes>>

\* active_candidate and pending_commit are saved together.
SaveAccepted ==
    /\ pc = "save"
    /\ Published(draft, "accepted")
    /\ active' = draft
    /\ pending' = "prepared"
    /\ updatedAt' = stamp
    /\ pc' = "adopt"
    /\ UNCHANGED <<stage, status, files, memory, crashes>>

SaveUnaccepted ==
    /\ pc = "save"
    /\ ~Published(draft, "accepted")
    /\ active' = draft
    /\ updatedAt' = stamp
    /\ pc' = IF Published(draft, "rejected") THEN "exhausted"
             ELSE "reserve_revision"
    /\ UNCHANGED <<stage, status, pending, files, memory, crashes>>

BlockExhausted ==
    /\ pc = "exhausted"
    /\ Block("revision_limit", draft)

ReserveRevision ==
    /\ pc = "reserve_revision"
    /\ counters' = [counters EXCEPT !.revision = @ + 1]
    /\ pc' = "revise"
    /\ UNCHANGED <<runState, versions, opened, artifacts, memory, crashes>>

RevisionInvalid ==
    /\ pc = "revise"
    /\ Block("manual_review_required", draft)

\* A plausible slip: one review id serves every version of a candidate.
ReviseOnSameReview ==
    /\ pc = "revise"
    /\ draft' = [draft EXCEPT !.version = @ + 1]
    /\ pc' = "review"
    /\ UNCHANGED <<runState, files, review, stamp, crashes>>

Revise ==
    /\ pc = "revise"
    /\ draft' = [draft EXCEPT !.version = @ + 1]
    /\ counters' = [counters EXCEPT !.review = @ + 1]
    /\ review' = counters'.review
    /\ pc' = "review"
    /\ UNCHANGED <<runState, versions, opened, artifacts, stamp, crashes>>
-----------------------------------------------------------------------------
(* Adoption: _complete_candidate_adoption and the adopter of the stage     *)

\* A plausible slip: the recovery takes the time from the clock.
RecoverWithFreshClock ==
    /\ Starts
    /\ pending # "none"
    /\ draft' = active
    /\ stamp' = counters.candidate + 1
    /\ pc' = "adopt"
    /\ UNCHANGED <<runState, files, review, crashes>>

\* The workflow finds a prepared adoption and completes it without a model.
RecoverAdoption ==
    /\ Starts
    /\ pending # "none"
    /\ draft' = active
    /\ stamp' = updatedAt
    /\ pc' = "adopt"
    /\ UNCHANGED <<runState, files, review, crashes>>

\* load_accepted_candidate_version, then mkdir of the version directory.
OpenDirectory ==
    /\ pc = "adopt" /\ ~Refused
    /\ opened' = opened \cup {stage}
    /\ pc' = "replace"
    /\ UNCHANGED <<runState, counters, versions, artifacts, memory, crashes>>

\* os.replace of the temporary file, or nothing when the artifact is there.
ReplaceArtifact ==
    /\ pc = "replace" /\ ~Refused
    /\ artifacts' = artifacts \cup {Adopted}
    /\ pc' = "finalize"
    /\ UNCHANGED <<runState, counters, versions, opened, memory, crashes>>

SaveFinalized ==
    /\ pc = "finalize" /\ ~Refused
    /\ pending' = "artifact_finalized"
    /\ pc' = "advance"
    /\ UNCHANGED <<stage, status, active, updatedAt, files, memory, crashes>>

\* advance_run_state: the next stage starts with nothing active or pending.
Advance ==
    /\ pc = "advance"
    /\ stage' = stage + 1
    /\ active' = NoDraft
    /\ pending' = "none"
    /\ updatedAt' = stamp
    /\ pc' = "idle"
    /\ UNCHANGED <<status, files, memory, crashes>>
-----------------------------------------------------------------------------
Raise ==
    /\ Refused
    /\ pc' = "raised"
    /\ UNCHANGED <<runState, files, memory, crashes>>

Crash ==
    /\ pc \in CrashAt
    /\ crashes < MaxCrashes
    /\ crashes' = crashes + 1
    /\ pc' = "idle"
    /\ draft' = NoDraft
    /\ review' = NoReview
    /\ stamp' = 0
    /\ UNCHANGED <<runState, files>>

\* The command loop returns at a blocked run, and at the end of the chain
\* the next stages are other modules'.
Rest ==
    /\ AtRest
    /\ Stopped
    /\ UNCHANGED vars

Produce ==
    \/ ReserveCandidate
    \/ Generate \/ GenerationInvalid
    \/ Review \/ ReviewInvalid \/ BlockUnreviewed
    \/ SaveAccepted \/ SaveUnaccepted \/ BlockExhausted
    \/ ReserveRevision \/ Revise \/ RevisionInvalid

Adopt ==
    \/ RecoverAdoption
    \/ OpenDirectory \/ ReplaceArtifact \/ SaveFinalized \/ Advance

Step == Produce \/ Adopt \/ Raise
Next == Step \/ Crash \/ Rest

Spec == Init /\ [][Next]_vars

\* The command loop, or the operator after a crash, runs the next step, and
\* every call of the Provider returns: the client gives each one a timeout.
FairSpec == Spec /\ WF_vars(Step)
-----------------------------------------------------------------------------
\* The versions of a candidate are one chain of revisions, each answering
\* the review of the one before, never longer than the limit; a candidate is
\* rejected only when the limit is used up.
RevisionsAreChained ==
    \A v \in versions :
        /\ v.version \in 1 .. RevisionLimit + 1
        /\ v.version > 1 =>
              \E w \in versions : /\ w.stage = v.stage
                                  /\ w.candidate = v.candidate
                                  /\ w.version = v.version - 1
                                  /\ w.status = "needs_revision"
        /\ v.status = "rejected" => v.version = RevisionLimit + 1

\* Candidate and review ids are never handed out twice, however many steps
\* died with an id in their hands.
IdsUsedOnce ==
    /\ \A v, w \in versions :
        \/ v = w
        \/ /\ v.candidate = w.candidate =>
                 v.stage = w.stage /\ v.version # w.version
           /\ v.review # NoReview => v.review # w.review
    /\ \A v \in versions : /\ v.candidate <= counters.candidate
                           /\ v.review <= counters.review

\* Every stage behind current_stage has exactly one artifact; the current one
\* has one only while its adoption is pending, and it is the active candidate.
\* Whichever step, first or recovering, wrote it, it is the content of a
\* version a review accepted.
ArtifactsMatchState ==
    /\ \A s \in 1 .. stage - 1 : \E a \in artifacts : a.stage = s
    /\ \A a, b \in artifacts : a = b \/ a.stage # b.stage
    /\ \A a \in artifacts :
        /\ \/ a.stage < stage
           \/ /\ a.stage = stage /\ pending # "none"
              /\ a.candidate = active.candidate /\ a.version = active.version
        /\ \E v \in versions :
              /\ v.stage = a.stage /\ v.candidate = a.candidate
              /\ v.version = a.version /\ v.status = "accepted"
    /\ pending = "artifact_finalized" =>
            \E a \in artifacts : a.stage = stage

\* A step is refused only for what a dead process left: a version directory
\* the layout check does not accept, or a candidate whose revision was
\* outstanding, which the stage will neither go on with nor replace.
RefusedOnlyForDeadWork ==
    Refused => ~LayoutValid \/ (pending = "none" /\ active # NoDraft)

\* A pending adoption is completed without the Provider: no id is consumed
\* and no candidate version is written until it is done.  An adopted
\* artifact is never replaced.
AdoptionIsIdempotent ==
    [][/\ pending # "none" => UNCHANGED <<counters, versions>>
       /\ artifacts \subseteq artifacts']_vars

\* A prepared adoption is completed whatever crashes interrupt it, unless one
\* of them leaves a version directory the layout check does not accept.
AdoptionCompletes == pending # "none" ~> (pending = "none" \/ ~LayoutValid)

\* A version or an artifact, without what the reviews and clocks made of it.
Identity(v) == [position |-> v.stage,
                candidate |-> [candidate |-> v.candidate, version |-> v.version]]

AcceptedVersions == {v \in versions : v.status = "accepted"}
StagesBehind == {a \in artifacts : a.stage < stage}

Atomic == INSTANCE AtomicAdoption WITH
            First <- 1,
            Following <- [s \in 1 .. Stages |-> s + 1],
            Candidates <- [candidate : 1 .. MaxCandidate,
                           version : 1 .. RevisionLimit + 1],
            position <- stage,
            accepted <- {Identity(v) : v \in AcceptedVersions},
            chosen <- IF pending = "none" THEN {} ELSE {active},
            adopted <- {Identity(a) : a \in StagesBehind}

\* Generating, reviewing and revising only ever accept candidates; the one
\* that is chosen is adopted whatever interrupts it, and seen to be so in one
\* step with the move to the next stage.
ImplementsAtomicAdoption == Atomic!AdoptionSpec
=============================================================================
