------------------------ MODULE CandidateStage_proofs ------------------------
(***************************************************************************)
(* Theorems about CandidateStage, for any chain of stages, revision limit, *)
(* set of crash labels and bounds.                                         *)
(*                                                                         *)
(* What the files say is not inductive: which version may be published     *)
(* next, and which artifact written, rests on what the running step holds  *)
(* in memory at each label.                                                *)
(***************************************************************************)
EXTENDS CandidateStage, TLAPS

\* The labels of a step that makes a version, and of one that adopts it; the
\* labels at which it holds a draft.
Producing == {"generate", "review", "unreviewed", "save", "exhausted",
              "reserve_revision", "revise"}
Adopting == {"adopt", "replace", "finalize", "advance"}
Drafting == {"review", "save", "reserve_revision", "revise"}

\* The label of the running step, run-state and the memory agree.
Control ==
    /\ pc \in Labels => stage <= Stages /\ status = "running"
    /\ pc \in Producing => pending = "none"
    /\ pc \in Adopting =>
            pending # "none" /\ draft = active /\ stamp = updatedAt
    /\ pc \in {"finalize", "advance"} => Adopted \in artifacts
    /\ pc = "advance" => pending = "artifact_finalized"

\* The draft in work is the newest candidate, and its last version is known.
Work ==
    /\ pc = "generate" =>
            \A v \in versions : v.candidate < counters.candidate
    /\ pc \in Drafting =>
            /\ draft.candidate = counters.candidate
            /\ draft.version \in 1 .. RevisionLimit + 1
            /\ \A v \in versions :
                  v.candidate = draft.candidate =>
                     v.stage = stage /\ v.version <= draft.version
    /\ pc = "review" =>
            /\ review = counters.review
            /\ \A v \in versions : v.review < review
            /\ \A v \in versions :
                  v.candidate = draft.candidate => v.version # draft.version
            /\ draft.version > 1 =>
                  \E w \in versions : /\ w.stage = stage
                                      /\ w.candidate = draft.candidate
                                      /\ w.version = draft.version - 1
                                      /\ w.status = "needs_revision"
    /\ pc = "save" =>
            \E c \in {"accepted", "rejected", "needs_revision"} :
                Published(draft, c)
    /\ pc \in {"reserve_revision", "revise"} =>
            Published(draft, "needs_revision")

\* The limit is not used up while a revision is asked for.
Revisable ==
    \A v \in versions : v.status = "needs_revision" => v.version <= RevisionLimit

\* A pending adoption is that of an accepted candidate of a running stage.
Pending ==
    pending # "none" => /\ stage <= Stages /\ status = "running"
                        /\ Published(active, "accepted")

\* The artifact a pending adoption writes, in its first step or any other.
Expected == [stage |-> stage, candidate |-> active.candidate,
             version |-> active.version, created |-> updatedAt]

\* An artifact at the current stage is the expected one, byte for byte.
Shelf == \A a \in artifacts :
            a.stage < stage \/ (pending # "none" /\ a = Expected)

\* The inductive invariant.
Inductive ==
    /\ TypeOK /\ Control /\ Work /\ Revisable /\ Pending /\ Shelf
    /\ RevisionsAreChained /\ IdsUsedOnce /\ ArtifactsMatchState
-----------------------------------------------------------------------------
\* The first stage starts with no version and no artifact.
LEMMA InitInductive == Init => Inductive
<1> SUFFICES ASSUME Init PROVE Inductive
  OBVIOUS
<1>1. TypeOK
  BY CandidateAssumption DEF Init, TypeOK, NoDraft, Draft, NoReview
<1>2. Control /\ Work /\ Revisable /\ Pending /\ Shelf
  BY DEF Init, Control, Work, Revisable, Pending, Shelf, Labels, Producing,
         Adopting, Drafting
<1>3. RevisionsAreChained /\ IdsUsedOnce /\ ArtifactsMatchState
  BY DEF Init, RevisionsAreChained, IdsUsedOnce, ArtifactsMatchState
<1>4. QED
  BY <1>1, <1>2, <1>3 DEF Inductive

-----------------------------------------------------------------------------
\* Steps that leave run-state, versions and artifacts alone keep whatever is
\* said of these alone, if the counters only grow.
LEMMA FilesUntouched ==
    ASSUME Inductive,
           UNCHANGED <<runState, versions, opened, artifacts, crashes>>,
           counters' \in [candidate : Nat, review : Nat, revision : Nat],
           counters'.candidate >= counters.candidate,
           counters'.review >= counters.review,
           draft' \in Draft, review' \in Nat, stamp' \in Nat,
           pc' \in Labels \cup {"idle", "raised"}
    PROVE  /\ TypeOK' /\ Revisable' /\ Pending' /\ Shelf'
           /\ RevisionsAreChained' /\ IdsUsedOnce' /\ ArtifactsMatchState'
<1> USE DEF Inductive
<1>1. TypeOK' /\ Revisable' /\ Pending' /\ Shelf'
  BY DEF TypeOK, Revisable, Pending, Published, Shelf, Expected, runState
<1>2. RevisionsAreChained' /\ ArtifactsMatchState'
  BY DEF RevisionsAreChained, ArtifactsMatchState, runState
<1>3. IdsUsedOnce'
  BY DEF IdsUsedOnce, TypeOK, Version
<1>4. QED
  BY <1>1, <1>2, <1>3

\* Reserving ids and keeping a draft in memory.
LEMMA DraftInductive ==
    ASSUME Inductive,
           ReserveCandidate \/ Generate \/ ReserveRevision \/ Revise
    PROVE  Inductive'
<1> USE DEF Inductive
<1>1. UNCHANGED <<runState, versions, opened, artifacts, crashes>>
  BY DEF ReserveCandidate, Generate, ReserveRevision, Revise, memory
<1>2. CASE ReserveCandidate
  <2>1. /\ pending = "none" /\ stage <= Stages /\ status = "running"
        /\ counters' = [counters EXCEPT !.candidate = @ + 1]
        /\ stamp' = counters'.candidate /\ pc' = "generate"
        /\ UNCHANGED <<draft, review>>
    BY <1>2, CandidateAssumption
    DEF ReserveCandidate, Starts, Stopped, Finished, TypeOK
  <2>2. /\ counters' \in [candidate : Nat, review : Nat, revision : Nat]
        /\ counters'.candidate = counters.candidate + 1
        /\ counters'.review = counters.review
        /\ counters.candidate \in Nat /\ counters.review \in Nat
    BY <2>1 DEF TypeOK
  <2>3. /\ TypeOK' /\ Revisable' /\ Pending' /\ Shelf'
        /\ RevisionsAreChained' /\ IdsUsedOnce' /\ ArtifactsMatchState'
    BY <1>1, <2>1, <2>2, FilesUntouched DEF TypeOK, Labels
  <2>4. Control'
    BY <1>1, <2>1 DEF Control, runState, Adopting
  <2>5. \A v \in versions' : v.candidate < counters'.candidate
    BY <1>1, <2>2 DEF IdsUsedOnce, TypeOK, Version
  <2>6. Work'
    BY <2>1, <2>5 DEF Work, Drafting
  <2>7. QED
    BY <2>3, <2>4, <2>6
<1>3. CASE Generate
  <2>1. /\ pc = "generate" /\ pc' = "review"
        /\ draft' = [candidate |-> counters.candidate, version |-> 1]
        /\ counters' = [counters EXCEPT !.review = @ + 1]
        /\ review' = counters'.review /\ stamp' = stamp
    BY <1>3 DEF Generate
  <2>2. /\ counters' \in [candidate : Nat, review : Nat, revision : Nat]
        /\ counters'.candidate = counters.candidate
        /\ counters'.review = counters.review + 1
        /\ counters.candidate \in Nat /\ counters.review \in Nat
        /\ draft' \in Draft
    BY <2>1 DEF TypeOK, Draft
  <2>3. /\ TypeOK' /\ Revisable' /\ Pending' /\ Shelf'
        /\ RevisionsAreChained' /\ IdsUsedOnce' /\ ArtifactsMatchState'
    BY <1>1, <2>1, <2>2, FilesUntouched DEF TypeOK, Labels
  <2>4. Control'
    BY <1>1, <2>1 DEF Control, runState, Adopting, Producing, Labels
  <2>5. \A v \in versions' : /\ v.review < review'
                             /\ v.candidate # draft'.candidate
    BY <1>1, <2>1, <2>2 DEF IdsUsedOnce, Work, TypeOK, Version
  <2>6. /\ draft'.candidate = counters'.candidate /\ draft'.version = 1
        /\ 1 \in 1 .. RevisionLimit + 1
    BY <2>1, <2>2, CandidateAssumption
  <2>7. Work'
    BY <2>1, <2>5, <2>6 DEF Work, Drafting
  <2>8. QED
    BY <2>3, <2>4, <2>7
<1>4. CASE ReserveRevision
  <2>1. /\ pc = "reserve_revision" /\ pc' = "revise"
        /\ counters' = [counters EXCEPT !.revision = @ + 1]
        /\ UNCHANGED <<draft, review, stamp>>
    BY <1>4 DEF ReserveRevision, memory
  <2>2. /\ counters' \in [candidate : Nat, review : Nat, revision : Nat]
        /\ counters'.candidate = counters.candidate
        /\ counters'.review = counters.review
        /\ counters.candidate \in Nat /\ counters.review \in Nat
    BY <2>1 DEF TypeOK
  <2>3. /\ TypeOK' /\ Revisable' /\ Pending' /\ Shelf'
        /\ RevisionsAreChained' /\ IdsUsedOnce' /\ ArtifactsMatchState'
    BY <1>1, <2>1, <2>2, FilesUntouched DEF TypeOK, Labels
  <2>4. Control'
    BY <1>1, <2>1 DEF Control, runState, Adopting, Producing, Labels
  <2>5. Work'
    BY <1>1, <2>1, <2>2 DEF Work, Drafting, Published, runState
  <2>6. QED
    BY <2>3, <2>4, <2>5
<1>5. CASE Revise
  <2>1. /\ pc = "revise" /\ pc' = "review"
        /\ draft' = [draft EXCEPT !.version = @ + 1]
        /\ counters' = [counters EXCEPT !.review = @ + 1]
        /\ review' = counters'.review /\ stamp' = stamp
    BY <1>5 DEF Revise
  <2>2. /\ counters' \in [candidate : Nat, review : Nat, revision : Nat]
        /\ counters'.candidate = counters.candidate
        /\ counters'.review = counters.review + 1
        /\ counters.candidate \in Nat /\ counters.review \in Nat
        /\ draft' \in Draft
        /\ draft'.candidate = draft.candidate
        /\ draft'.version = draft.version + 1
        /\ draft.version \in Nat
    BY <2>1 DEF TypeOK, Draft
  <2>3. /\ TypeOK' /\ Revisable' /\ Pending' /\ Shelf'
        /\ RevisionsAreChained' /\ IdsUsedOnce' /\ ArtifactsMatchState'
    BY <1>1, <2>1, <2>2, FilesUntouched DEF TypeOK, Labels
  <2>4. Control'
    BY <1>1, <2>1 DEF Control, runState, Adopting, Producing, Labels
  <2>5. PICK w \in versions : /\ w.stage = stage
                             /\ w.candidate = draft.candidate
                             /\ w.version = draft.version
                             /\ w.status = "needs_revision"
    BY <2>1 DEF Work, Published
  <2>6. draft'.version \in 1 .. RevisionLimit + 1
    BY <2>2, <2>5, CandidateAssumption DEF Revisable
  <2>7. \E u \in versions' : /\ u.stage = stage'
                             /\ u.candidate = draft'.candidate
                             /\ u.version = draft'.version - 1
                             /\ u.status = "needs_revision"
    BY <1>1, <2>2, <2>5 DEF runState
  <2>8. \A v \in versions' :
            /\ v.review < review'
            /\ v.candidate = draft'.candidate =>
                    /\ v.stage = stage' /\ v.version <= draft'.version
                    /\ v.version # draft'.version
    BY <1>1, <2>1, <2>2 DEF IdsUsedOnce, Work, Drafting, TypeOK, Version,
       runState
  <2>9. draft'.candidate = counters'.candidate
    BY <2>1, <2>2 DEF Work, Drafting
  <2>10. Work'
    BY <2>1, <2>6, <2>7, <2>8, <2>9 DEF Work, Drafting
  <2>11. QED
    BY <2>3, <2>4, <2>10
<1>6. QED
  BY <1>2, <1>3, <1>4, <1>5

\* Publishing the draft: the id pair is new, so is its review, and its place
\* in the chain is known.
LEMMA PublishInductive ==
    ASSUME Inductive, Review \/ ReviewInvalid
    PROVE  Inductive'
<1> USE DEF Inductive
<1>1. PICK c \in Verdict, r \in {review, NoReview},
           next \in {"save", "unreviewed"} :
        /\ PublishVersion(c, r, next)
        /\ c = "generated" => next = "unreviewed" /\ r = NoReview
        /\ c # "generated" => next = "save" /\ r = review
        /\ c = "rejected" => RevisionsUsed >= RevisionLimit
        /\ c = "needs_revision" => RevisionsUsed < RevisionLimit
  BY DEF Review, ReviewInvalid, Verdict
<1> DEFINE new == [stage |-> stage, candidate |-> draft.candidate,
                   version |-> draft.version, review |-> r, status |-> c]
<1>2. /\ pc = "review" /\ pc' = next
      /\ versions' = versions \cup {new}
      /\ UNCHANGED <<runState, counters, opened, artifacts, draft, review,
                     stamp, crashes>>
  BY <1>1 DEF Review, ReviewInvalid, PublishVersion, memory
<1>3. /\ draft.candidate = counters.candidate
      /\ draft.version \in 1 .. RevisionLimit + 1
      /\ review = counters.review
      /\ counters.candidate \in Nat /\ counters.review \in Nat
      /\ stage \in 1 .. Stages /\ pending = "none"
  BY <1>2, CandidateAssumption
  DEF Work, Drafting, TypeOK, Control, Producing, Labels
<1>4. new \in Version
  BY <1>1, <1>3, CandidateAssumption DEF Version, Verdict, NoReview
<1>5. TypeOK'
  BY <1>2, <1>4 DEF TypeOK, runState, Labels
<1>6. Control'
  BY <1>2 DEF Control, runState, Producing, Adopting, Labels
<1>7. \A v \in versions :
        /\ v.review < review /\ v.review \in Nat /\ v.candidate \in Nat
        /\ v.version \in Nat
        /\ v.candidate <= counters.candidate
        /\ v.candidate = draft.candidate =>
                v.stage = stage /\ v.version <= draft.version
                /\ v.version # draft.version
  BY <1>2 DEF Work, Drafting, IdsUsedOnce, TypeOK, Version
<1>8. Work'
  <2>1. Published(draft, c)'
    <3>1. new \in versions' /\ stage' = stage /\ draft' = draft
      BY <1>2 DEF runState
    <3>2. /\ new.stage = stage /\ new.candidate = draft.candidate
          /\ new.version = draft.version /\ new.status = c
      OBVIOUS
    <3> HIDE DEF new
    <3>3. QED
      BY <3>1, <3>2 DEF Published
  <2>2. next = "save" => c \in {"accepted", "rejected", "needs_revision"}
    BY <1>1 DEF Verdict
  <2>3. \A v \in versions' : v.candidate = draft.candidate =>
            v.stage = stage /\ v.version <= draft.version
    BY <1>2, <1>3, <1>7
  <2>4. QED
    BY <1>2, <1>3, <2>1, <2>2, <2>3 DEF Work, Drafting, runState
<1>9. Revisable' /\ Pending' /\ Shelf'
  <2>1. Revisable'
    BY <1>1, <1>2, <1>3, CandidateAssumption DEF Revisable, RevisionsUsed
  <2>2. QED
    BY <1>2, <1>3, <2>1 DEF Pending, Shelf, Expected, runState
<1>10. RevisionsAreChained'
  <2>1. new.version > 1 =>
          \E w \in versions : /\ w.stage = new.stage
                              /\ w.candidate = new.candidate
                              /\ w.version = new.version - 1
                              /\ w.status = "needs_revision"
    BY <1>2 DEF Work
  <2>2. new.status = "rejected" => new.version = RevisionLimit + 1
    BY <1>1, <1>3, CandidateAssumption DEF RevisionsUsed
  <2>3. QED
    BY <1>2, <1>3, <2>1, <2>2 DEF RevisionsAreChained
<1>11. IdsUsedOnce'
  <2>1. \A v \in versions :
            /\ v.candidate = new.candidate =>
                    v.stage = new.stage /\ v.version # new.version
            /\ v.review # NoReview => v.review # new.review
            /\ new.review # NoReview => new.review # v.review
    BY <1>7, <1>1 DEF NoReview
  <2>2. new.candidate <= counters.candidate /\ new.review <= counters.review
    BY <1>3, <1>1 DEF NoReview
  <2>3. QED
    BY <1>2, <2>1, <2>2 DEF IdsUsedOnce
<1>12. ArtifactsMatchState'
  BY <1>2 DEF ArtifactsMatchState, runState
<1>13. QED
  BY <1>5, <1>6, <1>8, <1>9, <1>10, <1>11, <1>12

\* Saving what became of the candidate; a block keeps everything but run-state.
LEMMA SaveInductive ==
    ASSUME Inductive,
           \/ SaveAccepted \/ SaveUnaccepted
           \/ GenerationInvalid \/ BlockUnreviewed \/ BlockExhausted
           \/ RevisionInvalid
    PROVE  Inductive'
<1> USE DEF Inductive
<1>1. /\ pc \in Producing /\ pending = "none"
      /\ stage <= Stages /\ status = "running"
      /\ updatedAt' = stamp /\ active' \in {active, draft}
      /\ UNCHANGED <<stage, counters, versions, opened, artifacts, draft,
                     review, stamp, crashes>>
  BY DEF SaveAccepted, SaveUnaccepted, GenerationInvalid, BlockUnreviewed,
         BlockExhausted, RevisionInvalid, Block, Control, Producing, Labels,
         files, memory
<1>2. /\ Revisable' /\ RevisionsAreChained' /\ IdsUsedOnce'
  BY <1>1 DEF Revisable, RevisionsAreChained, IdsUsedOnce
<1>3. \A a \in artifacts : a.stage < stage
  BY <1>1 DEF Shelf
<1>4. Shelf'
  BY <1>1, <1>3 DEF Shelf
<1>5. CASE SaveAccepted
  <2>1. /\ Published(draft, "accepted") /\ active' = draft
        /\ pending' = "prepared" /\ pc' = "adopt" /\ status' = status
    BY <1>5 DEF SaveAccepted
  <2>2. TypeOK'
    BY <1>1, <2>1 DEF TypeOK, Labels
  <2>3. Control' /\ Work' /\ Pending'
    BY <1>1, <2>1
    DEF Control, Work, Pending, Published, Labels, Producing, Adopting,
        Drafting
  <2>4. ArtifactsMatchState'
    BY <1>1, <1>3, <2>1 DEF ArtifactsMatchState
  <2>5. QED
    BY <1>2, <1>4, <2>2, <2>3, <2>4
<1>6. CASE SaveUnaccepted
  <2>1. /\ pc = "save" /\ ~Published(draft, "accepted") /\ active' = draft
        /\ pc' = IF Published(draft, "rejected") THEN "exhausted"
                 ELSE "reserve_revision"
        /\ UNCHANGED <<pending, status>>
    BY <1>6 DEF SaveUnaccepted
  <2>2. TypeOK'
    BY <1>1, <2>1 DEF TypeOK, Labels
  <2>3. pc' = "reserve_revision" => Published(draft, "needs_revision")
    BY <2>1 DEF Work
  <2>4. Control' /\ Pending'
    BY <1>1, <2>1 DEF Control, Pending, Labels, Producing, Adopting
  <2>5. Work'
    BY <1>1, <2>1, <2>3 DEF Work, Drafting, Published
  <2>6. ArtifactsMatchState'
    BY <1>1, <1>3, <2>1 DEF ArtifactsMatchState
  <2>7. QED
    BY <1>2, <1>4, <2>2, <2>4, <2>5, <2>6
<1>7. CASE \/ GenerationInvalid \/ BlockUnreviewed \/ BlockExhausted
           \/ RevisionInvalid
  <2>1. /\ pc' = "idle" /\ pending' = pending
        /\ status' \in {"manual_review_required", "revision_limit"}
    BY <1>7
    DEF GenerationInvalid, BlockUnreviewed, BlockExhausted, RevisionInvalid,
        Block
  <2>2. TypeOK'
    BY <1>1, <2>1 DEF TypeOK
  <2>3. Control' /\ Work' /\ Pending'
    BY <1>1, <2>1
    DEF Control, Work, Pending, Labels, Producing, Adopting, Drafting
  <2>4. ArtifactsMatchState'
    BY <1>1, <1>3, <2>1 DEF ArtifactsMatchState
  <2>5. QED
    BY <1>2, <1>4, <2>2, <2>3, <2>4
<1>8. QED
  BY <1>5, <1>6, <1>7

\* The adoption, whether it goes on or is taken up again.
LEMMA AdoptInductive ==
    ASSUME Inductive, Adopt
    PROVE  Inductive'
<1> USE DEF Inductive
<1>1. /\ pending # "none" /\ stage \in 1 .. Stages /\ status = "running"
      /\ UNCHANGED <<status, counters, versions, crashes>>
  BY CandidateAssumption
  DEF Adopt, RecoverAdoption, OpenDirectory, ReplaceArtifact, SaveFinalized,
      Advance, Control, Adopting, Labels, Pending, TypeOK, runState, files,
      memory
<1>2. Revisable' /\ RevisionsAreChained' /\ IdsUsedOnce'
  BY <1>1 DEF Revisable, RevisionsAreChained, IdsUsedOnce
<1>3. Published(active, "accepted")
  BY <1>1 DEF Pending
<1>4. CASE RecoverAdoption
  <2>1. /\ draft' = active /\ stamp' = updatedAt /\ pc' = "adopt"
        /\ UNCHANGED <<stage, active, pending, updatedAt, opened, artifacts,
                       review>>
    BY <1>4 DEF RecoverAdoption, runState, files
  <2>2. TypeOK'
    BY <1>1, <2>1 DEF TypeOK, Labels
  <2>3. Control' /\ Work' /\ Pending' /\ Shelf' /\ ArtifactsMatchState'
    BY <1>1, <1>3, <2>1
    DEF Control, Work, Pending, Published, Shelf, Expected, TypeOK,
        ArtifactsMatchState, Labels, Producing, Adopting, Drafting
  <2>4. QED
    BY <1>2, <2>2, <2>3
<1>5. CASE OpenDirectory
  <2>1. /\ pc = "adopt" /\ pc' = "replace" /\ opened' = opened \cup {stage}
        /\ UNCHANGED <<stage, active, pending, updatedAt, artifacts, draft,
                       review, stamp>>
    BY <1>5 DEF OpenDirectory, runState, memory
  <2>2. TypeOK'
    BY <1>1, <2>1 DEF TypeOK, Labels
  <2>3. Control' /\ Work' /\ Pending' /\ Shelf' /\ ArtifactsMatchState'
    BY <1>1, <1>3, <2>1
    DEF Control, Work, Pending, Published, Shelf, Expected, TypeOK,
        ArtifactsMatchState, Labels, Producing, Adopting, Drafting
  <2>4. QED
    BY <1>2, <2>2, <2>3
<1>6. CASE ReplaceArtifact
  <2>1. /\ pc = "replace" /\ pc' = "finalize"
        /\ artifacts' = artifacts \cup {Adopted}
        /\ UNCHANGED <<stage, active, pending, updatedAt, opened, draft,
                       review, stamp>>
    BY <1>6 DEF ReplaceArtifact, runState, memory
  <2>2. Adopted = Expected /\ Adopted' = Adopted /\ Expected' = Expected
    BY <2>1 DEF Control, Adopting, Adopted, Expected
  <2>3. Expected \in Artifact
    BY <1>1 DEF TypeOK, Draft, Expected, Artifact
  <2>4. TypeOK'
    BY <1>1, <2>1, <2>2, <2>3 DEF TypeOK, Labels
  <2>5. Control' /\ Work' /\ Pending'
    BY <1>1, <1>3, <2>1, <2>2
    DEF Control, Work, Pending, Published, Labels, Producing, Adopting,
        Drafting
  <2>6. Shelf'
    BY <2>1, <2>2, <1>1 DEF Shelf
  <2>7. ArtifactsMatchState'
    <3>1. /\ Expected.stage = stage
          /\ Expected.candidate = active.candidate
          /\ Expected.version = active.version
      BY DEF Expected
    <3>2. \A a \in artifacts : a = Expected \/ a.stage < stage
      BY DEF Shelf
    <3>3. \A a, b \in artifacts' : a = b \/ a.stage # b.stage
      BY <1>1, <2>1, <2>2, <3>1, <3>2 DEF ArtifactsMatchState
    <3>4. \E v \in versions : /\ v.stage = stage
                              /\ v.candidate = active.candidate
                              /\ v.version = active.version
                              /\ v.status = "accepted"
      BY <1>3 DEF Published
    <3>5. QED
      BY <1>1, <2>1, <2>2, <3>1, <3>3, <3>4 DEF ArtifactsMatchState
  <2>8. QED
    BY <1>2, <2>4, <2>5, <2>6, <2>7
<1>7. CASE SaveFinalized
  <2>1. /\ pc = "finalize" /\ pc' = "advance"
        /\ pending' = "artifact_finalized"
        /\ UNCHANGED <<stage, active, updatedAt, opened, artifacts, draft,
                       review, stamp>>
    BY <1>7 DEF SaveFinalized, files, memory
  <2>2. Adopted \in artifacts /\ Adopted' = Adopted /\ Adopted.stage = stage
    BY <2>1 DEF Control, Adopted
  <2>3. TypeOK'
    BY <1>1, <2>1 DEF TypeOK, Labels
  <2>4. Control' /\ Work' /\ Pending' /\ Shelf' /\ ArtifactsMatchState'
    BY <1>1, <1>3, <2>1, <2>2
    DEF Control, Work, Pending, Published, Shelf, Expected,
        ArtifactsMatchState, Labels, Producing, Adopting, Drafting
  <2>5. QED
    BY <1>2, <2>3, <2>4
<1>8. CASE Advance
  <2>1. /\ pc = "advance" /\ pc' = "idle"
        /\ stage' = stage + 1 /\ active' = NoDraft /\ pending' = "none"
        /\ updatedAt' = stamp
        /\ UNCHANGED <<opened, artifacts, draft, review, stamp>>
    BY <1>8 DEF Advance, files, memory
  <2>2. Adopted \in artifacts /\ Adopted.stage = stage
    BY <2>1 DEF Control, Adopted
  <2>3. \A a \in artifacts : a.stage <= stage /\ a.stage < stage'
    BY <1>1, <2>1, CandidateAssumption DEF Shelf, Expected, TypeOK, Artifact
  <2>4. TypeOK'
    BY <1>1, <2>1, CandidateAssumption DEF TypeOK, NoDraft, Draft
  <2>5. Control' /\ Work' /\ Pending' /\ Shelf'
    BY <2>1, <2>3
    DEF Control, Work, Pending, Shelf, Labels, Producing, Adopting, Drafting
  <2>6. \A s \in 1 .. stage' - 1 : \E a \in artifacts : a.stage = s
    BY <1>1, <2>1, <2>2, CandidateAssumption DEF ArtifactsMatchState
  <2>7. ArtifactsMatchState'
    BY <1>1, <2>1, <2>3, <2>6 DEF ArtifactsMatchState
  <2>8. QED
    BY <1>2, <2>4, <2>5, <2>7
<1>9. QED
  BY <1>4, <1>5, <1>6, <1>7, <1>8 DEF Adopt

\* Errors and crashes leave all files alone, and forget the draft.
LEMMA FaultInductive ==
    ASSUME Inductive, Raise \/ Crash \/ UNCHANGED vars
    PROVE  Inductive'
<1> USE DEF Inductive
<1>1. CASE Raise \/ Crash
  <2>1. /\ UNCHANGED <<runState, files>>
        /\ pc' \in {"idle", "raised"} /\ crashes' \in Nat
        /\ draft' \in Draft /\ review' \in Nat /\ stamp' \in Nat
    BY <1>1 DEF Raise, Crash, TypeOK, Draft, NoDraft, NoReview, memory
  <2>2. TypeOK'
    BY <2>1 DEF TypeOK, runState, files
  <2>3. Control' /\ Work' /\ Revisable' /\ Pending' /\ Shelf'
    BY <2>1
    DEF Control, Work, Revisable, Pending, Published, Shelf, Expected,
        runState, files, Labels, Producing, Adopting, Drafting
  <2>4. RevisionsAreChained' /\ IdsUsedOnce' /\ ArtifactsMatchState'
    BY <2>1
    DEF RevisionsAreChained, IdsUsedOnce, ArtifactsMatchState, runState, files
  <2>5. QED
    BY <2>2, <2>3, <2>4
<1>2. CASE UNCHANGED vars
  <2>1. TypeOK' /\ Control' /\ Work'
    BY <1>2
    DEF vars, runState, files, memory, TypeOK, Control, Adopted, Work,
        Published
  <2>2. Revisable' /\ Pending' /\ Shelf'
    BY <1>2
    DEF vars, runState, files, memory, Revisable, Pending, Published, Shelf,
        Expected
  <2>3. RevisionsAreChained' /\ IdsUsedOnce' /\ ArtifactsMatchState'
    BY <1>2
    DEF vars, runState, files, RevisionsAreChained, IdsUsedOnce,
        ArtifactsMatchState
  <2>4. QED
    BY <2>1, <2>2, <2>3
<1>3. QED
  BY <1>1, <1>2

\* Every step of the program and every crash keeps the invariant.
LEMMA NextInductive == Inductive /\ [Next]_vars => Inductive'
<1>1. ASSUME Inductive, Next
      PROVE  Inductive'
  BY <1>1, DraftInductive, PublishInductive, SaveInductive, AdoptInductive,
     FaultInductive
  DEF Next, Step, Produce, Rest
<1>2. QED
  BY <1>1, FaultInductive

\* The invariant holds in every reachable state.
LEMMA AlwaysInductive == Spec => []Inductive
BY InitInductive, NextInductive, PTL DEF Spec

-----------------------------------------------------------------------------
\* For every revision limit: the versions of a candidate are one chain, each
\* but the first made on a critique of the one before, none beyond the limit.
THEOREM RevisionsChained == Spec => []RevisionsAreChained
BY AlwaysInductive, PTL DEF Inductive

\* However many steps died with an id in hand, no two versions share one.
THEOREM IdsAreUsedOnce == Spec => []IdsUsedOnce
BY AlwaysInductive, PTL DEF Inductive

\* For every chain of stages: artifacts are those of the stages gone by, and
\* of a pending adoption, each of content a review accepted.
THEOREM ArtifactsAndStateAgree == Spec => []ArtifactsMatchState
BY AlwaysInductive, PTL DEF Inductive

\* A step, first or recovering, is refused for the two known kinds of dead
\* work and for nothing else: it never meets its own id or artifact.
THEOREM OnlyDeadWorkRefuses == Spec => []RefusedOnlyForDeadWork
<1>1. ASSUME Inductive
      PROVE  RefusedOnlyForDeadWork
  <2> USE <1>1 DEF Inductive
  <2>1. pc = "review" => ~VersionExists
    BY DEF Work, VersionExists
  <2>2. pc = "adopt" => Published(draft, "accepted")
    BY DEF Control, Adopting, Pending
  <2>3. pc = "replace" => \A a \in artifacts : a.stage # stage \/ a = Adopted
    BY CandidateAssumption
    DEF Control, Adopting, Shelf, Expected, Adopted, TypeOK, Artifact
  <2>4. QED
    BY <2>1, <2>2, <2>3 DEF Refused, RefusedOnlyForDeadWork
<1>2. QED
  BY <1>1, AlwaysInductive, PTL

\* A pending adoption consumes no id and writes no version, and an artifact,
\* once adopted, stays as it is, over any crashes and recoveries.
THEOREM AdoptionRepeats == Spec => AdoptionIsIdempotent
<1>1. ASSUME Inductive, [Next]_vars
      PROVE  [/\ pending # "none" => UNCHANGED <<counters, versions>>
              /\ artifacts \subseteq artifacts']_vars
  <2>1. CASE Produce
    <3>1. pending = "none" /\ artifacts' = artifacts
      BY <1>1, <2>1
      DEF Produce, ReserveCandidate, Generate, GenerationInvalid, Review,
          ReviewInvalid, BlockUnreviewed, SaveAccepted, SaveUnaccepted,
          BlockExhausted, ReserveRevision, Revise, RevisionInvalid, Block,
          PublishVersion, Inductive, Control, Producing, files
    <3>2. QED
      BY <3>1
  <2>2. CASE Adopt
    BY <2>2
    DEF Adopt, RecoverAdoption, OpenDirectory, ReplaceArtifact, SaveFinalized,
        Advance, files
  <2>3. CASE Raise \/ Crash \/ Rest \/ UNCHANGED vars
    BY <2>3 DEF Raise, Crash, Rest, files, vars
  <2>4. QED
    BY <1>1, <2>1, <2>2, <2>3 DEF Next, Step
<1>2. Inductive /\ [Next]_vars =>
        [/\ pending # "none" => UNCHANGED <<counters, versions>>
         /\ artifacts \subseteq artifacts']_vars
  BY <1>1
<1>3. QED
  BY <1>2, AlwaysInductive, PTL DEF Spec, AdoptionIsIdempotent
-----------------------------------------------------------------------------
(* The runner implements the atomic adoption.                               *)

\* Every candidate the runner knows is one the bounds allow.
Limited ==
    /\ counters.candidate <= MaxCandidate
    /\ pc \in Producing => counters.candidate # 0
    /\ \A v \in versions : v.candidate # 0

\* No step draws an id beyond the bound, or files a version without one.
LEMMA LimitedKept ==
    ASSUME Inductive, Limited, [Next]_vars
    PROVE  Limited'
<1>0. counters \in [candidate : Nat, review : Nat, revision : Nat] /\ TypeOK
  BY DEF Inductive, TypeOK
<1>1. CASE ReserveCandidate
  BY <1>0, <1>1, CandidateAssumption DEF Limited, ReserveCandidate
<1>2. CASE Generate \/ ReserveRevision \/ Revise
  BY <1>0, <1>2 DEF Limited, Generate, ReserveRevision, Revise, Producing
<1>3. ASSUME NEW verdict, NEW id, NEW next, PublishVersion(verdict, id, next), pc = "review"
      PROVE  Limited'
  <2>1. draft.candidate = counters.candidate /\ counters.candidate # 0
    BY <1>3 DEF Inductive, Work, Drafting, Limited, Producing
  <2>2. QED
    BY <1>3, <2>1 DEF PublishVersion, Limited, Producing
<1>4. CASE Review \/ ReviewInvalid
  BY <1>3, <1>4 DEF Review, ReviewInvalid
<1>5. CASE GenerationInvalid \/ BlockUnreviewed \/ BlockExhausted \/ RevisionInvalid
  BY <1>5
  DEF Limited, GenerationInvalid, BlockUnreviewed, BlockExhausted, RevisionInvalid,
      Block, files, Producing
<1>6. CASE SaveAccepted \/ SaveUnaccepted
  BY <1>6 DEF Limited, SaveAccepted, SaveUnaccepted, files, Producing
<1>7. CASE Adopt
  BY <1>7
  DEF Limited, Adopt, RecoverAdoption, OpenDirectory, ReplaceArtifact, SaveFinalized,
      Advance, files, Producing
<1>8. CASE Raise \/ Crash \/ Rest \/ UNCHANGED vars
  BY <1>8 DEF Limited, Raise, Crash, Rest, vars, files, Producing
<1>9. QED
  BY <1>1, <1>2, <1>4, <1>5, <1>6, <1>7, <1>8 DEF Next, Step, Produce

\* What is known of the stages behind does not move while the stage stays.
LEMMA BehindStays ==
    ASSUME Inductive, UNCHANGED <<stage, artifacts>> \/ ReplaceArtifact
    PROVE  {Identity(a) : a \in StagesBehind}' = {Identity(a) : a \in StagesBehind}
<1>1. CASE UNCHANGED <<stage, artifacts>>
  BY <1>1 DEF StagesBehind, Identity
<1>2. CASE ReplaceArtifact
  <2>1. stage' = stage /\ artifacts' = artifacts \cup {Adopted}
    BY <1>2 DEF ReplaceArtifact, runState
  <2>2. ~(Adopted.stage < stage)
    BY DEF Adopted, Inductive, TypeOK
  <2>3. StagesBehind' = StagesBehind
    BY <2>1, <2>2 DEF StagesBehind
  <2>4. QED
    BY <2>3 DEF Identity
<1>3. QED
  BY <1>1, <1>2

\* A step that touches no version and neither makes nor ends a pending adoption.
LEMMA QuietStutters ==
    ASSUME Inductive, UNCHANGED <<stage, versions>>,
           UNCHANGED artifacts \/ ReplaceArtifact,
           \/ pending = "none" /\ pending' = "none"
           \/ pending # "none" /\ pending' # "none" /\ active' = active
    PROVE  UNCHANGED Atomic!adoptionVars
<1>1. {Identity(a) : a \in StagesBehind}' = {Identity(a) : a \in StagesBehind}
  BY BehindStays
<1>2. {Identity(v) : v \in AcceptedVersions}' = {Identity(v) : v \in AcceptedVersions}
  BY DEF AcceptedVersions, Identity
<1>3. QED
  BY <1>1, <1>2 DEF Atomic!adoptionVars

\* A version that a review accepts is an accepted candidate, another is not
\* seen.
LEMMA ReviewAccepts ==
    ASSUME Inductive, Limited, pc = "review",
           NEW verdict, NEW id, NEW next, PublishVersion(verdict, id, next)
    PROVE  [Atomic!AdoptionNext]_(Atomic!adoptionVars)
<1> DEFINE new == [stage |-> stage, candidate |-> draft.candidate,
                   version |-> draft.version, review |-> id, status |-> verdict]
           c == [candidate |-> draft.candidate, version |-> draft.version]
<1>1. /\ versions' = versions \cup {new}
      /\ UNCHANGED <<stage, pending, active, artifacts>>
  BY DEF PublishVersion, runState
<1>2. pending = "none" /\ stage \in 1 .. Stages
  BY CandidateAssumption DEF Inductive, Control, Producing, Labels, TypeOK
<1>3. c \in [candidate : 1 .. MaxCandidate, version : 1 .. RevisionLimit + 1]
  <2>1. draft.candidate = counters.candidate /\ draft.version \in 1 .. RevisionLimit + 1
    BY DEF Inductive, Work, Drafting
  <2>2. counters.candidate \in Nat /\ counters.candidate # 0
        /\ counters.candidate <= MaxCandidate
    BY DEF Inductive, TypeOK, Limited, Producing
  <2>3. QED
    BY <2>1, <2>2, CandidateAssumption
<1>4. new.status = verdict /\ Identity(new) = [position |-> stage, candidate |-> c]
  BY DEF Identity
<1>5. {Identity(a) : a \in StagesBehind}' = {Identity(a) : a \in StagesBehind}
  BY <1>1, BehindStays
<1>6. CASE verdict = "accepted"
  <2>1. AcceptedVersions' = AcceptedVersions \cup {new}
    <3> HIDE DEF new
    <3>1. QED
      BY <1>1, <1>4, <1>6 DEF AcceptedVersions
  <2>2. {Identity(v) : v \in AcceptedVersions}'
            = {Identity(v) : v \in AcceptedVersions}
                \cup {[position |-> stage, candidate |-> c]}
    <3>1. {Identity(v) : v \in AcceptedVersions}' = {Identity(v) : v \in AcceptedVersions'}
      BY DEF Identity
    <3> HIDE DEF new, c
    <3>2. QED
      BY <2>1, <3>1, <1>4
  <2>3. QED
    BY <1>1, <1>2, <1>3, <1>5, <2>2
    DEF Atomic!AdoptionNext, Atomic!Accept, Atomic!Here
<1>7. CASE verdict # "accepted"
  <2>1. AcceptedVersions' = AcceptedVersions
    <3> HIDE DEF new
    <3>1. QED
      BY <1>1, <1>4, <1>7 DEF AcceptedVersions
  <2>2. {Identity(v) : v \in AcceptedVersions}' = {Identity(v) : v \in AcceptedVersions}
    BY <2>1 DEF Identity
  <2>3. QED
    BY <1>1, <1>5, <2>2 DEF Atomic!adoptionVars
<1>8. QED
  BY <1>6, <1>7

\* A version, one of the bounds, that a review accepted.
LEMMA PublishedIsAccepted ==
    ASSUME Inductive, Limited, NEW d \in Draft, Published(d, "accepted")
    PROVE  /\ d \in [candidate : 1 .. MaxCandidate, version : 1 .. RevisionLimit + 1]
           /\ [position |-> stage, candidate |-> d]
                \in {Identity(v) : v \in AcceptedVersions}
<1>1. PICK v \in versions : /\ v.stage = stage /\ v.candidate = d.candidate
                            /\ v.version = d.version /\ v.status = "accepted"
  BY DEF Published
<1>2. d = [candidate |-> d.candidate, version |-> d.version]
  BY DEF Draft
<1>3. Identity(v) = [position |-> stage, candidate |-> d]
  BY <1>1, <1>2 DEF Identity
<1>4. v.candidate \in Nat /\ v.candidate # 0 /\ v.candidate <= MaxCandidate
  BY CandidateAssumption DEF Inductive, TypeOK, Version, Limited, IdsUsedOnce
<1>5. v.version \in 1 .. RevisionLimit + 1
  BY DEF Inductive, RevisionsAreChained
<1>6. d \in [candidate : 1 .. MaxCandidate, version : 1 .. RevisionLimit + 1]
  BY <1>1, <1>2, <1>4, <1>5, CandidateAssumption
<1>7. QED
  BY <1>1, <1>3, <1>6 DEF AcceptedVersions

\* The save that names the accepted candidate chooses it.
LEMMA SaveChooses ==
    ASSUME Inductive, Limited, SaveAccepted
    PROVE  Atomic!AdoptionNext
<1> DEFINE A == {Identity(v) : v \in AcceptedVersions}
<1>1. /\ pending = "none" /\ pending' = "prepared" /\ active' = draft
      /\ UNCHANGED <<stage, versions, artifacts>> /\ stage \in 1 .. Stages
  BY CandidateAssumption
  DEF SaveAccepted, Inductive, Control, Producing, Labels, TypeOK, files
<1>2. /\ draft \in [candidate : 1 .. MaxCandidate, version : 1 .. RevisionLimit + 1]
      /\ [position |-> stage, candidate |-> draft] \in A
  BY PublishedIsAccepted DEF SaveAccepted, Inductive, TypeOK
<1>3. {Identity(a) : a \in StagesBehind}' = {Identity(a) : a \in StagesBehind}
  BY <1>1, BehindStays
<1>4. A' = A \cup {[position |-> stage, candidate |-> draft]}
  <2>1. A' = A
    BY <1>1 DEF AcceptedVersions, Identity
  <2> HIDE DEF A
  <2>2. QED
    BY <1>2, <2>1
<1>5. QED
  BY <1>1, <1>2, <1>3, <1>4 DEF Atomic!AdoptionNext, Atomic!Choose, Atomic!Here

\* The save that moves the run on adopts it.
LEMMA AdvanceAdopts ==
    ASSUME Inductive, Limited, Advance
    PROVE  Atomic!AdoptionNext
<1> DEFINE A == {Identity(v) : v \in AcceptedVersions}
           B == {Identity(a) : a \in StagesBehind}
<1>1. /\ pending # "none" /\ pending' = "none" /\ stage' = stage + 1
      /\ UNCHANGED <<versions, artifacts>> /\ stage \in 1 .. Stages
      /\ Adopted \in artifacts /\ draft = active
  BY CandidateAssumption
  DEF Advance, Inductive, Control, Adopting, Labels, TypeOK, files
<1>2. active \in [candidate : 1 .. MaxCandidate, version : 1 .. RevisionLimit + 1]
  BY <1>1, PublishedIsAccepted DEF Inductive, Pending, TypeOK
<1>3. Identity(Adopted) = [position |-> stage, candidate |-> active]
  <2>1. active = [candidate |-> active.candidate, version |-> active.version]
    BY DEF Inductive, TypeOK, Draft
  <2>2. QED
    BY <1>1, <2>1 DEF Identity, Adopted
<1>4. A' = A
  BY <1>1 DEF AcceptedVersions, Identity
<1>5. B' = B \cup {[position |-> stage, candidate |-> active]}
  <2>1. \A a \in artifacts : a.stage < stage + 1 <=> a.stage < stage \/ a = Adopted
    <3>1. \A a \in artifacts : a.stage \in Nat
      BY CandidateAssumption DEF Inductive, TypeOK, Artifact
    <3>2. Adopted.stage = stage
      BY DEF Adopted
    <3>3. \A a \in artifacts : a.stage < stage \/ a = Expected
      BY DEF Inductive, Shelf
    <3>4. Expected = Adopted
      BY DEF Advance, Inductive, Control, Adopting, Expected, Adopted
    <3>5. QED
      BY <1>1, <3>1, <3>2, <3>3, <3>4
  <2>2. StagesBehind' = StagesBehind \cup {Adopted}
    BY <1>1, <2>1 DEF StagesBehind
  <2>3. B' = {Identity(a) : a \in StagesBehind'}
    BY DEF Identity
  <2>4. QED
    BY <1>3, <2>2, <2>3
<1>6. stage' = [s \in 1 .. Stages |-> s + 1][stage]
  BY <1>1
<1>7. QED
  BY <1>1, <1>2, <1>4, <1>5, <1>6 DEF Atomic!AdoptionNext, Atomic!Adopt, Atomic!Here

\* For every chain of stages, revision limit and set of crash labels, the
\* runner is seen as one that accepts candidates, chooses one and adopts that
\* one in the step that moves it on, whatever interrupts it.
THEOREM AdoptionIsAtomic == Spec => ImplementsAtomicAdoption
<1>1. Init => Atomic!AdoptionInit /\ Limited
  BY CandidateAssumption
  DEF Init, Atomic!AdoptionInit, Limited, AcceptedVersions, StagesBehind, Producing
<1>2. Inductive /\ Limited /\ [Next]_vars
        => [Atomic!AdoptionNext]_(Atomic!adoptionVars)
  <2> SUFFICES ASSUME Inductive, Limited, [Next]_vars
               PROVE  [Atomic!AdoptionNext]_(Atomic!adoptionVars)
    OBVIOUS
  <2>1. CASE Review \/ ReviewInvalid
    BY <2>1, ReviewAccepts DEF Review, ReviewInvalid
  <2>2. CASE SaveAccepted
    BY <2>2, SaveChooses
  <2>3. CASE Advance
    BY <2>3, AdvanceAdopts
  <2>4. CASE \/ ReserveCandidate \/ Generate \/ GenerationInvalid \/ BlockUnreviewed
             \/ SaveUnaccepted \/ BlockExhausted \/ ReserveRevision \/ Revise
             \/ RevisionInvalid
    <3>1. pending = "none" /\ UNCHANGED <<stage, pending, versions, artifacts>>
      BY <2>4
      DEF ReserveCandidate, Generate, GenerationInvalid, BlockUnreviewed,
          SaveUnaccepted, BlockExhausted, ReserveRevision, Revise, RevisionInvalid,
          Block, Inductive, Control, Producing, runState, files
    <3>2. QED
      BY <3>1, QuietStutters
  <2>5. CASE RecoverAdoption \/ OpenDirectory \/ ReplaceArtifact \/ SaveFinalized
    <3>1. pending # "none" /\ pending' # "none"
          /\ UNCHANGED <<stage, active, versions>>
          /\ (UNCHANGED artifacts \/ ReplaceArtifact)
      BY <2>5
      DEF RecoverAdoption, OpenDirectory, ReplaceArtifact, SaveFinalized, Inductive,
          Control, Adopting, runState, files
    <3>2. QED
      BY <3>1, QuietStutters
  <2>6. CASE Raise \/ Crash \/ Rest \/ UNCHANGED vars
    <3>1. UNCHANGED <<stage, pending, active, versions, artifacts>>
      BY <2>6 DEF Raise, Crash, Rest, vars, runState, files
    <3>2. QED
      BY <3>1, QuietStutters
  <2>7. QED
    BY <2>1, <2>2, <2>3, <2>4, <2>5, <2>6 DEF Next, Step, Produce, Adopt
<1>3. QED
  BY <1>1, <1>2, InitInductive, NextInductive, LimitedKept, PTL
  DEF Spec, ImplementsAtomicAdoption, Atomic!AdoptionSpec
=============================================================================
