------------------------- MODULE Publication_proofs -------------------------
(***************************************************************************)
(* Theorems about Publication, for any bound on ids, crashes, failed       *)
(* writes and lost stagings.                                               *)
(*                                                                         *)
(* Neither property is inductive: that a second id cannot be published     *)
(* rests on what the phase says of the final directory, and on the point   *)
(* the running step has reached.                                           *)
(***************************************************************************)
EXTENDS Publication, TLAPS

\* The publication the pending commit, or the completed run, is about.
Announced == [id |-> target, created |-> updatedAt]

\* What the running step has done by the time it reaches a label.
Control ==
    /\ pc \in {"make", "write", "prepare"} =>
            /\ status = "running" /\ phase = "none"
            /\ reserved \in 1 .. counter
    /\ pc \in {"finalize", "save_finalized"} => phase = "prepared"
    /\ pc = "complete" => phase = "publication_finalized"
    /\ pc \in {"save_finalized", "complete"} => Announced \in finals

\* What run-state says of the final directories.
Shelf ==
    /\ finals \subseteq {Announced}
    /\ phase = "none" /\ status = "running" => finals = {}
    /\ phase = "publication_finalized" => Announced \in finals
    /\ phase # "none" => status = "running"
    /\ status = "completed" => Announced \in finals /\ published = target

\* The inductive invariant.
Inductive == TypeOK /\ Control /\ Shelf

\* A publication is found complete exactly if it is the announced one.
LEMMA FinalFound ==
    ASSUME Shelf
    PROVE  /\ FinalCondition = "complete" <=> Announced \in finals
           /\ FinalCondition \in {"absent", "complete"}
<1>1. \A f \in finals : f = Announced
  BY DEF Shelf
<1>2. Announced.id = target
  BY DEF Announced
<1>3. QED
  BY <1>1, <1>2 DEF FinalCondition, Announced

\* The stage starts with nothing published and nothing pending.
LEMMA InitInductive == Init => Inductive
  BY PublicationAssumption
  DEF Init, Inductive, TypeOK, Control, Shelf, None, Labels

\* The writes of the stage up to the announcement.
LEMMA PrepareInductive ==
    ASSUME Inductive,
           \/ ReservePublication \/ MakeStaging \/ WriteFiles \/ WriteFails
           \/ SavePrepared
    PROVE  Inductive'
<1> USE DEF Inductive
<1>1. CASE ReservePublication
  <2>1. TypeOK'
    BY <1>1, PublicationAssumption
    DEF ReservePublication, TypeOK, runState, environment, Labels
  <2>2. Control' /\ Shelf'
    BY <1>1, PublicationAssumption
    DEF ReservePublication, TypeOK, Control, Shelf, Announced, runState
  <2>3. QED
    BY <2>1, <2>2
<1>2. CASE MakeStaging \/ WriteFiles \/ WriteFails
  <2>1. /\ staged' \subseteq Staging
        /\ pc' \in {"write", "prepare", "raised"}
        /\ pc \in {"make", "write"}
        /\ UNCHANGED <<runState, counter, finals, reserved, losses>>
        /\ faults' \in Nat
    <3>1. \A w \in BOOLEAN :
            [id |-> reserved, created |-> reserved, whole |-> w] \in Staging
      BY DEF TypeOK, Staging
    <3>2. Others \subseteq Staging /\ staged \subseteq Staging
      BY DEF TypeOK, Others
    <3>3. staged' \subseteq Staging
      BY <1>2, <3>1, <3>2 DEF MakeStaging, WriteFiles, WriteFails
    <3>4. faults' \in Nat
      BY <1>2 DEF MakeStaging, WriteFiles, WriteFails, TypeOK, environment
    <3>5. QED
      BY <1>2, <3>3, <3>4 DEF MakeStaging, WriteFiles, WriteFails, environment
  <2>2. TypeOK'
    BY <2>1 DEF TypeOK, runState, Labels
  <2>3. Control' /\ Shelf'
    BY <2>1 DEF Control, Shelf, Announced, runState
  <2>4. QED
    BY <2>2, <2>3
<1>3. CASE SavePrepared
  <2>1. /\ reserved \in 1 .. counter /\ finals = {} /\ status = "running"
        /\ target' = reserved /\ phase' = "prepared" /\ pc' = "finalize"
        /\ updatedAt' = reserved
        /\ UNCHANGED <<status, published, counter, staged, finals, reserved,
                       faults, losses>>
    BY <1>3 DEF SavePrepared, Control, Shelf, files, environment
  <2>2. TypeOK'
    BY <2>1, PublicationAssumption DEF TypeOK, Labels, None
  <2>3. Control' /\ Shelf'
    BY <2>1 DEF Control, Shelf
  <2>4. QED
    BY <2>2, <2>3
<1>4. QED
  BY <1>1, <1>2, <1>3

\* The writes from the rename on.
LEMMA PublishInductive ==
    ASSUME Inductive, FinalizePublication \/ SaveFinalized \/ Complete
    PROVE  Inductive'
<1> USE DEF Inductive
<1>1. CASE FinalizePublication
  <2>1. /\ pc = "finalize" /\ phase = "prepared" /\ status = "running"
        /\ finals' = finals \cup {Announced}
        /\ staged' \subseteq staged /\ pc' = "save_finalized"
        /\ UNCHANGED <<runState, counter, reserved, environment>>
    BY <1>1 DEF FinalizePublication, Announced, Control, Shelf
  <2>2. Announced \in Final /\ Announced' = Announced
    BY <2>1 DEF TypeOK, Announced, Final, runState
  <2>3. TypeOK'
    BY <2>1, <2>2 DEF TypeOK, runState, environment, Labels
  <2>4. Control' /\ Shelf'
    BY <2>1, <2>2 DEF Control, Shelf, runState
  <2>5. QED
    BY <2>3, <2>4
<1>2. CASE SaveFinalized
  <2>1. /\ Announced \in finals /\ status = "running"
        /\ phase' = "publication_finalized" /\ pc' = "complete"
        /\ UNCHANGED <<status, published, target, updatedAt, counter, staged,
                       finals, reserved, faults, losses>>
    BY <1>2 DEF SaveFinalized, Control, Shelf, files, environment
  <2>2. TypeOK'
    BY <1>2, <2>1 DEF SaveFinalized, Control, TypeOK, Labels
  <2>3. Control' /\ Shelf'
    BY <2>1 DEF Control, Shelf, Announced
  <2>4. QED
    BY <2>2, <2>3
<1>3. CASE Complete
  <2>1. /\ Announced \in finals
        /\ status' = "completed" /\ published' = target
        /\ phase' = "none" /\ pc' = "idle"
        /\ UNCHANGED <<target, updatedAt, counter, staged, finals, reserved,
                       faults, losses>>
    BY <1>3 DEF Complete, Control, files, environment
  <2>2. TypeOK'
    BY <2>1 DEF TypeOK
  <2>3. Control' /\ Shelf'
    BY <2>1 DEF Control, Shelf, Announced
  <2>4. QED
    BY <2>2, <2>3
<1>4. QED
  BY <1>1, <1>2, <1>3

\* A recovery enters the stage only where the directories are as far as the
\* label says.
LEMMA RecoverInductive ==
    ASSUME Inductive, RecoverFinalize \/ RecoverCompleteState
    PROVE  Inductive'
<1> USE DEF Inductive
<1>1. UNCHANGED <<runState, files, reserved, environment>>
  BY DEF RecoverFinalize, RecoverCompleteState
<1>2. CASE RecoverFinalize
  <2>1. phase = "prepared" /\ pc' = "finalize"
    BY <1>2 DEF RecoverFinalize, Recovery, Classify
  <2>2. QED
    BY <1>1, <2>1
    DEF TypeOK, Control, Shelf, Announced, runState, files, environment, Labels
<1>3. CASE RecoverCompleteState
  <2>1. Announced \in finals
    BY <1>3, FinalFound DEF RecoverCompleteState, Recovery, Classify
  <2>2. \/ phase = "prepared" /\ pc' = "save_finalized"
        \/ phase = "publication_finalized" /\ pc' = "complete"
    BY <1>3 DEF RecoverCompleteState, TypeOK
  <2>3. QED
    BY <1>1, <2>1, <2>2
    DEF TypeOK, Control, Shelf, Announced, runState, files, environment, Labels
<1>4. QED
  BY <1>2, <1>3

\* Errors, crashes and lost stagings leave the final directories alone.
LEMMA FaultInductive ==
    ASSUME Inductive, Raise \/ Crash \/ LoseStaging \/ UNCHANGED vars
    PROVE  Inductive'
<1> USE DEF Inductive
<1>1. /\ UNCHANGED <<runState, counter, finals>>
      /\ staged' \subseteq Staging
      /\ faults' \in Nat /\ losses' \in Nat /\ reserved' \in Nat
      /\ \/ pc' \in {"idle", "raised"}
         \/ pc' = pc /\ reserved' = reserved
  <2>1. CASE Raise
    BY <2>1 DEF Raise, TypeOK, files, environment
  <2>2. CASE Crash
    BY <2>2 DEF Crash, TypeOK, files, None
  <2>3. CASE LoseStaging
    <3>1. PICK s \in staged :
            staged' \in {staged \ {s},
                         (staged \ {s}) \cup {[s EXCEPT !.whole = FALSE]}}
      BY <2>3 DEF LoseStaging
    <3>2. [s EXCEPT !.whole = FALSE] \in Staging
      BY DEF TypeOK, Staging
    <3>3. staged' \subseteq Staging
      BY <3>1, <3>2 DEF TypeOK
    <3>4. losses' \in Nat
      BY <2>3 DEF LoseStaging, TypeOK
    <3>5. QED
      BY <2>3, <3>3, <3>4 DEF LoseStaging, TypeOK
  <2>4. CASE UNCHANGED vars
    BY <2>4 DEF vars, files, environment, TypeOK
  <2>5. QED
    BY <2>1, <2>2, <2>3, <2>4
<1>2. TypeOK'
  BY <1>1 DEF TypeOK, runState
<1>3. Control' /\ Shelf'
  BY <1>1 DEF Control, Shelf, Announced, runState
<1>4. QED
  BY <1>2, <1>3

\* Every step, crash and loss keeps the invariant.
LEMMA NextInductive == Inductive /\ [Next]_vars => Inductive'
<1>1. ASSUME Inductive, Next
      PROVE  Inductive'
  BY <1>1, PrepareInductive, PublishInductive, RecoverInductive,
     FaultInductive
  DEF Next, Step, Environment, Completed
<1>2. QED
  BY <1>1, FaultInductive

\* For every bound: a completed run names one whole publication with the
\* files its own metadata say, and nothing is pending.
THEOREM PublishedWhenCompleted == Spec => []CompletedIsPublished
<1>1. Inductive => CompletedIsPublished
  BY FinalFound DEF Inductive, Shelf, CompletedIsPublished, TypeOK
<1>2. QED
  BY <1>1, InitInductive, NextInductive, PTL DEF Spec

\* For every number of interruptions and ids tried, at most one publication
\* exists, and none before it was announced.
THEOREM PublishedOnce == Spec => []OnePublication
<1>1. Inductive => OnePublication
  BY DEF Inductive, Shelf, OnePublication, Announced, TypeOK
<1>2. QED
  BY <1>1, InitInductive, NextInductive, PTL DEF Spec
-----------------------------------------------------------------------------
(* The stage implements the atomic publication: the rename is the           *)
(* appearance of the book, the last save its naming.                        *)

\* The announced publication is dated by its id, and the run names none
\* before it is completed.
Dated ==
    /\ counter <= MaxPublication
    /\ phase # "none" => updatedAt = target
    /\ status = "running" => published = None

\* Every step keeps the saved timestamp with the target it was saved for.
LEMMA DatedKept ==
    ASSUME Inductive, Dated, [Next]_vars
    PROVE  Dated'
<1>0. /\ counter \in Nat /\ reserved \in Nat
      /\ phase # "none" => status = "running"
  BY DEF Inductive, TypeOK, Shelf
<1>1. CASE ReservePublication \/ SavePrepared \/ Complete
  BY <1>0, <1>1, PublicationAssumption
  DEF Dated, ReservePublication, SavePrepared, Complete, runState, files
<1>2. CASE SaveFinalized
  BY <1>0, <1>2 DEF Dated, SaveFinalized, files, Inductive, Control
<1>3. CASE MakeStaging \/ WriteFiles \/ FinalizePublication \/ WriteFails
  BY <1>3 DEF Dated, MakeStaging, WriteFiles, FinalizePublication, WriteFails, runState
<1>4. CASE RecoverFinalize \/ RecoverCompleteState \/ Raise \/ Crash \/ LoseStaging
           \/ Completed \/ UNCHANGED vars
  BY <1>4
  DEF Dated, RecoverFinalize, RecoverCompleteState, Raise, Crash, LoseStaging,
      Completed, vars, runState, files
<1>5. QED
  BY <1>1, <1>2, <1>3, <1>4 DEF Next, Step, Environment

\* The rename makes the one book appear.
LEMMA RenameAppears ==
    ASSUME Inductive, Dated, FinalizePublication
    PROVE  Atomic!PublicationNext
<1>1. /\ phase = "prepared" /\ status = "running" /\ Announced \notin finals
      /\ target \in 1 .. MaxPublication /\ updatedAt = target
  <2>1. phase = "prepared" /\ status = "running"
    BY DEF FinalizePublication, Inductive, Control, Shelf
  <2>2. FinalCondition # "complete"
    BY DEF FinalizePublication, Refused
  <2>3. Announced \notin finals
    BY <2>2, FinalFound DEF Inductive
  <2>4. target \in 0 .. counter /\ target # None /\ counter \in Nat
    BY <2>1 DEF Inductive, TypeOK
  <2>5. QED
    BY <2>1, <2>3, <2>4, PublicationAssumption DEF Dated, None
<1>2. finals = {} /\ published = None
  BY <1>1 DEF Inductive, Shelf, Dated
<1>3. finals' = {[id |-> target, created |-> target]} /\ published' = published
  BY <1>1, <1>2 DEF FinalizePublication, runState
<1>4. QED
  BY <1>1, <1>2, <1>3 DEF Atomic!PublicationNext, Atomic!Appear

\* The save that completes the run names it.
LEMMA CompleteNames ==
    ASSUME Inductive, Dated, Complete
    PROVE  Atomic!PublicationNext
<1>1. /\ phase = "publication_finalized" /\ status = "running"
      /\ Announced \in finals
  BY DEF Complete, Inductive, Control, Shelf
<1>2. target \in 1 .. MaxPublication /\ updatedAt = target /\ published = None
  <2>1. target \in 0 .. counter /\ target # None /\ counter \in Nat
    BY <1>1 DEF Inductive, TypeOK
  <2>2. QED
    BY <1>1, <2>1, PublicationAssumption DEF Dated, None
<1>3. published' = target /\ finals' = finals
  BY DEF Complete, files
<1>4. [id |-> target, created |-> target] \in finals
  BY <1>1, <1>2 DEF Announced
<1>5. QED
  BY <1>2, <1>3, <1>4 DEF Atomic!PublicationNext, Atomic!Name

\* For every number of interruptions, lost stagings and ids tried, the stage is
\* seen from publications/ and run-state as one book that appears, stays as
\* it is and is named when the run completes.
THEOREM PublicationIsAtomic == Spec => ImplementsAtomicPublication
<1>1. Init => Atomic!PublicationInit /\ Dated
  BY PublicationAssumption DEF Init, Atomic!PublicationInit, Dated
<1>2. Inductive /\ Dated /\ [Next]_vars
        => [Atomic!PublicationNext]_(Atomic!publicationVars)
  <2> SUFFICES ASSUME Inductive, Dated, [Next]_vars
               PROVE  [Atomic!PublicationNext]_(Atomic!publicationVars)
    OBVIOUS
  <2>1. CASE FinalizePublication
    BY <2>1, RenameAppears
  <2>2. CASE Complete
    BY <2>2, CompleteNames
  <2>3. CASE UNCHANGED <<finals, published>>
    BY <2>3 DEF Atomic!publicationVars
  <2>4. CASE ReservePublication \/ MakeStaging \/ WriteFiles \/ SavePrepared
             \/ SaveFinalized \/ WriteFails
    BY <2>3, <2>4
    DEF ReservePublication, MakeStaging, WriteFiles, SavePrepared, SaveFinalized,
        WriteFails, runState, files
  <2>5. CASE RecoverFinalize \/ RecoverCompleteState \/ Raise \/ Crash
             \/ LoseStaging \/ Completed \/ UNCHANGED vars
    BY <2>3, <2>5
    DEF RecoverFinalize, RecoverCompleteState, Raise, Crash, LoseStaging, Completed,
        vars, runState, files
  <2>6. QED
    BY <2>1, <2>2, <2>4, <2>5 DEF Next, Step, Environment
<1>3. QED
  BY <1>1, <1>2, InitInductive, NextInductive, DatedKept, PTL
  DEF Spec, ImplementsAtomicPublication, Atomic!PublicationSpec
=============================================================================
