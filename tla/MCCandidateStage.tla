-------------------------- MODULE MCCandidateStage --------------------------
(* Instances of CandidateStage: a stage of the initial design, whose parts *)
(* share one directory, followed by a plan with a directory of its own.    *)
EXTENDS CandidateStage

MCOwnDirectory == {2}

EveryLabel == Labels
=============================================================================
