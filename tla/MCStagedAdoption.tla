-------------------------- MODULE MCStagedAdoption --------------------------
(* Two scenes, so that ids of one could come back in the other.            *)
EXTENDS StagedAdoption
=============================================================================
