--------------------------- MODULE MCSceneCommit ---------------------------
(* Instances of SceneCommit: two chapters, two scenes and one scene.       *)
EXTENDS SceneCommit

MCSceneCount == <<2, 1>>

EveryLabel == Labels
=============================================================================
