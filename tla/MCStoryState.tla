---------------------------- MODULE MCStoryState ----------------------------
(* Two volumes of one scene each.                                          *)
EXTENDS StoryState

McVolumeEnds == 1 .. SceneCount
=============================================================================
