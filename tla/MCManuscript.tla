----------------------------- MODULE MCManuscript -----------------------------
(* A volume of one chapter with two scenes and one of two chapters.          *)
EXTENDS Manuscript

McSceneCounts == << <<2>>, <<1, 1>> >>
=============================================================================
