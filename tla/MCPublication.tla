--------------------------- MODULE MCPublication ---------------------------
(* Instances of Publication: the cfg files give the bounds.                *)
EXTENDS Publication
=============================================================================
