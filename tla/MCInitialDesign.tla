--------------------------- MODULE MCInitialDesign ---------------------------
(* The contracts of the Initial Design over small casts, worlds and threads. *)
EXTENDS InitialDesign

CONSTANTS name, places, conflict

McRoles == {"protagonist", "supporting"}
McTypes == {"friends", "rivals"}
McTruths == {"true", "belief_only"}
McBeliefs == {"knows", "believes"}
McWords == {name, places, conflict}

\* The records of a cast and of a world have a field name, and a world has
\* places; a conflict may be told of or not, and the made up world has one.
McSayings ==
    [concept |-> {{}, {conflict}},
     cast |-> {{name}, {name, conflict}},
     world |-> {{name, places}, {name, places, conflict}}]
=============================================================================
