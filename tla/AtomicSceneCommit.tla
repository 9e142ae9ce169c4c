------------------------- MODULE AtomicSceneCommit -------------------------
(***************************************************************************)
(* What the scene_commit stage promises: the history of a volume grows by  *)
(* one scene at a time, in reading order, and each scene appears together  *)
(* with the Story generation derived from it and from the generation       *)
(* before it.  No interruption, phase or staging directory is visible at   *)
(* this level.                                                             *)
(***************************************************************************)
EXTENDS Naturals

CONSTANTS
    First,          \* the first scene of the volume
    Following,      \* scene -> the scene after it, in reading order
    Initial,        \* the initial generation
    GenerationIds   \* ids a generation can have

VARIABLES
    history,        \* committed scenes with their generation and its parent
    head,           \* the current generation
    position        \* the scene to be committed next

atomicVars == <<history, head, position>>

AtomicInit ==
    /\ history = {}
    /\ head = Initial
    /\ position = First

Commit(g) ==
    /\ position \in DOMAIN Following
    /\ g > head
    /\ history' = history \cup
            {[scene |-> position, generation |-> g, parent |-> head]}
    /\ head' = g
    /\ position' = Following[position]

AtomicNext == \E g \in GenerationIds : Commit(g)

AtomicSpec == AtomicInit /\ [][AtomicNext]_atomicVars
=============================================================================
