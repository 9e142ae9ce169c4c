------------------------- MODULE AtomicPublication -------------------------
(***************************************************************************)
(* What the publication stage promises to somebody who looks into          *)
(* publications/ at any moment: one whole publication appears, in one      *)
(* step, stays as it is, and is the one the run names when it completes.   *)
(* No staging directory, phase or interruption is visible at this level.   *)
(***************************************************************************)
EXTENDS Naturals

CONSTANTS
    Books,          \* publications there can be, each with its id
    Unnamed         \* what a run names before it is completed

VARIABLES
    shelf,          \* the publications to be found
    named           \* the id the run names

publicationVars == <<shelf, named>>

PublicationInit == shelf = {} /\ named = Unnamed

Appear(b) ==
    /\ shelf = {} /\ named = Unnamed
    /\ shelf' = {b}
    /\ UNCHANGED named

Name(b) ==
    /\ named = Unnamed /\ b \in shelf
    /\ named' = b.id
    /\ UNCHANGED shelf

PublicationNext == \E b \in Books : Appear(b) \/ Name(b)

PublicationSpec == PublicationInit /\ [][PublicationNext]_publicationVars
=============================================================================
