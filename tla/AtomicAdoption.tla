--------------------------- MODULE AtomicAdoption ---------------------------
(***************************************************************************)
(* What an adoption promises: candidates for the current position are      *)
(* accepted, one of them is chosen, and from then on nothing happens until *)
(* that one is adopted, in the same step that moves the run on.  No phase, *)
(* directory, interruption or repeated attempt is visible at this level.   *)
(***************************************************************************)

CONSTANTS
    First,          \* the position the run begins at
    Following,      \* position -> the one after it
    Candidates      \* candidates there can be

VARIABLES
    position,       \* what is looked for
    accepted,       \* the candidates accepted, with their position
    chosen,         \* the candidate to be adopted, none or one
    adopted         \* the candidates adopted, with their position

adoptionVars == <<position, accepted, chosen, adopted>>

AdoptionInit ==
    /\ position = First
    /\ accepted = {} /\ chosen = {} /\ adopted = {}

Here(c) == [position |-> position, candidate |-> c]

Accept(c) ==
    /\ position \in DOMAIN Following
    /\ chosen = {}
    /\ accepted' = accepted \cup {Here(c)}
    /\ UNCHANGED <<position, chosen, adopted>>

\* An accepted candidate, if only by this step.
Choose(c) ==
    /\ position \in DOMAIN Following
    /\ chosen = {}
    /\ accepted' = accepted \cup {Here(c)}
    /\ chosen' = {c}
    /\ UNCHANGED <<position, adopted>>

Adopt(c) ==
    /\ c \in chosen
    /\ adopted' = adopted \cup {Here(c)}
    /\ position' = Following[position]
    /\ chosen' = {}
    /\ UNCHANGED accepted

AdoptionNext == \E c \in Candidates : Accept(c) \/ Choose(c) \/ Adopt(c)

AdoptionSpec == AdoptionInit /\ [][AdoptionNext]_adoptionVars
=============================================================================
