----------------------------- MODULE AtomicRun -----------------------------
(***************************************************************************)
(* What the commands promise whoever looks at the output directory: one    *)
(* process creates the workspace, and from then on its run moves one step  *)
(* at a time, until it is blocked or has made its last step.  No process,  *)
(* lock, loop or killed command is visible at this level.                  *)
(***************************************************************************)
EXTENDS Naturals

CONSTANTS
    Creators,       \* who may create the workspace
    Nobody,         \* the creator of no workspace
    Last            \* the number of the last step

VARIABLES
    creator,
    done,           \* the steps made so far
    outcome         \* "running", "blocked" or "completed"

runVars == <<creator, done, outcome>>

RunInit == creator = Nobody /\ done = 0 /\ outcome = "running"

CreateRun(p) ==
    /\ creator = Nobody
    /\ creator' = p
    /\ UNCHANGED <<done, outcome>>

Going == creator # Nobody /\ outcome = "running"

MakeStep ==
    /\ Going
    /\ done < Last
    /\ done' = done + 1
    /\ outcome' = IF done + 1 = Last THEN "completed" ELSE "running"
    /\ UNCHANGED creator

GiveUp ==
    /\ Going
    /\ outcome' = "blocked"
    /\ UNCHANGED <<creator, done>>

RunNext == MakeStep \/ GiveUp \/ \E p \in Creators : CreateRun(p)

RunSpec == RunInit /\ [][RunNext]_runVars
=============================================================================
