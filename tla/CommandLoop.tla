---------------------------- MODULE CommandLoop ----------------------------
(***************************************************************************)
(* Several storycraft processes on one output directory: the run, resume,  *)
(* step and validate commands, the race of two runs to create the          *)
(* workspace, the non-blocking directory lock and the loop that repeats    *)
(* V1WorkflowService.step until the run stops.                             *)
(*                                                                         *)
(* What one step does to the workspace under the lock is the other         *)
(* modules' subject; here it reads run-state and replaces it by the next   *)
(* one, or blocks the run.                                                 *)
(***************************************************************************)
EXTENDS Naturals

CONSTANTS
    Processes,      \* the operating system processes
    NoProcess,      \* the owner of a free lock, the creator of no workspace
    Steps,          \* steps from the input stage to the completed run
    MaxCrashes,     \* bound on the processes killed
    MaxOther        \* bound on the step and validate commands

ASSUME CommandAssumption ==
    /\ NoProcess \notin Processes
    /\ Steps \in Nat \ {0}
    /\ MaxCrashes \in Nat
    /\ MaxOther \in Nat

Looping == {"run", "resume"}
Commands == Looping \cup {"step", "validate"}
Labels == {"idle", "create", "load", "acquire", "work", "leave"}
-----------------------------------------------------------------------------
VARIABLES
    workspace,  \* the process whose run created it, or NoProcess
    state,      \* runtime/run-state.json, Initial while there is no workspace
    lock,       \* the process that holds the flock of runtime/lock
    (* the processes *)
    pc, command,
    seen,       \* the state the loop remembers as previous
    view,       \* the state the step works from, then the one it returns
    crashes, others

vars == <<workspace, state, lock, pc, command, seen, view, crashes, others>>
bounds == <<crashes, others>>

State == [position : 0 .. Steps, status : {"running", "blocked", "completed"}]
Initial == [position |-> 0, status |-> "running"]
Following(s) == [position |-> s.position + 1,
                 status |-> IF s.position + 1 = Steps THEN "completed"
                            ELSE "running"]
Blocked(s) == [s EXCEPT !.status = "blocked"]

TypeOK ==
    /\ workspace \in Processes \cup {NoProcess}
    /\ state \in State
    /\ lock \in Processes \cup {NoProcess}
    /\ pc \in [Processes -> Labels]
    /\ command \in [Processes -> Commands]
    /\ seen \in [Processes -> State]
    /\ view \in [Processes -> State]
    /\ crashes \in Nat
    /\ others \in Nat

Init ==
    /\ workspace = NoProcess
    /\ state = Initial
    /\ lock = NoProcess
    /\ pc = [p \in Processes |-> "idle"]
    /\ command = [p \in Processes |-> "run"]
    /\ seen = [p \in Processes |-> Initial]
    /\ view = [p \in Processes |-> Initial]
    /\ crashes = 0
    /\ others = 0

Exists == workspace # NoProcess
At(p, label) == pc[p] = label
Goto(p, label) == pc' = [pc EXCEPT ![p] = label]

\* The process ends, and its memory with it.
End(p) ==
    /\ Goto(p, "idle")
    /\ command' = [command EXCEPT ![p] = "run"]
    /\ seen' = [seen EXCEPT ![p] = Initial]
    /\ view' = [view EXCEPT ![p] = Initial]
-----------------------------------------------------------------------------
\* cmd_run found the path absent and builds the workspace next to it.
Run(p) ==
    /\ At(p, "idle")
    /\ ~Exists
    /\ command' = [command EXCEPT ![p] = "run"]
    /\ Goto(p, "create")
    /\ UNCHANGED <<workspace, state, lock, seen, view, bounds>>

\* A plausible slip: the rename replaces a workspace made in the meantime.
CreateOver(p) ==
    /\ At(p, "create")
    /\ workspace' = p
    /\ state' = Initial
    /\ Goto(p, "load")
    /\ UNCHANGED <<lock, command, seen, view, bounds>>

\* One rename puts the new workspace, with the first state of its run, in the
\* place of the output path; it fails when another run was first.
Create(p) ==
    /\ At(p, "create")
    /\ ~Exists
    /\ workspace' = p
    /\ state' = Initial
    /\ Goto(p, "load")
    /\ UNCHANGED <<lock, command, seen, view, bounds>>

CreateFails(p) ==
    /\ At(p, "create")
    /\ Exists
    /\ End(p)
    /\ UNCHANGED <<workspace, state, lock, bounds>>

Resume(p) ==
    /\ At(p, "idle")
    /\ Exists
    /\ command' = [command EXCEPT ![p] = "resume"]
    /\ Goto(p, "load")
    /\ UNCHANGED <<workspace, state, lock, seen, view, bounds>>

\* cmd_step and cmd_validate take the lock once.
Once(p) ==
    /\ At(p, "idle")
    /\ Exists
    /\ others < MaxOther
    /\ others' = others + 1
    /\ \E c \in {"step", "validate"} : command' = [command EXCEPT ![p] = c]
    /\ Goto(p, "acquire")
    /\ UNCHANGED <<workspace, state, lock, seen, view, crashes>>

\* The loop loads run-state outside the lock, to compare only.
Load(p) ==
    /\ At(p, "load")
    /\ IF state.status = "running"
       THEN /\ seen' = [seen EXCEPT ![p] = state]
            /\ Goto(p, "acquire")
            /\ UNCHANGED <<command, view>>
       ELSE End(p)
    /\ UNCHANGED <<workspace, state, lock, bounds>>

\* A plausible slip: the lock is shared, as flock's LOCK_SH is.
AcquireShared(p) ==
    /\ At(p, "acquire")
    /\ lock' = p
    /\ view' = [view EXCEPT ![p] = state]
    /\ Goto(p, "work")
    /\ UNCHANGED <<workspace, state, command, seen, bounds>>

\* The state is loaded again once the lock is held.
Acquire(p) ==
    /\ At(p, "acquire")
    /\ lock = NoProcess
    /\ lock' = p
    /\ view' = [view EXCEPT ![p] = state]
    /\ Goto(p, "work")
    /\ UNCHANGED <<workspace, state, command, seen, bounds>>

\* flock with LOCK_NB: the process does not wait, it ends with an error.
Busy(p) ==
    /\ At(p, "acquire")
    /\ lock # NoProcess
    /\ End(p)
    /\ UNCHANGED <<workspace, state, lock, bounds>>

Works(p) == At(p, "work") /\ command[p] # "validate"

\* A plausible slip: the step works from the state loaded before the lock.
ExecuteSeen(p) ==
    /\ Works(p)
    /\ view[p].status = "running"
    /\ \E s \in {Following(seen[p]), Blocked(seen[p])} :
        /\ state' = s
        /\ view' = [view EXCEPT ![p] = s]
    /\ Goto(p, "leave")
    /\ UNCHANGED <<workspace, lock, command, seen, bounds>>

\* A plausible slip: the step returns the state it started from.
ExecuteReturningOld(p) ==
    /\ Works(p)
    /\ view[p].status = "running"
    /\ \E s \in {Following(view[p]), Blocked(view[p])} : state' = s
    /\ Goto(p, "leave")
    /\ UNCHANGED <<workspace, lock, command, seen, view, bounds>>

Execute(p) ==
    /\ Works(p)
    /\ view[p].status = "running"
    /\ \E s \in {Following(view[p]), Blocked(view[p])} :
        /\ state' = s
        /\ view' = [view EXCEPT ![p] = s]
    /\ Goto(p, "leave")
    /\ UNCHANGED <<workspace, lock, command, seen, bounds>>

\* A stopped run is refused, a validation changes nothing: the lock is freed.
LeaveUnchanged(p) ==
    /\ At(p, "work")
    /\ command[p] = "validate" \/ view[p].status # "running"
    /\ lock' = NoProcess
    /\ End(p)
    /\ UNCHANGED <<workspace, state, bounds>>

\* The loop goes on from the state the step returned, not from the disk.
Leave(p) ==
    /\ At(p, "leave")
    /\ lock' = NoProcess
    /\ IF /\ command[p] \in Looping
          /\ view[p] # seen[p]
          /\ view[p].status = "running"
       THEN /\ seen' = [seen EXCEPT ![p] = view[p]]
            /\ Goto(p, "acquire")
            /\ UNCHANGED <<command, view>>
       ELSE End(p)
    /\ UNCHANGED <<workspace, state, bounds>>

\* A plausible slip: a lock file that outlives its process.
CrashKeepsLock(p) ==
    /\ pc[p] # "idle"
    /\ crashes < MaxCrashes
    /\ crashes' = crashes + 1
    /\ End(p)
    /\ UNCHANGED <<workspace, state, lock, others>>

\* The process is killed; the operating system frees its lock.
Crash(p) ==
    /\ pc[p] # "idle"
    /\ crashes < MaxCrashes
    /\ crashes' = crashes + 1
    /\ lock' = IF lock = p THEN NoProcess ELSE lock
    /\ End(p)
    /\ UNCHANGED <<workspace, state, others>>

Process(p) ==
    \/ Run(p) \/ Create(p) \/ CreateFails(p)
    \/ Resume(p) \/ Once(p)
    \/ Load(p) \/ Acquire(p) \/ Busy(p)
    \/ Execute(p) \/ LeaveUnchanged(p) \/ Leave(p)

Next == \E p \in Processes : Process(p) \/ Crash(p)

Spec == Init /\ [][Next]_vars

\* The system schedules every process, and a process that ended without
\* finishing the run is resumed.
FairSpec == Spec /\ \A p \in Processes : WF_vars(Process(p))
-----------------------------------------------------------------------------
\* While a process works on a step the state it loaded is the state on disk:
\* no other process changes it in between.
StepsAreSerial ==
    /\ \A p \in Processes : At(p, "work") => view[p] = state
    /\ \A p, q \in Processes :
        p # q => ~(pc[p] \in {"work", "leave"} /\ pc[q] \in {"work", "leave"})

\* No step is skipped, repeated or undone, whatever the other processes do:
\* run-state moves from a running state to the one after it, or is blocked,
\* and a workspace that is there is never another run's: of two that found
\* the path absent, the later one does not put its own in that place.
StateOnlyMovesForward ==
    [][/\ state' # state => /\ state.status = "running"
                            /\ state' \in {Following(state), Blocked(state)}
       /\ Exists => workspace' = workspace]_vars

\* The loop's guard against a step that did not advance never ends a healthy
\* run, although the state it compares with was loaded without the lock.
AdvanceIsNoticed ==
    \A p \in Processes :
        At(p, "leave") /\ command[p] \in Looping => view[p] # seen[p]

\* The run stops or completes although processes lose the lock and are killed.
EventuallyStops == <>(state.status # "running")
-----------------------------------------------------------------------------
Atomic == INSTANCE AtomicRun WITH
            Creators <- Processes,
            Nobody <- NoProcess,
            Last <- Steps,
            creator <- workspace,
            done <- state.position,
            outcome <- state.status

\* However many processes race, lose the lock or are killed, and whatever
\* states they remember, the directory shows one run: created once, and moved
\* by single steps.
ImplementsAtomicRun == Atomic!RunSpec
=============================================================================
