------------------------- MODULE CommandLoop_proofs -------------------------
(***************************************************************************)
(* Theorems about CommandLoop, for any set of processes, any number of     *)
(* steps and any bounds on crashes and other commands.                     *)
(*                                                                         *)
(* StepsAreSerial is not inductive: that a second process cannot reach the *)
(* work needs the lock to name the first one.  AdvanceIsNoticed needs that *)
(* what a loop remembers is never newer than run-state.                    *)
(***************************************************************************)
EXTENDS CommandLoop, TLAPS

\* Who works holds the lock, and knows what is on disk.
Owner ==
    \A p \in Processes :
        pc[p] \in {"work", "leave"} => lock = p /\ view[p] = state

\* A run that is not finished has a step to do.
Unfinished == state.status = "running" => state.position < Steps

\* What a loop remembers was a running state, and no later one than today's.
Remembered ==
    \A p \in Processes :
        pc[p] \in {"acquire", "work"} /\ command[p] \in Looping
        => /\ seen[p].status = "running"
           /\ seen[p].position <= state.position

\* The inductive invariant.
Inductive == TypeOK /\ Owner /\ Unfinished /\ Remembered /\ AdvanceIsNoticed

\* A command past the creation works on a workspace that is there, and before
\* the creation no run has moved.
Created ==
    /\ \A p \in Processes :
        pc[p] \in {"load", "acquire", "work", "leave"} => Exists
    /\ ~Exists => state = Initial

\* The initial state of the machine.
LEMMA InitInductive == Init => Inductive
<1>1. Initial \in State
  BY CommandAssumption DEF Initial, State
<1>2. QED
  BY <1>1, CommandAssumption
  DEF Init, Inductive, TypeOK, Owner, Unfinished, Remembered,
      AdvanceIsNoticed, Initial, At, Labels, Commands, Looping

\* A step of the workflow leads to a state, and it is another one.
LEMMA StepMoves ==
    ASSUME NEW s \in State, s.status = "running", s.position < Steps,
           NEW t \in {Following(s), Blocked(s)}
    PROVE  /\ t \in State
           /\ t.status = "running" => t.position < Steps
           /\ t.position >= s.position
           /\ \A r \in State :
                r.status = "running" /\ r.position <= s.position => t # r
<1>1. s.position \in 0 .. Steps /\ s.position + 1 \in 0 .. Steps
  BY CommandAssumption DEF State
<1>2. CASE t = Following(s)
  <2>1. /\ t \in State
        /\ t.position = s.position + 1
        /\ t.status = "running" => t.position # Steps
    BY <1>1, <1>2, CommandAssumption DEF Following, State
  <2>2. QED
    BY <1>1, <2>1, CommandAssumption DEF State
<1>3. CASE t = Blocked(s)
  <2>1. t \in State /\ t.position = s.position /\ t.status = "blocked"
    BY <1>1, <1>3 DEF Blocked, State
  <2>2. QED
    BY <1>1, <2>1, CommandAssumption DEF State
<1>4. QED
  BY <1>2, <1>3

\* A process that ends keeps the types and is no longer at work.
LEMMA EndKeeps ==
    ASSUME TypeOK, NEW p \in Processes, End(p)
    PROVE  /\ pc' = [pc EXCEPT ![p] = "idle"]
           /\ pc' \in [Processes -> Labels]
           /\ command' \in [Processes -> Commands]
           /\ seen' \in [Processes -> State]
           /\ view' \in [Processes -> State]
           /\ \A q \in Processes \ {p} :
                /\ pc'[q] = pc[q] /\ command'[q] = command[q]
                /\ seen'[q] = seen[q] /\ view'[q] = view[q]
<1>1. Initial \in State
  BY CommandAssumption DEF Initial, State
<1>2. QED
  BY <1>1 DEF TypeOK, End, Goto, Labels, Commands, Looping

\* The actions that end a process and leave run-state alone; the lock stays
\* with whoever has it, or was the process's own.
LEMMA EndInductive ==
    ASSUME Inductive, NEW p \in Processes, End(p),
           UNCHANGED <<workspace, state>>,
           crashes' \in Nat, others' \in Nat,
           \/ lock' = lock
           \/ lock = p /\ lock' = NoProcess
    PROVE  Inductive'
<1>1. TypeOK'
  BY EndKeeps DEF Inductive, TypeOK
<1>2. pc'[p] = "idle"
  BY EndKeeps DEF Inductive, TypeOK
<1>3. Owner'
  BY <1>2, EndKeeps, CommandAssumption DEF Inductive, Owner
<1>4. Unfinished'
  BY DEF Inductive, Unfinished
<1>5. Remembered'
  BY <1>2, EndKeeps DEF Inductive, Remembered
<1>6. AdvanceIsNoticed'
  BY <1>2, EndKeeps DEF Inductive, AdvanceIsNoticed, At
<1>7. QED
  BY <1>1, <1>3, <1>4, <1>5, <1>6 DEF Inductive

\* The step itself: only the owner of the lock replaces run-state.
LEMMA ExecuteInductive ==
    ASSUME Inductive, NEW p \in Processes, Execute(p)
    PROVE  /\ Inductive'
           /\ state.status = "running"
           /\ state' \in {Following(state), Blocked(state)}
<1> USE DEF Inductive
<1>1. /\ pc[p] = "work" /\ lock = p /\ view[p] = state
      /\ state \in State /\ state.status = "running"
      /\ state.position < Steps
  BY DEF Execute, Works, At, Owner, Unfinished, TypeOK
<1>2. PICK t \in {Following(state), Blocked(state)} :
        state' = t /\ view' = [view EXCEPT ![p] = t]
  BY <1>1 DEF Execute
<1>3. /\ t \in State
      /\ t.status = "running" => t.position < Steps
      /\ t.position >= state.position
      /\ \A r \in State :
           r.status = "running" /\ r.position <= state.position => t # r
  BY <1>1, StepMoves
<1>4. /\ pc' = [pc EXCEPT ![p] = "leave"]
      /\ UNCHANGED <<workspace, lock, command, seen, crashes, others>>
  BY DEF Execute, Goto, bounds
<1>5. TypeOK'
  BY <1>2, <1>3, <1>4 DEF TypeOK, Labels
<1>6. Owner'
  BY <1>1, <1>2, <1>4 DEF TypeOK, Owner
<1>7. Unfinished'
  BY <1>2, <1>3 DEF Unfinished
<1>8. Remembered'
  <2> SUFFICES ASSUME NEW q \in Processes,
                      pc'[q] \in {"acquire", "work"}, command'[q] \in Looping
               PROVE  /\ seen'[q].status = "running"
                      /\ seen'[q].position <= state'.position
    BY DEF Remembered
  <2>1. /\ q # p /\ pc[q] \in {"acquire", "work"}
        /\ command[q] \in Looping /\ seen'[q] = seen[q]
    BY <1>4 DEF TypeOK
  <2>2. /\ seen[q].status = "running"
        /\ seen[q].position <= state.position
    BY <2>1 DEF Remembered
  <2>3. /\ seen[q].position \in Nat /\ state.position \in Nat
        /\ t.position \in Nat
    BY <1>1, <1>3, CommandAssumption DEF TypeOK, State
  <2>4. QED
    BY <1>2, <1>3, <2>1, <2>2, <2>3
<1>9. AdvanceIsNoticed'
  <2> SUFFICES ASSUME NEW q \in Processes,
                      pc'[q] = "leave", command'[q] \in Looping
               PROVE  view'[q] # seen'[q]
    BY DEF AdvanceIsNoticed, At
  <2>1. CASE q = p
    <3>1. /\ seen[p] \in State /\ seen[p].status = "running"
          /\ seen[p].position <= state.position
      BY <1>1, <1>4, <2>1 DEF TypeOK, Remembered
    <3>2. view'[p] = t /\ seen'[p] = seen[p]
      BY <1>2, <1>4 DEF TypeOK
    <3>3. QED
      BY <1>3, <2>1, <3>1, <3>2
  <2>2. CASE q # p
    BY <1>2, <1>4, <2>2 DEF TypeOK, AdvanceIsNoticed, At
  <2>3. QED
    BY <2>1, <2>2
<1>10. QED
  BY <1>1, <1>2, <1>5, <1>6, <1>7, <1>8, <1>9

\* Entering the work: the lock was free, so nobody else is at work.
LEMMA AcquireInductive ==
    ASSUME Inductive, NEW p \in Processes, Acquire(p)
    PROVE  Inductive'
<1> USE DEF Inductive
<1>1. /\ pc[p] = "acquire" /\ lock = NoProcess /\ lock' = p
      /\ view' = [view EXCEPT ![p] = state]
      /\ pc' = [pc EXCEPT ![p] = "work"]
      /\ UNCHANGED <<workspace, state, command, seen, crashes, others>>
  BY DEF Acquire, At, Goto, bounds
<1>2. \A q \in Processes : pc[q] \notin {"work", "leave"}
  BY <1>1, CommandAssumption DEF Owner
<1>3. TypeOK'
  BY <1>1 DEF TypeOK, Labels
<1>4. Owner'
  BY <1>1, <1>2 DEF TypeOK, Owner
<1>5. Unfinished' /\ Remembered'
  BY <1>1 DEF TypeOK, Unfinished, Remembered
<1>6. AdvanceIsNoticed'
  BY <1>1, <1>2 DEF TypeOK, AdvanceIsNoticed, At
<1>7. QED
  BY <1>3, <1>4, <1>5, <1>6

\* The loop goes round with the state its step returned.
LEMMA LeaveInductive ==
    ASSUME Inductive, NEW p \in Processes, Leave(p)
    PROVE  Inductive'
<1> USE DEF Inductive
<1>1. /\ pc[p] = "leave" /\ lock = p /\ view[p] = state
      /\ lock' = NoProcess
      /\ UNCHANGED <<workspace, state, crashes, others>>
  BY DEF Leave, At, Owner, bounds
<1>2. CASE End(p)
  BY <1>1, <1>2, EndInductive DEF TypeOK
<1>3. CASE /\ view[p].status = "running"
           /\ seen' = [seen EXCEPT ![p] = view[p]]
           /\ Goto(p, "acquire")
           /\ UNCHANGED <<command, view>>
  <2>1. \A q \in Processes \ {p} : pc[q] \notin {"work", "leave"}
    BY <1>1 DEF Owner
  <2>2. pc' = [pc EXCEPT ![p] = "acquire"]
    BY <1>3 DEF Goto
  <2>3. TypeOK'
    BY <1>1, <1>3, <2>2 DEF TypeOK, Labels
  <2>4. Owner' /\ Unfinished'
    BY <1>1, <2>1, <2>2 DEF TypeOK, Owner, Unfinished
  <2>5. state.position <= state.position
    BY CommandAssumption DEF TypeOK, State
  <2>6. Remembered'
    BY <1>1, <1>3, <2>2, <2>5 DEF TypeOK, Remembered
  <2>7. AdvanceIsNoticed'
    BY <1>3, <2>1, <2>2 DEF TypeOK, AdvanceIsNoticed, At
  <2>8. QED
    BY <2>3, <2>4, <2>6, <2>7
<1>4. QED
  BY <1>2, <1>3 DEF Leave

\* What a process does before it has the lock.
LEMMA ApproachInductive ==
    ASSUME Inductive, Created, NEW p \in Processes,
           Run(p) \/ Create(p) \/ Resume(p) \/ Once(p)
    PROVE  Inductive' /\ state' = state
<1> USE DEF Inductive
<1>1. PICK l \in {"create", "load", "acquire"} :
        pc' = [pc EXCEPT ![p] = l]
  BY DEF Run, Create, Resume, Once, Goto
<1>2. /\ UNCHANGED <<state, lock, seen, view>>
      /\ workspace' \in Processes \cup {NoProcess}
      /\ crashes' \in Nat /\ others' \in Nat
  BY DEF Run, Create, Resume, Once, TypeOK, bounds, Created
<1>3. /\ command' \in [Processes -> Commands]
      /\ \A q \in Processes \ {p} : command'[q] = command[q]
      /\ l = "acquire" => command'[p] \notin Looping
  <2>1. CASE Create(p)
    BY <2>1, <1>1 DEF Create, Goto, TypeOK
  <2>2. CASE Run(p) \/ Resume(p)
    BY <2>2, <1>1 DEF Run, Resume, Goto, TypeOK, Commands, Looping
  <2>3. CASE Once(p)
    BY <2>3, <1>1 DEF Once, TypeOK, Commands, Looping
  <2>4. QED
    BY <2>1, <2>2, <2>3
<1>4. TypeOK'
  BY <1>1, <1>2, <1>3 DEF TypeOK, Labels
<1>5. Owner' /\ Unfinished'
  BY <1>1, <1>2 DEF TypeOK, Owner, Unfinished
<1>6. Remembered'
  BY <1>1, <1>2, <1>3 DEF TypeOK, Remembered
<1>7. AdvanceIsNoticed'
  BY <1>1, <1>2, <1>3 DEF TypeOK, AdvanceIsNoticed, At
<1>8. QED
  BY <1>2, <1>4, <1>5, <1>6, <1>7

\* The loop remembers the running state it finds.
LEMMA LoadInductive ==
    ASSUME Inductive, NEW p \in Processes, Load(p)
    PROVE  Inductive'
<1> USE DEF Inductive
<1>1. UNCHANGED <<workspace, state, lock, crashes, others>>
  BY DEF Load, bounds
<1>2. CASE End(p)
  BY <1>1, <1>2, EndInductive DEF TypeOK
<1>3. CASE /\ state.status = "running"
           /\ seen' = [seen EXCEPT ![p] = state]
           /\ Goto(p, "acquire")
           /\ UNCHANGED <<command, view>>
  <2>1. pc' = [pc EXCEPT ![p] = "acquire"]
    BY <1>3 DEF Goto
  <2>2. TypeOK'
    BY <1>1, <1>3, <2>1 DEF TypeOK, Labels
  <2>3. state.position <= state.position
    BY CommandAssumption DEF TypeOK, State
  <2>4. Owner' /\ Unfinished'
    BY <1>1, <1>3, <2>1 DEF TypeOK, Owner, Unfinished
  <2>5. Remembered'
    BY <1>1, <1>3, <2>1, <2>3 DEF TypeOK, Remembered
  <2>6. AdvanceIsNoticed'
    BY <1>3, <2>1 DEF TypeOK, AdvanceIsNoticed, At
  <2>7. QED
    BY <2>2, <2>4, <2>5, <2>6
<1>4. QED
  BY <1>2, <1>3 DEF Load

\* Every step preserves the invariant, and the whole machine moves run-state
\* only forward.
LEMMA NextInductive ==
    ASSUME Inductive, Created, [Next]_vars
    PROVE  /\ Inductive'
           /\ state' # state =>
                /\ state.status = "running"
                /\ state' \in {Following(state), Blocked(state)}
<1>1. CASE UNCHANGED vars
  BY <1>1
  DEF vars, Inductive, TypeOK, Owner, Unfinished, Remembered,
      AdvanceIsNoticed, At
<1>2. ASSUME NEW p \in Processes, Process(p) \/ Crash(p)
      PROVE  /\ Inductive'
             /\ state' # state =>
                  /\ state.status = "running"
                  /\ state' \in {Following(state), Blocked(state)}
  <2>1. CASE Run(p) \/ Create(p) \/ Resume(p) \/ Once(p)
    BY <2>1, ApproachInductive
  <2>2. CASE CreateFails(p) \/ Busy(p)
    BY <2>2, EndInductive DEF CreateFails, Busy, bounds, Inductive, TypeOK
  <2>3. CASE Load(p)
    BY <2>3, LoadInductive DEF Load
  <2>4. CASE Acquire(p)
    BY <2>4, AcquireInductive DEF Acquire
  <2>5. CASE Execute(p)
    BY <2>5, ExecuteInductive
  <2>6. CASE LeaveUnchanged(p)
    <3>1. lock = p
      BY <2>6 DEF LeaveUnchanged, At, Inductive, Owner
    <3>2. QED
      BY <2>6, <3>1, EndInductive
      DEF LeaveUnchanged, bounds, Inductive, TypeOK
  <2>7. CASE Leave(p)
    BY <2>7, LeaveInductive DEF Leave
  <2>8. CASE Crash(p)
    BY <2>8, EndInductive DEF Crash, Inductive, TypeOK
  <2>9. QED
    BY <1>2, <2>1, <2>2, <2>3, <2>4, <2>5, <2>6, <2>7, <2>8 DEF Process
<1>3. QED
  BY <1>1, <1>2 DEF Next

\* No command removes the workspace or puts another in its place, and only
\* the creation moves what is not there yet.
LEMMA CreatedKept ==
    Inductive /\ Created /\ [Next]_vars
        => Created' /\ (Exists => workspace' = workspace)
<1> SUFFICES ASSUME Inductive, Created, [Next]_vars
             PROVE  Created' /\ (Exists => workspace' = workspace)
  OBVIOUS
<1>1. CASE UNCHANGED vars
  BY <1>1 DEF vars, Created, Exists
<1>2. ASSUME NEW p \in Processes, Process(p) \/ Crash(p)
      PROVE  Created' /\ (Exists => workspace' = workspace)
  <2>1. PICK l \in Labels : pc' = [pc EXCEPT ![p] = l]
    BY <1>2 DEF Process, Run, Create, CreateFails, Resume, Once, Load, Acquire,
       Busy, Execute, LeaveUnchanged, Leave, Crash, End, Goto, Labels
  <2>2. /\ Exists => workspace' = workspace
        /\ Exists => Exists'
    BY <1>2
    DEF Process, Run, Create, CreateFails, Resume, Once, Load, Acquire, Busy,
        Execute, LeaveUnchanged, Leave, Crash, Exists
  <2>3. pc'[p] \in {"load", "acquire", "work", "leave"} => Exists'
    BY <1>2, <2>2, CommandAssumption
    DEF Process, Run, Create, CreateFails, Resume, Once, Load, Acquire, Busy,
        Execute, LeaveUnchanged, Leave, Crash, End, Goto, Exists, At, Works,
        Created, Inductive, TypeOK
  <2>4. ~Exists' => state' = Initial
    <3>1. CASE Execute(p)
      BY <2>2, <3>1 DEF Execute, Works, At, Created
    <3>2. CASE Create(p)
      BY <3>2 DEF Create
    <3>3. CASE UNCHANGED state
      BY <2>2, <3>3 DEF Created
    <3> QED
      BY <1>2, <3>1, <3>2, <3>3
      DEF Process, Run, CreateFails, Resume, Once, Load, Acquire, Busy,
          LeaveUnchanged, Leave, Crash
  <2>5. QED
    BY <2>1, <2>2, <2>3, <2>4 DEF Created, Inductive, TypeOK
<1>3. QED
  BY <1>1, <1>2 DEF Next

\* Both hold together from the start.
LEMMA InvariantAlways == Spec => [](Inductive /\ Created)
<1>1. Init => Created
  BY CommandAssumption DEF Init, Created
<1>2. Inductive /\ Created /\ [Next]_vars => (Inductive /\ Created)'
  BY NextInductive, CreatedKept
<1>3. QED
  BY <1>1, <1>2, InitInductive, PTL DEF Spec

\* For any number of processes: while one works on a step, the state it
\* loaded is the one on disk, and no other is at work.
THEOREM StepsSerial == Spec => []StepsAreSerial
<1>1. Inductive => StepsAreSerial
  BY DEF Inductive, Owner, StepsAreSerial, At
<1>2. QED
  BY <1>1, InvariantAlways, PTL

\* For any number of processes the loop never takes a step that advanced for
\* one that did not, though it compares with a state read without the lock.
THEOREM AdvanceNoticed == Spec => []AdvanceIsNoticed
<1>1. Inductive => AdvanceIsNoticed
  BY DEF Inductive
<1>2. QED
  BY <1>1, InvariantAlways, PTL

\* For any number of processes no step of the run is skipped, repeated or
\* undone, and no run replaces the workspace of another.
THEOREM StateMovesForward == Spec => StateOnlyMovesForward
<1> DEFINE Forward ==
      /\ state' # state => /\ state.status = "running"
                           /\ state' \in {Following(state), Blocked(state)}
      /\ Exists => workspace' = workspace
<1>1. Inductive /\ Created /\ [Next]_vars => Forward
  BY NextInductive, CreatedKept
<1>2. Spec => [][Forward]_vars
  BY <1>1, InvariantAlways, PTL DEF Spec
<1>3. QED
  BY <1>2 DEF StateOnlyMovesForward
-----------------------------------------------------------------------------
(* The run seen from the output directory: AtomicRun.                      *)

\* The step of one process is a step of the run, or gives the run up.
LEMMA ExecuteMoves ==
    ASSUME Inductive, Created, NEW p \in Processes, Execute(p)
    PROVE  Atomic!MakeStep \/ Atomic!GiveUp
<1>1. /\ state \in State /\ state.status = "running"
      /\ state.position < Steps
      /\ state' \in {Following(state), Blocked(state)}
  BY ExecuteInductive DEF Inductive, TypeOK, Unfinished
<1>2. workspace # NoProcess /\ workspace' = workspace
  BY DEF Execute, Works, At, Created, Exists
<1>3. CASE state' = Following(state)
  <2>1. /\ state'.position = state.position + 1
        /\ state'.status = IF state.position + 1 = Steps THEN "completed"
                           ELSE "running"
    BY <1>3 DEF Following
  <2>2. QED
    BY <1>1, <1>2, <2>1 DEF Atomic!MakeStep, Atomic!Going
<1>4. CASE state' = Blocked(state)
  <2>1. state'.position = state.position /\ state'.status = "blocked"
    BY <1>1, <1>4 DEF Blocked, State
  <2>2. QED
    BY <1>1, <1>2, <2>1 DEF Atomic!GiveUp, Atomic!Going
<1>5. QED
  BY <1>1, <1>3, <1>4

\* For any number of processes and crashes, whoever looks at the directory
\* sees one process create the run and the run move by single steps until it
\* is blocked or complete.
THEOREM RunIsAtomic == Spec => ImplementsAtomicRun
<1>1. Init => Atomic!RunInit
  BY DEF Init, Atomic!RunInit, Initial
<1>2. Inductive /\ Created /\ [Next]_vars
        => [Atomic!RunNext]_(Atomic!runVars)
  <2> SUFFICES ASSUME Inductive, Created, [Next]_vars
               PROVE  [Atomic!RunNext]_(Atomic!runVars)
    OBVIOUS
  <2>1. CASE UNCHANGED <<workspace, state>>
    BY <2>1 DEF Atomic!runVars
  <2>2. CASE UNCHANGED vars
    BY <2>1, <2>2 DEF vars
  <2>3. ASSUME NEW p \in Processes, Process(p) \/ Crash(p)
        PROVE  [Atomic!RunNext]_(Atomic!runVars)
    <3>1. CASE Create(p)
      BY <3>1
      DEF Create, Created, Exists, Atomic!RunNext, Atomic!CreateRun
    <3>2. CASE Execute(p)
      BY <3>2, ExecuteMoves DEF Atomic!RunNext
    <3>3. CASE Run(p) \/ CreateFails(p) \/ Resume(p) \/ Once(p) \/ Load(p)
               \/ Acquire(p) \/ Busy(p) \/ LeaveUnchanged(p) \/ Leave(p)
               \/ Crash(p)
      BY <2>1, <3>3 DEF Run, CreateFails, Resume, Once, Load, Acquire, Busy,
         LeaveUnchanged, Leave, Crash
    <3>4. QED
      BY <2>3, <3>1, <3>2, <3>3 DEF Process
  <2>4. QED
    BY <2>2, <2>3 DEF Next
<1>3. QED
  BY <1>1, <1>2, InvariantAlways, PTL
  DEF Spec, ImplementsAtomicRun, Atomic!RunSpec
=============================================================================
